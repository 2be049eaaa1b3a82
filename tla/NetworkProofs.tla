---------------------------- MODULE NetworkProofs ----------------------------
(***************************************************************************)
(* Proofs about Network, for every number of retries and of restarts.      *)
(*                                                                         *)
(* The argument is QueueInv: an event waits for event_handler only while   *)
(* the driver is idle or has just got an address, so when the last retry   *)
(* has failed there is nothing left in the queue that could connect again. *)
(***************************************************************************)
EXTENDS Network, SequenceTheorems, TLAPS

USE DEF bitVars, stationVars, taskVars

\* The queues that occur, and what their heads and tails are.
LEMMA Queues ==
  /\ <<>> \in Seq(Events) /\ <<"START">> \in Seq(Events)
  /\ <<"DISCONNECTED">> \in Seq(Events) /\ <<"GOT_IP">> \in Seq(Events)
  /\ <<"GOT_IP", "DISCONNECTED">> \in Seq(Events)
  <1>1. <<>> \in Seq(Events) /\ <<"START">> \in Seq(Events)
    BY DEF Events
  <1>2. <<"DISCONNECTED">> \in Seq(Events) /\ <<"GOT_IP">> \in Seq(Events)
    BY DEF Events
  <1>3. <<"GOT_IP", "DISCONNECTED">> \in Seq(Events)
    BY DEF Events
  <1>4. QED
    BY <1>1, <1>2, <1>3

LEMMA Heads ==
  ASSUME NEW q, q \in {<<>>, <<"START">>, <<"DISCONNECTED">>, <<"GOT_IP">>,
                       <<"GOT_IP", "DISCONNECTED">>},
         q # <<>>
  PROVE  /\ Head(q) = "START" => q = <<"START">> /\ Tail(q) = <<>>
         /\ Head(q) = "DISCONNECTED" => q = <<"DISCONNECTED">> /\ Tail(q) = <<>>
         /\ Head(q) = "GOT_IP" =>
              \/ q = <<"GOT_IP">> /\ Tail(q) = <<>>
              \/ q = <<"GOT_IP", "DISCONNECTED">> /\ Tail(q) = <<"DISCONNECTED">>
  <1>1. CASE q = <<"START">>
    BY <1>1
  <1>2. CASE q = <<"DISCONNECTED">>
    BY <1>2
  <1>3. CASE q = <<"GOT_IP">>
    BY <1>3
  <1>4. CASE q = <<"GOT_IP", "DISCONNECTED">>
    BY <1>4
  <1>5. QED
    BY <1>1, <1>2, <1>3, <1>4

LEMMA Posting ==
  /\ <<>> \o <<>> = <<>>
  /\ <<>> \o <<"DISCONNECTED">> = <<"DISCONNECTED">>
  /\ <<>> \o <<"GOT_IP">> = <<"GOT_IP">>
  /\ <<"GOT_IP">> \o <<"DISCONNECTED">> = <<"GOT_IP", "DISCONNECTED">>
  /\ Append(<<>>, "START") = <<"START">>
  <1>1. <<>> \o <<>> = <<>>
    OBVIOUS
  <1>2. <<>> \o <<"DISCONNECTED">> = <<"DISCONNECTED">>
    OBVIOUS
  <1>3. <<>> \o <<"GOT_IP">> = <<"GOT_IP">>
    OBVIOUS
  <1>4. <<"GOT_IP">> \o <<"DISCONNECTED">> = <<"GOT_IP", "DISCONNECTED">>
    <2> DEFINE s == <<"GOT_IP">> \o <<"DISCONNECTED">>
               t == <<"GOT_IP", "DISCONNECTED">>
    <2>1. s \in Seq(Events) /\ Len(s) = 2
      BY Queues
    <2>2. s[1] = "GOT_IP" /\ s[2] = "DISCONNECTED"
      BY Queues
    <2>3. t \in Seq(Events) /\ Len(t) = 2 /\ t[1] = "GOT_IP" /\ t[2] = "DISCONNECTED"
      BY Queues
    <2>4. \A i \in 1 .. 2 : s[i] = t[i]
      BY <2>2, <2>3
    <2> HIDE DEF s, t
    <2>5. s = t
      BY <2>1, <2>3, <2>4, SeqEqual
    <2>6. QED
      BY <2>5 DEF s, t
  <1>5. Append(<<>>, "START") = <<"START">>
    OBVIOUS
  <1>6. QED
    BY <1>1, <1>2, <1>3, <1>4, <1>5
\* What the steps preserve, by name.
USE DEF NetworkTasks, Bits, StopSteps, AfterTasks, CreateSteps

LEMMA QueueFacts ==
  ASSUME NetworkInv
  PROVE  /\ events \in {<<>>, <<"START">>, <<"DISCONNECTED">>, <<"GOT_IP">>,
                        <<"GOT_IP", "DISCONNECTED">>}
         /\ events # <<>> => link \in {"idle", "online"} /\ ~GivenUp
  BY DEF NetworkInv, QueueInv, TypeOK

LEMMA InitInv == Init => NetworkInv
  <1> SUFFICES ASSUME Init PROVE NetworkInv
    OBVIOUS
  <1> USE NetworkAssumption DEF Init, AtBoot
  <1>1. TypeOK
    <2>1. at \in [{"main", "monitor"} -> {"none", "start", "wait", "done"}
                                         \cup CreateSteps \cup StopSteps]
      OBVIOUS
    <2>2. /\ retryNum \in 0 .. MaximumRetry
          /\ losses \in 0 .. MaximumRetry + 1
          /\ events \in Seq(Events)
          /\ boots \in 0 .. MaxBoots
      BY Queues
    <2>3. /\ task \in [NetworkTasks -> {"none", "running", "ended", "deleted"}]
          /\ handle \in [NetworkTasks -> BOOLEAN]
      OBVIOUS
    <2>4. bits \subseteq Bits /\ seen \subseteq Bits
      OBVIOUS
    <2>5. /\ registered \in BOOLEAN /\ misdeleted \in BOOLEAN
          /\ link \in {"off", "idle", "connecting", "associated", "online"}
      OBVIOUS
    <2> HIDE DEF Init, AtBoot
    <2>6. QED
      BY <2>1, <2>2, <2>3, <2>4, <2>5 DEF TypeOK
  <1>2. retryNum <= losses /\ GivesUpAfterRetries
    BY DEF GivesUpAfterRetries
  <1>3. QueueInv
    BY DEF QueueInv, GivenUp
  <1>4. MainInv
    BY DEF MainInv
  <1>5. StopInv
    BY DEF StopInv
  <1>6. QED
    BY <1>1, <1>2, <1>3, <1>4, <1>5 DEF NetworkInv

LEMMA DriverStep == NetworkInv /\ Driver => NetworkInv'
  <1> SUFFICES ASSUME NetworkInv, Driver PROVE NetworkInv'
    OBVIOUS
  <1> USE DEF NetworkInv
  <1>0. UNCHANGED <<at, bits, seen, retryNum, registered, losses, task, handle,
                    misdeleted, boots>>
    BY DEF Driver, Associate, Address, Lost, LinkStep
  <1>1. ~GivenUp \/ link \notin {"idle", "off"} => ~GivenUp
    BY DEF QueueInv
  <1>2. link' # "off" /\ link' \in {"idle", "associated", "online"} /\ link \notin {"idle", "off"}
    BY DEF Driver, Associate, Address, Lost, LinkStep
  <1>3. QueueInv' /\ events' \in Seq(Events)
    BY <1>0, <1>1, <1>2, Queues, Posting
       DEF QueueInv, GivenUp, Driver, Associate, Address, Lost, LinkStep
  <1>4. TypeOK'
    BY <1>0, <1>2, <1>3 DEF TypeOK
  <1>5. MainInv'
    BY <1>0, <1>2 DEF MainInv
  <1>6. QED
    BY <1>0, <1>3, <1>4, <1>5 DEF GivesUpAfterRetries, StopInv
LEMMA HandlerStep == NetworkInv /\ Handler => NetworkInv'
  <1> SUFFICES ASSUME NetworkInv, Handler PROVE NetworkInv'
    OBVIOUS
  <1> USE NetworkAssumption DEF NetworkInv
  <1>0. /\ UNCHANGED <<at, registered, task, handle, misdeleted, boots>>
        /\ events # <<>> /\ events' = Tail(events)
    BY DEF Handler, HandleStart, HandleDisconnected, DisconnectedUpTo,
           HandleGotIp, GotIpFrom, HandleEvent
  <1>1. ~GivenUp /\ link \in {"idle", "online"}
    BY <1>0, QueueFacts
  <1>2. StopInv'
    BY <1>0 DEF StopInv
  <1>3. CASE HandleStart
    <2>1. events' = <<>> /\ UNCHANGED <<bits, seen, retryNum, losses>>
      BY <1>3, <1>0, QueueFacts, Heads DEF HandleStart, HandleEvent
    <2>2. link = "idle" /\ link' \in {"idle", "connecting"}
      BY <1>3, <1>0, <1>1, QueueFacts, Heads
         DEF HandleStart, HandleEvent, Connect, QueueInv
    <2>3. TypeOK' /\ QueueInv'
      BY <1>0, <1>1, <2>1, <2>2, Queues DEF TypeOK, QueueInv, GivenUp
    <2>4. MainInv'
      BY <1>0, <2>1, <2>2 DEF MainInv
    <2>5. QED
      BY <1>2, <2>1, <2>3, <2>4 DEF GivesUpAfterRetries
  <1>4. CASE HandleDisconnected
    <2> USE DEF HandleDisconnected, DisconnectedUpTo
    <2>1. events' = <<>> /\ link = "idle"
      BY <1>4, <1>0, <1>1, QueueFacts, Heads DEF HandleEvent, QueueInv
    <2>2. CASE registered /\ retryNum < MaximumRetry
      <3>1. /\ UNCHANGED <<bits, seen>>
            /\ retryNum' = retryNum + 1
            /\ link' = "connecting"
            /\ losses' = IF losses > MaximumRetry THEN losses ELSE losses + 1
        BY <1>4, <2>1, <2>2 DEF Connect, CountLoss, TypeOK
      <3>2. /\ retryNum' \in 0 .. MaximumRetry
            /\ losses' \in 0 .. MaximumRetry + 1
            /\ retryNum' <= losses'
        BY <2>2, <3>1 DEF TypeOK
      <3>3. TypeOK' /\ QueueInv'
        BY <1>0, <1>1, <2>1, <3>1, <3>2, Queues DEF TypeOK, QueueInv, GivenUp
      <3>4. MainInv'
        BY <1>0, <2>1, <3>1 DEF MainInv
      <3>5. GivesUpAfterRetries'
        BY <1>1, <3>1 DEF GivesUpAfterRetries, GivenUp
      <3>6. QED
        BY <1>2, <3>2, <3>3, <3>4, <3>5
    <2>3. CASE registered /\ retryNum >= MaximumRetry
      <3>0. PromptMain => ~Creating
        <4>1. PromptMain /\ Creating => losses < MaximumRetry
          BY <1>4
        <4>2. ~(losses < MaximumRetry)
          BY <2>3 DEF TypeOK
        <4>3. QED
          BY <4>1, <4>2
      <3>1. /\ PromptMain => ~Creating
            /\ SetBit("FAIL")
            /\ UNCHANGED <<link, retryNum>>
            /\ losses' = IF losses > MaximumRetry THEN losses ELSE losses + 1
        BY <1>4, <2>3, <3>0 DEF CountLoss, TypeOK
      <3>2. /\ losses' = MaximumRetry + 1
            /\ retryNum' <= losses'
        BY <2>3, <3>1 DEF TypeOK
      <3>3. TypeOK' /\ QueueInv'
        BY <1>0, <2>1, <3>1, <3>2, Queues DEF TypeOK, QueueInv, SetBit
      <3>4. MainInv'
        <4>1. at["main"] \in {"wait", "done"} \/ (~PromptMain /\ at["main"] # "start")
          BY <1>1, <2>1, <3>1 DEF MainInv, Creating, GivenUp, TypeOK
        <4>2. at["main"] = "wait" => seen' \subseteq bits' /\ seen' # {}
          BY <1>0, <3>1 DEF MainInv, SetBit
        <4>3. at["main"] = "wait" /\ PromptMain => "CONNECTED" \notin seen'
          BY <1>0, <3>1 DEF MainInv, SetBit, Creating
        <4>4. at["main"] # "start" /\ at["monitor"] \notin StopSteps \cup {"done"}
          BY <1>1, <4>1 DEF GivenUp
        <4>5. QED
          BY <1>0, <4>1, <4>2, <4>3, <4>4 DEF MainInv
      <3>5. QED
        BY <1>2, <3>2, <3>3, <3>4 DEF GivesUpAfterRetries
    <2>4. CASE ~registered
      <3>1. UNCHANGED <<bits, seen, link, retryNum, losses>>
        BY <1>4, <2>4
      <3>2. TypeOK' /\ QueueInv'
        BY <1>0, <1>1, <2>1, <3>1, Queues DEF TypeOK, QueueInv, GivenUp
      <3>3. MainInv'
        BY <1>0, <2>1, <3>1 DEF MainInv
      <3>4. QED
        BY <1>2, <3>1, <3>2, <3>3 DEF GivesUpAfterRetries
    <2>5. QED
      BY <2>2, <2>3, <2>4 DEF TypeOK
  <1>5. CASE HandleGotIp
    <2> USE DEF HandleGotIp, GotIpFrom
    <2>1. UNCHANGED link /\ events' \in {<<>>, <<"DISCONNECTED">>}
      BY <1>5, <1>0, QueueFacts, Heads DEF HandleEvent
    <2>2. link = "online" => events' = <<>>
      BY <1>5, <1>0, QueueFacts, Heads DEF HandleEvent, QueueInv
    <2>3. QueueInv' /\ events' \in Seq(Events)
      BY <1>0, <1>1, <1>5, <2>1, <2>2, Queues
         DEF QueueInv, GivenUp, SetBit, TypeOK
    <2>4. CASE registered
      <3>1. retryNum' = 0 /\ losses' = 0 /\ SetBit("CONNECTED")
        BY <1>5, <2>4
      <3>2. TypeOK'
        BY <1>0, <2>1, <2>3, <3>1 DEF TypeOK, SetBit
      <3>3. MainInv'
        BY <1>0, <1>1, <2>1, <3>1 DEF MainInv, SetBit, GivenUp, TypeOK
      <3>4. QED
        BY <1>1, <1>2, <2>3, <3>1, <3>2, <3>3
           DEF GivesUpAfterRetries, SetBit, GivenUp
    <2>5. CASE ~registered
      <3>1. UNCHANGED <<bits, seen, retryNum, losses>>
        BY <1>5, <2>5
      <3>2. TypeOK' /\ MainInv'
        BY <1>0, <2>1, <2>3, <3>1 DEF TypeOK, MainInv
      <3>3. QED
        BY <1>2, <2>3, <3>1, <3>2 DEF GivesUpAfterRetries
    <2>6. QED
      BY <2>4, <2>5
  <1>6. QED
    BY <1>3, <1>4, <1>5 DEF Handler
LEMMA MainStep ==
  NetworkInv /\ (WifiInitSta \/ WaitBits \/ CreateMonitor \/ CreateTask)
    => NetworkInv'
  <1> SUFFICES ASSUME NetworkInv,
                      WifiInitSta \/ WaitBits \/ CreateMonitor \/ CreateTask
               PROVE  NetworkInv'
    OBVIOUS
  <1> USE DEF NetworkInv
  <1>0. UNCHANGED <<bits, retryNum, losses, misdeleted, boots>>
    BY DEF WifiInitSta, Start, WaitBits, CreateMonitor, CreateTask, Create
  <1>1. GivesUpAfterRetries' /\ retryNum' <= losses'
    BY <1>0 DEF GivesUpAfterRetries
  <1>2. CASE WifiInitSta
    <2>1. /\ at["main"] = "start" /\ bits = {} /\ link = "off" /\ events = <<>>
          /\ at["monitor"] = "none"
          /\ at' = [at EXCEPT !["main"] = "wait", !["monitor"] = at["monitor"]]
          /\ link' = "idle" /\ registered' = TRUE
          /\ seen' = bits
          /\ UNCHANGED <<task, handle>>
      BY <1>2 DEF WifiInitSta, Start, MainInv, QueueInv
    <2>2. events' = <<"START">>
      BY <1>2, <2>1, Posting DEF WifiInitSta, Start
    <2>3. at'["main"] = "wait" /\ at'["monitor"] = "none"
      BY <2>1 DEF TypeOK
    <2>4. TypeOK'
      BY <1>0, <2>1, <2>2, Queues DEF TypeOK
    <2>5. QueueInv' /\ MainInv' /\ StopInv'
      BY <1>0, <2>1, <2>2, <2>3 DEF QueueInv, GivenUp, MainInv, StopInv
    <2>6. QED
      BY <1>1, <2>4, <2>5
  <1>3. CASE WaitBits
    <2>1. /\ UNCHANGED <<seen, registered, events, link, task, handle>>
          /\ at["main"] = "wait" /\ seen # {}
          /\ at' = [at EXCEPT !["main"] = IF "CONNECTED" \in seen
                                         THEN "create_monitor" ELSE "stop_ota"]
      BY <1>3 DEF WaitBits, Goto
    <2>2. /\ at'["monitor"] = at["monitor"] /\ at["monitor"] = "none"
          /\ at'["main"] \in {"create_monitor", "stop_ota"}
          /\ at'["main"] = "create_monitor" <=> "CONNECTED" \in seen
      BY <2>1 DEF TypeOK, MainInv
    <2>3. "CONNECTED" \notin seen => "FAIL" \in bits
      BY <2>1 DEF MainInv, TypeOK
    <2>4. TypeOK'
      BY <1>0, <2>1 DEF TypeOK
    <2>5. QueueInv'
      BY <1>0, <2>1, <2>2, <2>3 DEF QueueInv, GivenUp
    <2>6. MainInv' /\ StopInv'
      BY <1>0, <2>1, <2>2 DEF MainInv, StopInv
    <2>7. QED
      BY <1>1, <2>4, <2>5, <2>6
  <1>4. CASE CreateMonitor
    <2>1. /\ UNCHANGED <<seen, registered, events, link, task, handle>>
          /\ at["main"] = "create_monitor"
          /\ at' = [at EXCEPT !["main"] = "create_ota", !["monitor"] = "wait"]
      BY <1>4 DEF CreateMonitor
    <2>2. at'["main"] = "create_ota" /\ at'["monitor"] = "wait"
      BY <2>1 DEF TypeOK
    <2>3. TypeOK'
      BY <1>0, <2>1 DEF TypeOK
    <2>4. QueueInv' /\ MainInv' /\ StopInv'
      BY <1>0, <2>1, <2>2 DEF QueueInv, GivenUp, MainInv, StopInv
    <2>5. QED
      BY <1>1, <2>3, <2>4
  <1>5. ASSUME NEW n \in NetworkTasks,
               NEW here \in {"create_ota", "create_udp", "create_upload"},
               NEW next \in {"create_udp", "create_upload", "done"},
               Create(n, here, next)
        PROVE  NetworkInv'
    <2>1. /\ UNCHANGED <<seen, registered, events, link>>
          /\ at["main"] = here
          /\ at' = [at EXCEPT !["main"] = next]
          /\ task' = [task EXCEPT ![n] = "running"]
          /\ handle' = [handle EXCEPT ![n] = TRUE]
      BY <1>5 DEF Create, Goto
    <2>2. at'["main"] = next /\ at'["monitor"] = at["monitor"]
      BY <2>1 DEF TypeOK
    <2>3. PromptMain => at["monitor"] \notin StopSteps \cup {"done"}
      BY <2>1 DEF MainInv
    <2>4. TypeOK'
      BY <1>0, <2>1 DEF TypeOK
    <2>5. QueueInv'
      BY <1>0, <2>1, <2>2 DEF QueueInv, GivenUp
    <2>6. MainInv'
      BY <1>0, <2>1, <2>2, <2>3 DEF MainInv
    <2>7. StopInv'
      BY <2>1, <2>2, <2>3 DEF StopInv, TypeOK
    <2>8. QED
      BY <1>1, <2>4, <2>5, <2>6, <2>7
  <1>6. CASE CreateTask
    BY <1>5, <1>6 DEF CreateTask
  <1>7. QED
    BY <1>2, <1>3, <1>4, <1>6
LEMMA WakesStep == NetworkInv /\ MonitorWakes => NetworkInv'
  <1> SUFFICES ASSUME NetworkInv, MonitorWakes PROVE NetworkInv'
    OBVIOUS
  <1> USE DEF NetworkInv
  <1>1. /\ UNCHANGED <<seen, retryNum, registered, losses, events, link, task,
                       handle, misdeleted, boots>>
        /\ at["monitor"] = "wait" /\ "FAIL" \in bits
        /\ bits' = bits \ {"FAIL"}
        /\ at' = [at EXCEPT !["monitor"] = "stop_ota"]
    BY DEF MonitorWakes, Goto
  <1>2. at'["monitor"] = "stop_ota" /\ at'["main"] = at["main"]
    BY <1>1 DEF TypeOK
  <1>3. TypeOK'
    BY <1>1 DEF TypeOK
  <1>4. QueueInv'
    BY <1>1, <1>2 DEF QueueInv, GivenUp
  <1>5. MainInv' /\ StopInv'
    BY <1>1, <1>2 DEF MainInv, StopInv
  <1>6. QED
    BY <1>1, <1>3, <1>4, <1>5 DEF GivesUpAfterRetries

LEMMA WifiStopStep ==
  ASSUME NetworkInv, NEW t \in {"main", "monitor"}, WifiStop(t)
  PROVE  NetworkInv'
  <1> USE DEF NetworkInv
  <1>1. UNCHANGED <<bits, seen, retryNum, losses, boots>>
    BY DEF WifiStop, StopUdp, RestOfStop, StopOther, Stop, StopIf, Unregister,
           RadioOff, Deinit
  <1>2. GivesUpAfterRetries' /\ retryNum' <= losses'
    BY <1>1 DEF GivesUpAfterRetries
  <1>3. at[t] \in StopSteps
    BY DEF WifiStop, StopUdp, RestOfStop, StopOther, Stop, StopIf, Unregister,
           RadioOff, Deinit
  <1>4. link \in {"idle", "off"} /\ events = <<>>
    BY <1>3 DEF QueueInv, GivenUp
  <1>5. t = "main" => at["monitor"] = "none"
    BY <1>3 DEF MainInv
  <1>6. ASSUME NEW n \in NetworkTasks, NEW here \in StopSteps,
               NEW next \in StopSteps, Stop(t, n, here, next),
               \/ n = "ota" /\ here = "stop_ota" /\ next = "stop_udp"
               \/ n = "udp" /\ here = "stop_udp" /\ next = "stop_upload"
               \/ n = "upload" /\ here = "stop_upload" /\ next = "unregister"
        PROVE  NetworkInv'
    <2>1. /\ UNCHANGED <<registered, events, link>>
          /\ at' = [at EXCEPT ![t] = next]
          /\ at[t] = here
          /\ task' = [task EXCEPT ![n] =
                        IF handle[n] /\ task[n] = "running" THEN "deleted" ELSE task[n]]
          /\ handle' = [handle EXCEPT ![n] = FALSE]
          /\ misdeleted' \in BOOLEAN
      BY <1>6 DEF Stop, StopIf, Goto, TypeOK
    <2>2. at'[t] = next /\ \A u \in {"main", "monitor"} : u # t => at'[u] = at[u]
      BY <2>1 DEF TypeOK
    <2>3. TypeOK'
      BY <1>1, <2>1 DEF TypeOK
    <2>4. QueueInv'
      BY <1>4, <2>1 DEF QueueInv
    <2>5. MainInv'
      BY <1>1, <1>3, <1>5, <2>1, <2>2 DEF MainInv
    <2>6. task'[n] # "running" /\ \A m \in NetworkTasks : task'[m] = "running" =>
                                    task[m] = "running" /\ m # n /\ handle'[m]
      BY <2>1 DEF StopInv, TypeOK
    <2>7. StopInv'
      BY <1>3, <1>5, <1>6, <2>1, <2>2, <2>6 DEF StopInv
    <2>8. QED
      BY <1>2, <2>3, <2>4, <2>5, <2>7
  <1>7. ASSUME Unregister(t) \/ RadioOff(t) \/ Deinit(t)
        PROVE  NetworkInv'
    <2>1. PICK next \in {"radio_off", "deinit", "done"} :
            /\ at' = [at EXCEPT ![t] = next]
            /\ at[t] \in AfterTasks
      BY <1>7 DEF Unregister, RadioOff, Deinit, Goto
    <2>2. /\ UNCHANGED <<task, handle, misdeleted>>
          /\ events' = <<>> /\ link' \in {link, "off"}
          /\ registered' \in BOOLEAN
      BY <1>4, <1>7 DEF Unregister, RadioOff, Deinit, TypeOK
    <2>3. at'[t] = next /\ \A u \in {"main", "monitor"} : u # t => at'[u] = at[u]
      BY <2>1 DEF TypeOK
    <2>4. TypeOK'
      BY <1>1, <2>1, <2>2, Queues DEF TypeOK
    <2>5. QueueInv'
      BY <1>4, <2>2 DEF QueueInv
    <2>6. MainInv'
      BY <1>1, <1>5, <2>1, <2>2, <2>3 DEF MainInv
    <2>7. StopInv'
      BY <1>5, <2>1, <2>2, <2>3 DEF StopInv
    <2>8. QED
      BY <1>2, <2>4, <2>5, <2>6, <2>7
  <1>8. QED
    BY <1>6, <1>7 DEF WifiStop, StopUdp, StopOther, RestOfStop

LEMMA RestStep ==
  NetworkInv /\ (UdpGivesUp \/ OtaRestarts \/ PowerUp) => NetworkInv'
  <1>1. ASSUME NetworkInv, UdpGivesUp
        PROVE  NetworkInv'
    <2> USE DEF NetworkInv
    <2>1. /\ UNCHANGED <<at, bits, seen, retryNum, registered, losses, events,
                         link, handle, misdeleted, boots>>
          /\ task' = [task EXCEPT !["udp"] = "ended"]
      BY <1>1 DEF UdpGivesUp
    <2>2. \A n \in NetworkTasks : task'[n] = "running" => task[n] = "running"
      BY <1>1, <2>1 DEF TypeOK
    <2>3. TypeOK'
      BY <1>1, <2>1 DEF TypeOK
    <2>4. QueueInv' /\ MainInv' /\ StopInv'
      BY <1>1, <2>1, <2>2 DEF QueueInv, GivenUp, MainInv, StopInv
    <2>5. QED
      BY <1>1, <2>1, <2>3, <2>4 DEF GivesUpAfterRetries
  <1>2. ASSUME NetworkInv, PowerUp
        PROVE  NetworkInv'
    <2> USE NetworkAssumption DEF PowerUp, AtBoot
    <2>1. at'["main"] = "start" /\ at'["monitor"] = "none"
      BY <1>2
    <2>2. TypeOK'
      <3>1. at' \in [{"main", "monitor"} -> {"none", "start", "wait", "done"}
                                           \cup CreateSteps \cup StopSteps]
        BY <1>2
      <3>2. /\ retryNum' \in 0 .. MaximumRetry
            /\ losses' \in 0 .. MaximumRetry + 1
            /\ events' \in Seq(Events)
            /\ boots' \in 0 .. MaxBoots
        BY <1>2, Queues DEF NetworkInv, TypeOK
      <3>3. /\ task' \in [NetworkTasks -> {"none", "running", "ended", "deleted"}]
            /\ handle' \in [NetworkTasks -> BOOLEAN]
        BY <1>2
      <3>4. /\ bits' = {} /\ seen' = {} /\ link' = "off"
            /\ registered' = FALSE /\ misdeleted' = FALSE
        BY <1>2
      <3> HIDE DEF PowerUp, AtBoot
      <3>5. QED
        BY <3>1, <3>2, <3>3, <3>4 DEF TypeOK
    <2>3. retryNum' <= losses' /\ GivesUpAfterRetries'
      BY <1>2 DEF GivesUpAfterRetries
    <2>4. QueueInv' /\ MainInv' /\ StopInv'
      BY <1>2, <2>1 DEF QueueInv, GivenUp, MainInv, StopInv
    <2>5. QED
      BY <2>2, <2>3, <2>4 DEF NetworkInv
  <1>3. QED
    BY <1>1, <1>2 DEF OtaRestarts

LEMMA StutterStep == NetworkInv /\ UNCHANGED vars => NetworkInv'
  <1>1. SUFFICES ASSUME NetworkInv, UNCHANGED vars PROVE NetworkInv'
    OBVIOUS
  <1>2. UNCHANGED <<at, bits, seen, retryNum, registered, losses, events, link,
                    task, handle, misdeleted, boots>>
    BY <1>1 DEF vars
  <1>3. QED
    BY <1>1, <1>2 DEF NetworkInv, TypeOK, GivesUpAfterRetries, QueueInv, GivenUp,
                      MainInv, StopInv

-----------------------------------------------------------------------------
\* In every reachable state of the network tasks (app_main.c, wifi_connect.c)
\* the invariant holds: what may be queued for event_handler, where main and
\* the monitor may be together, and which tasks wifi_stop has passed.
THEOREM NetworkInvariance == Spec => []NetworkInv
  <1>1. NetworkInv /\ [Next]_vars => NetworkInv'
    <2> SUFFICES ASSUME NetworkInv, [Next]_vars PROVE NetworkInv'
      OBVIOUS
    <2>1. CASE Driver
      BY <2>1, DriverStep
    <2>2. CASE Handler
      BY <2>2, HandlerStep
    <2>3. CASE WifiInitSta \/ WaitBits \/ CreateMonitor \/ CreateTask
      BY <2>3, MainStep
    <2>4. CASE WifiStop("main") \/ WifiStop("monitor")
      BY <2>4, WifiStopStep
    <2>5. CASE MonitorWakes
      BY <2>5, WakesStep
    <2>6. CASE UdpGivesUp \/ OtaRestarts \/ PowerUp
      BY <2>6, RestStep
    <2>7. CASE UNCHANGED vars
      BY <2>7, StutterStep
    <2>8. QED
      BY <2>1, <2>2, <2>3, <2>4, <2>5, <2>6, <2>7 DEF Next, Main, Monitor
  <1>2. QED
    BY InitInv, <1>1, PTL DEF Spec

\* wifi_connect.c: every variable keeps to its type.
THEOREM NetworkTypes == Spec => []TypeOK
  <1>1. NetworkInv => TypeOK
    BY DEF NetworkInv
  <1>2. QED
    BY NetworkInvariance, <1>1, PTL

\* event_handler sets WIFI_FAIL_BIT only after more than ESP_MAXIMUM_RETRY
\* disconnections with no address in between (wifi_connect.c:58-72).
THEOREM RetriesAreMade == Spec => []GivesUpAfterRetries
  <1>1. NetworkInv => GivesUpAfterRetries
    BY DEF NetworkInv
  <1>2. QED
    BY NetworkInvariance, <1>1, PTL

\* After WIFI_FAIL_BIT no queued event makes event_handler connect again,
\* although wifi_stop may fail to unregister it (wifi_connect.c:40-42).
THEOREM StationStaysDown == Spec => []GivenUpStaysDown
  <1>1. NetworkInv => GivenUpStaysDown
    BY DEF NetworkInv, QueueInv, GivenUp, GivenUpStaysDown
  <1>2. QED
    BY NetworkInvariance, <1>1, PTL

\* app_main and stop_network_task never run wifi_stop both.
THEOREM WifiStopsOnce == Spec => []OneStopper
  <1>1. NetworkInv => OneStopper
    BY DEF NetworkInv, MainInv, OneStopper
  <1>2. QED
    BY NetworkInvariance, <1>1, PTL

\* If app_main creates its tasks before the connection that let it go on has
\* been lost MaximumRetry times with no address in between, then
\* stop_network_task leaves none of them running.
THEOREM StoppedMeansNoTasks ==
  ASSUME PromptMain
  PROVE  Spec => []NoOrphans
  <1>1. NetworkInv => NoOrphans
    BY DEF NetworkInv, StopInv, NoOrphans
  <1>2. QED
    BY NetworkInvariance, <1>1, PTL

=============================================================================
