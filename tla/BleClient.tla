------------------------------ MODULE BleClient ------------------------------
(***************************************************************************)
(* The Bluetooth client of main/ble_client.c: it scans for one device,     *)
(* opens a connection, looks for the command characteristic and has its    *)
(* notifications enabled.  All callbacks run in the Bluetooth task, one    *)
(* after the other, on the events the stack has posted; what they ask of   *)
(* the stack is done some time later, while further events are posted.     *)
(* The connections of a behaviour are numbered; a handle is the number of  *)
(* the connection it was learnt on.                                        *)
(***************************************************************************)
EXTENDS Naturals, Sequences

CONSTANTS
    StackMayFail,  \* a request to the stack, or to the heap, may fail
    MaxConns,      \* no advertisement is heard after that many connections
    MaxResults     \* bound on the advertisements waiting for the callback

ASSUME BleAssumption ==
    /\ StackMayFail \in BOOLEAN
    /\ MaxConns \in Nat
    /\ MaxResults \in Nat

VARIABLES
    gattcIf,      \* gl_profile_tab[PROFILE_A_APP_ID].gattc_if is set
    connect,      \* the two flags of ble_client.c
    getServer,
    connId,       \* gl_profile_tab[PROFILE_A_APP_ID].conn_id
    service,      \* the service handles
    charHandle,   \* the characteristic handle
    events,       \* what the stack has posted
    scanner,      \* off, scanning, or asked to stop
    link,         \* down, opening or up
    conn,         \* the number of the last connection asked for
    progress,     \* what the stack does, or did last, on the link
    advertising   \* the device is there

flags == <<gattcIf, connect, getServer>>
handles == <<connId, service, charHandle>>
linkVars == <<link, conn, progress>>
vars == <<flags, handles, events, scanner, linkVars, advertising>>

\* The event that reports the end of each procedure of the stack.
Report == [discovering |-> "DIS_SRVC_CMPL", searching |-> "SEARCH_CMPL",
           registering |-> "REG_FOR_NOTIFY", writing |-> "WRITE_DESCR"]
Progress == DOMAIN Report \cup {"none", "reported", "subscribed", "failed"}
EventTypes == {"REG", "SCAN_PARAM_SET", "SCAN_RESULT", "CONNECT", "OPEN",
               "DIS_SRVC_CMPL", "SEARCH_RES", "SEARCH_CMPL",
               "REG_FOR_NOTIFY", "WRITE_DESCR", "NOTIFY", "DISCONNECT"}

Event(type, c, ok) == [type |-> type, conn |-> c, ok |-> ok]
Outcomes == {TRUE, ~StackMayFail}

\* ble_init has registered the callbacks and the application, or returned
\* early, and then there will never be an event.
Init ==
    /\ gattcIf = FALSE /\ connect = FALSE /\ getServer = FALSE
    /\ connId = 0 /\ service = 0 /\ charHandle = 0
    /\ events \in {<<Event("REG", 0, ok)>> : ok \in Outcomes}
                  \cup (IF StackMayFail THEN {<<>>} ELSE {})
    /\ scanner = "off"
    /\ link = "down" /\ conn = 0 /\ progress = "none"
    /\ advertising \in BOOLEAN

-----------------------------------------------------------------------------
(* The callbacks, esp_gap_cb and esp_gattc_cb.                             *)

Current == Head(events)

\* The callback takes an event of that type.
Handle(type) ==
    /\ events # <<>>
    /\ Current.type = type
    /\ events' = Tail(events)
    /\ UNCHANGED advertising

\* The stack carries out what is asked on connection c only while it is up.
OnLink(c) == link = "up" /\ conn = c

\* The next procedure is asked for on connection c.
Ask(c, ok, procedure) ==
    /\ progress' = IF ~OnLink(c) THEN progress
                   ELSE IF ok THEN procedure ELSE "failed"
    /\ UNCHANGED <<link, conn, scanner, flags>>

\* Registered: the interface is kept if the argument says so, and the scan
\* parameters are set unless the registration failed.
RegisterKeeping(kept) ==
    /\ events # <<>>
    /\ Current.type = "REG"
    /\ \E set \in Outcomes :
        events' = Tail(events) \o (IF Current.ok /\ set
                    THEN <<Event("SCAN_PARAM_SET", 0, TRUE)>> ELSE <<>>)
    /\ gattcIf' = (gattcIf \/ kept)
    /\ UNCHANGED <<connect, getServer, handles, scanner, linkVars, advertising>>

\* Mutant of HandleReg: the interface is not kept.
HandleRegForgets == RegisterKeeping(FALSE)

HandleReg == RegisterKeeping(events # <<>> /\ Current.ok)

\* Scan for 30 seconds.
HandleScanParamSet ==
    /\ Handle("SCAN_PARAM_SET")
    /\ \E ok \in Outcomes : scanner' = IF ok THEN "scanning" ELSE "off"
    /\ UNCHANGED <<flags, handles, linkVars>>

\* The device was found and there is no connection yet: the flag is left as
\* given, the scan is stopped and a connection opened.  The link is asked for
\* before the scan has stopped.
OpenFlagging(flag) ==
    /\ Handle("SCAN_RESULT")
    /\ connect' = (connect \/ flag)
    /\ IF connect
       THEN UNCHANGED <<scanner, linkVars>>
       ELSE /\ scanner' = IF scanner = "scanning" THEN "stopping" ELSE scanner
            /\ conn' = conn + 1
            /\ link' = "opening"
            /\ progress' = "none"
    /\ UNCHANGED <<gattcIf, getServer, handles>>

\* Mutant of HandleScanResult: connect is not set.
HandleScanResultAgain == OpenFlagging(FALSE)

HandleScanResult == OpenFlagging(TRUE)

HandleConnect ==
    /\ Handle("CONNECT")
    /\ connId' = Current.conn
    /\ UNCHANGED <<flags, service, charHandle, scanner, linkVars>>

\* What changes nothing here.
Note(type) ==
    /\ Handle(type)
    /\ UNCHANGED <<flags, handles, scanner, linkVars>>

\* A failure is logged, and that is all.
HandleOpen == Note("OPEN")

\* The letter goes to the lamp (BleNotify of module TailLight).
HandleNotify == Note("NOTIFY")

\* A greeting is written to the characteristic.
HandleWriteDescr == Note("WRITE_DESCR")

\* The discovered service is searched for, over the air or in the cache.
HandleDisSrvcCmpl ==
    /\ Handle("DIS_SRVC_CMPL")
    /\ Ask(Current.conn, Current.ok, "searching")
    /\ UNCHANGED handles

HandleSearchRes ==
    /\ Handle("SEARCH_RES")
    /\ getServer' = TRUE
    /\ service' = Current.conn
    /\ UNCHANGED <<gattcIf, connect, connId, charHandle, scanner, linkVars>>

\* The characteristic is looked up between the service handles; it may not be
\* there, and one that cannot notify is left alone.
HandleSearchCmpl ==
    /\ Handle("SEARCH_CMPL")
    /\ \E found \in Outcomes :
        LET ok == Current.ok /\ getServer /\ found
        IN  /\ charHandle' = IF ok /\ OnLink(Current.conn) THEN service
                             ELSE charHandle
            /\ Ask(Current.conn, ok, "registering")
    /\ UNCHANGED <<connId, service>>

\* The descriptor is looked up and written on the connection of the profile,
\* which this event does not name.
EnableOn(c) ==
    /\ Handle("REG_FOR_NOTIFY")
    /\ \E found \in Outcomes : Ask(c, Current.ok /\ found, "writing")
    /\ UNCHANGED handles

\* Mutant of HandleRegForNotify: the descriptor is written on connection 1.
HandleRegForNotifyFirst == EnableOn(1)

HandleRegForNotify == EnableOn(connId)

\* The connection is forgotten, and the flags are left as given.
Forget(flag, server) ==
    /\ Handle("DISCONNECT")
    /\ connect' = flag
    /\ getServer' = server
    /\ UNCHANGED <<gattcIf, handles, scanner, linkVars>>

\* Mutants of HandleDisconnect: one of the flags is not reset.
HandleDisconnectKeepsServer == Forget(FALSE, getServer)
HandleDisconnectKeepsConnect == Forget(connect, FALSE)

HandleDisconnect == Forget(FALSE, FALSE)

Callback ==
    \/ HandleReg \/ HandleScanParamSet \/ HandleScanResult
    \/ HandleConnect \/ HandleOpen \/ HandleDisSrvcCmpl
    \/ HandleSearchRes \/ HandleSearchCmpl \/ HandleRegForNotify
    \/ HandleWriteDescr \/ HandleNotify \/ HandleDisconnect

-----------------------------------------------------------------------------
(* The Bluetooth stack and the device, as ble_client.c meets them.         *)

Post(es) == events' = events \o es
Waiting(type) == SelectSeq(events, LAMBDA e : e.type = type)
OnlyPosts == UNCHANGED <<flags, handles, scanner, advertising>>

\* The device is heard, until the scan has really stopped.
Hear ==
    /\ scanner # "off" /\ advertising
    /\ conn < MaxConns
    /\ Len(Waiting("SCAN_RESULT")) < MaxResults
    /\ Post(<<Event("SCAN_RESULT", 0, TRUE)>>)
    /\ OnlyPosts /\ UNCHANGED linkVars

\* The scan stops as asked, or because its 30 seconds are over; a device that
\* advertises is heard before that, unless the radio fails.
ScanEnds ==
    /\ scanner # "off"
    /\ scanner = "stopping" \/ ~advertising \/ StackMayFail
    /\ scanner' = "off"
    /\ UNCHANGED <<flags, handles, events, linkVars, advertising>>

OpenSucceeds ==
    /\ link = "opening"
    /\ link' = "up" /\ progress' = "discovering"
    /\ Post(<<Event("CONNECT", conn, TRUE), Event("OPEN", conn, TRUE)>>)
    /\ OnlyPosts /\ UNCHANGED conn

\* The stack reports the failure, and may or may not add a disconnection.
OpenFails ==
    /\ link = "opening" /\ StackMayFail
    /\ link' = "down"
    /\ \E more \in {<<>>, <<Event("DISCONNECT", conn, TRUE)>>} :
        Post(<<Event("OPEN", conn, FALSE)>> \o more)
    /\ OnlyPosts /\ UNCHANGED <<conn, progress>>

\* The procedure under way ends; a search may find the service first.
Finish ==
    /\ link = "up" /\ progress \in DOMAIN Report
    /\ \E ok \in Outcomes, found \in (IF progress = "searching"
                                       THEN BOOLEAN ELSE {FALSE}) :
        /\ Post((IF found THEN <<Event("SEARCH_RES", conn, TRUE)>> ELSE <<>>)
                 \o <<Event(Report[progress], conn, ok)>>)
        /\ progress' = IF progress # "writing" THEN "reported"
                       ELSE IF ok THEN "subscribed" ELSE "failed"
    /\ OnlyPosts /\ UNCHANGED <<link, conn>>

Notify ==
    /\ progress = "subscribed" /\ link = "up"
    /\ Waiting("NOTIFY") = <<>>
    /\ Post(<<Event("NOTIFY", conn, TRUE)>>)
    /\ OnlyPosts /\ UNCHANGED linkVars

LinkLost ==
    /\ link = "up"
    /\ link' = "down" /\ progress' = "none"
    /\ Post(<<Event("DISCONNECT", conn, TRUE)>>)
    /\ OnlyPosts /\ UNCHANGED conn

Advertise ==
    /\ advertising' = ~advertising
    /\ UNCHANGED <<flags, handles, events, scanner, linkVars>>

Next ==
    \/ Callback
    \/ Hear \/ ScanEnds \/ OpenSucceeds \/ OpenFails \/ Finish
    \/ Notify \/ LinkLost \/ Advertise

Spec == Init /\ [][Next]_vars

\* The callbacks are run and what is asked of the stack is done; nobody owes a
\* notification, a lost link or a device that is switched on.
FairSpec ==
    /\ Spec
    /\ WF_vars(Callback)
    /\ WF_vars(Hear)
    /\ WF_vars(ScanEnds)
    /\ WF_vars(OpenSucceeds \/ OpenFails)
    /\ WF_vars(Finish)

-----------------------------------------------------------------------------
(* Properties.                                                             *)

TypeOK ==
    /\ gattcIf \in BOOLEAN /\ connect \in BOOLEAN /\ getServer \in BOOLEAN
    /\ {connId, service, charHandle} \subseteq 0..conn
    /\ events \in Seq([type : EventTypes, conn : Nat, ok : BOOLEAN])
    /\ scanner \in {"off", "scanning", "stopping"}
    /\ link \in {"down", "opening", "up"}
    /\ conn \in Nat
    /\ progress \in Progress
    /\ advertising \in BOOLEAN

\* The events that belong to no connection.
Unconnected == {"REG", "SCAN_PARAM_SET", "SCAN_RESULT"}

\* An event of that type is waiting for its callback.
Posted(type) == \E i \in DOMAIN events : events[i].type = type

NoneConnected == \A i \in DOMAIN events : events[i].type \in Unconnected

\* Only events of no connection are delivered before the first of a
\* connection, or after its last.
ConnectFirst == \A i, j \in DOMAIN events :
    events[j].type = "CONNECT" /\ i < j => events[i].type \in Unconnected
DisconnectLast == \A i, j \in DOMAIN events :
    events[i].type = "DISCONNECT" /\ i < j => events[j].type \in Unconnected

\* The events of a connection are those of the last one asked for.
OfLastConnection == \A i \in DOMAIN events :
    events[i].conn = IF events[i].type \in Unconnected THEN 0 ELSE conn

\* A scan, what it hears and the connection asked for use an interface that
\* was registered (esp_ble_gattc_enh_open, ble_client.c:459).
Registered ==
    scanner # "off" \/ link # "down"
        \/ Posted("SCAN_PARAM_SET") \/ Posted("SCAN_RESULT")
    => gattcIf = TRUE

\* What belongs to a connection is delivered while it is flagged; connect is
\* set from the request until the disconnection, which is posted once, when
\* the link is gone, has been handled.
FlaggedUntilHandled ==
    /\ link # "down" => connect = TRUE /\ conn > 0 /\ ~Posted("DISCONNECT")
    /\ connect = FALSE \/ link = "opening" => NoneConnected
    /\ getServer = TRUE => connect = TRUE /\ service = conn

\* The identifier of a connection that is up is known before any other of its
\* events is handled.
IdentifierKnown == link = "up" => connId = conn \/ Posted("CONNECT")

\* From the registration for notifications on, all handles are those of the
\* connection that is up.
HandlesLearnt ==
    link = "up" /\ \/ progress \in {"registering", "writing"}
                   \/ Posted("REG_FOR_NOTIFY") \/ Posted("WRITE_DESCR")
        => service = conn /\ charHandle = conn

\* The inductive invariant of OneConnection and UsesOwnHandles: what may wait
\* in the queue of the callbacks in each state of the connection.
BleInv ==
    /\ TypeOK
    /\ Registered
    /\ ConnectFirst /\ DisconnectLast /\ OfLastConnection
    /\ FlaggedUntilHandled
    /\ IdentifierKnown
    /\ HandlesLearnt

\* The client connects to one device (ble_client.c:9): while a connection is
\* being opened or is up no other one is asked for, in whatever order
\* advertisements, failures and disconnections are delivered.
OneConnection == [][link # "down" => conn' = conn]_vars

\* connect is set, so that esp_gap_cb ignores the device, with no connection, no
\* attempt at one, and no disconnection on its way that would reset the flag.
Barred == connect = TRUE /\ link = "down" /\ ~Posted("DISCONNECT")

\* Only a failed opening bars the client from its device: nothing resets connect
\* then, if the stack reports no disconnection.  However a connection ends that
\* was made, and whatever advertisements are delivered late, the flag is reset.
OnlyFailureBars == [][Barred' => Barred \/ OpenFails]_vars

\* Every request on a connection that is up uses the handles learnt on it:
\* the characteristic is looked up in the service of this connection, and the
\* descriptor and the greeting are written with its handles, never with those
\* left in gl_profile_tab by an earlier connection.
UsesOwnHandles ==
    events # <<>> /\ Current.ok /\ OnLink(Current.conn) =>
        /\ Current.type = "SEARCH_CMPL" /\ getServer => service = conn
        /\ Current.type \in {"REG_FOR_NOTIFY", "WRITE_DESCR"} =>
            connId = conn /\ service = conn /\ charHandle = conn

\* The client enables the notifications after the connection (ble_client.c:11):
\* a connection that stays up gets there, or one of the steps has failed.
NotifyEnabled ==
    link = "up" ~> \/ progress \in {"subscribed", "failed"}
                   \/ link = "down"

\* The client automatically connects to the demo server when that is run
\* (ble_client.c:10): once it advertises for good, it gets connected.
AutoConnects == <>[]advertising => <>(link = "up")
=============================================================================
