--------------------------- MODULE BleClientProofs ---------------------------
(***************************************************************************)
(* Proofs about BleClient, for every number of connections and             *)
(* advertisements, with requests that may fail or not.                     *)
(*                                                                         *)
(* A callback takes the first event off the queue, the stack adds events   *)
(* at its end; the invariant says which events may be waiting there, and   *)
(* in which order, in each state of the connection.                        *)
(***************************************************************************)
EXTENDS BleClient, SequenceTheorems, TLAPS

EventRecords == [type : EventTypes, conn : Nat, ok : BOOLEAN]

-----------------------------------------------------------------------------
(* Queues.                                                                 *)

\* What is left when the first event has been taken.
LEMMA Taking ==
  ASSUME NEW S, NEW q \in Seq(S), q # <<>>
  PROVE  /\ Len(q) \in Nat \ {0} /\ DOMAIN q = 1 .. Len(q)
         /\ Head(q) = q[1] /\ Head(q) \in S
         /\ Tail(q) \in Seq(S)
         /\ DOMAIN Tail(q) = 1 .. Len(q) - 1
         /\ \A i \in DOMAIN Tail(q) : Tail(q)[i] = q[i + 1] /\ i + 1 \in DOMAIN q
  <1>1. Len(q) \in Nat /\ Len(q) # 0 /\ DOMAIN q = 1 .. Len(q)
    BY EmptySeq, LenProperties
  <1>2. Tail(q) \in Seq(S) /\ Len(Tail(q)) = Len(q) - 1
    BY HeadTailProperties
  <1>3. DOMAIN Tail(q) = 1 .. Len(q) - 1
    BY <1>2, LenProperties
  <1>4. \A i \in 1 .. Len(q) - 1 : Tail(q)[i] = q[i + 1]
    BY HeadTailProperties, <1>2
  <1>5. Head(q) = q[1] /\ Head(q) \in S
    BY HeadTailProperties, ElementOfSeq, <1>1
  <1> QED
    BY <1>1, <1>2, <1>3, <1>4, <1>5

\* What is there when one event has been added.
LEMMA Adding ==
  ASSUME NEW S, NEW q \in Seq(S), NEW a \in S
  PROVE  /\ q \o <<a>> \in Seq(S)
         /\ DOMAIN (q \o <<a>>) = 1 .. Len(q) + 1 /\ Len(q) \in Nat
         /\ DOMAIN q = 1 .. Len(q)
         /\ \A i \in 1 .. Len(q) : (q \o <<a>>)[i] = q[i]
         /\ (q \o <<a>>)[Len(q) + 1] = a
  <1>1. <<a>> \in Seq(S) /\ Len(<<a>>) = 1 /\ <<a>>[1] = a
    OBVIOUS
  <1>2. /\ q \o <<a>> \in Seq(S) /\ Len(q \o <<a>>) = Len(q) + 1
        /\ \A i \in 1 .. Len(q) + 1 :
              (q \o <<a>>)[i] = IF i <= Len(q) THEN q[i] ELSE <<a>>[i - Len(q)]
    BY <1>1, ConcatProperties
  <1>3. Len(q) \in Nat /\ DOMAIN q = 1 .. Len(q)
    BY LenProperties
  <1>4. DOMAIN (q \o <<a>>) = 1 .. Len(q) + 1
    BY <1>2, LenProperties
  <1> QED
    BY <1>1, <1>2, <1>3, <1>4

-----------------------------------------------------------------------------
(* The parts of the invariant that speak of the queue, of any queue.       *)

PostedIn(q, type) == \E i \in DOMAIN q : q[i].type = type
NoneIn(q) == \A i \in DOMAIN q : q[i].type \in Unconnected
FirstIn(q) == \A i, j \in DOMAIN q :
  q[j].type = "CONNECT" /\ i < j => q[i].type \in Unconnected
LastIn(q) == \A i, j \in DOMAIN q :
  q[i].type = "DISCONNECT" /\ i < j => q[j].type \in Unconnected
OfIn(q, c) == \A i \in DOMAIN q :
  q[i].conn = IF q[i].type \in Unconnected THEN 0 ELSE c

LEMMA QueueParts ==
  /\ NoneConnected <=> NoneIn(events)
  /\ ConnectFirst <=> FirstIn(events)
  /\ DisconnectLast <=> LastIn(events)
  /\ OfLastConnection <=> OfIn(events, conn)
  BY DEF NoneConnected, ConnectFirst, DisconnectLast, OfLastConnection,
         NoneIn, FirstIn, LastIn, OfIn

LEMMA QueuePartsNext ==
  /\ NoneConnected' <=> NoneIn(events')
  /\ ConnectFirst' <=> FirstIn(events')
  /\ DisconnectLast' <=> LastIn(events')
  /\ OfLastConnection' <=> OfIn(events', conn')
  BY DEF NoneConnected, ConnectFirst, DisconnectLast, OfLastConnection,
         NoneIn, FirstIn, LastIn, OfIn

\* Taking the first event keeps the order of the others.
LEMMA TakingKeepsOrder ==
  ASSUME NEW q \in Seq(EventRecords), q # <<>>, NEW c
  PROVE  /\ NoneIn(q) => NoneIn(Tail(q))
         /\ FirstIn(q) => FirstIn(Tail(q))
         /\ LastIn(q) => LastIn(Tail(q))
         /\ OfIn(q, c) => OfIn(Tail(q), c)
  <1> DEFINE r == Tail(q)
  <1> DEFINE n == Len(q)
  <1>1. /\ n \in Nat \ {0} /\ DOMAIN q = 1 .. n /\ DOMAIN r = 1 .. n - 1
        /\ \A i \in DOMAIN r : r[i] = q[i + 1] /\ i + 1 \in DOMAIN q
    BY Taking
  <1> HIDE DEF r, n
  <1>2. NoneIn(q) => NoneIn(r)
    BY <1>1 DEF NoneIn
  <1>3. ASSUME FirstIn(q) PROVE FirstIn(r)
    <2> SUFFICES ASSUME NEW i \in DOMAIN r, NEW j \in DOMAIN r,
                        r[j].type = "CONNECT", i < j
                 PROVE  r[i].type \in Unconnected
      BY DEF FirstIn
    <2>1. /\ i + 1 \in DOMAIN q /\ j + 1 \in DOMAIN q /\ i + 1 < j + 1
          /\ r[i] = q[i + 1] /\ r[j] = q[j + 1]
      BY <1>1
    <2> QED
      BY <1>3, <2>1 DEF FirstIn
  <1>4. ASSUME LastIn(q) PROVE LastIn(r)
    <2> SUFFICES ASSUME NEW i \in DOMAIN r, NEW j \in DOMAIN r,
                        r[i].type = "DISCONNECT", i < j
                 PROVE  r[j].type \in Unconnected
      BY DEF LastIn
    <2>1. /\ i + 1 \in DOMAIN q /\ j + 1 \in DOMAIN q /\ i + 1 < j + 1
          /\ r[i] = q[i + 1] /\ r[j] = q[j + 1]
      BY <1>1
    <2> QED
      BY <1>4, <2>1 DEF LastIn
  <1>5. OfIn(q, c) => OfIn(r, c)
    BY <1>1 DEF OfIn
  <1> QED
    BY <1>2, <1>3, <1>4, <1>5 DEF r

LEMMA TakingPosts ==
  ASSUME NEW q \in Seq(EventRecords), q # <<>>, NEW type, Head(q).type # type
  PROVE  PostedIn(Tail(q), type) <=> PostedIn(q, type)
  <1> DEFINE r == Tail(q)
  <1> DEFINE n == Len(q)
  <1>1. /\ n \in Nat \ {0} /\ DOMAIN q = 1 .. n /\ DOMAIN r = 1 .. n - 1
        /\ Head(q) = q[1]
        /\ \A i \in DOMAIN r : r[i] = q[i + 1] /\ i + 1 \in DOMAIN q
    BY Taking
  <1> HIDE DEF r, n
  <1>2. ASSUME PostedIn(q, type) PROVE PostedIn(r, type)
    <2>1. PICK i \in DOMAIN q : q[i].type = type
      BY <1>2 DEF PostedIn
    <2>2. i - 1 \in DOMAIN r /\ r[i - 1] = q[i]
      BY <1>1, <2>1
    <2> QED
      BY <2>1, <2>2 DEF PostedIn
  <1>3. PostedIn(r, type) => PostedIn(q, type)
    BY <1>1 DEF PostedIn
  <1> QED
    BY <1>2, <1>3 DEF r

\* Adding an event keeps the order if nothing of a connection is waiting
\* before its first event, and its last has not been posted.
LEMMA AddingKeepsOrder ==
  ASSUME NEW q \in Seq(EventRecords), NEW a \in EventRecords, NEW c
  PROVE  /\ q \o <<a>> \in Seq(EventRecords)
         /\ NoneIn(q) /\ a.type \in Unconnected => NoneIn(q \o <<a>>)
         /\ FirstIn(q) /\ (a.type = "CONNECT" => NoneIn(q)) => FirstIn(q \o <<a>>)
         /\ LastIn(q) /\ (a.type \in Unconnected \/ ~PostedIn(q, "DISCONNECT"))
              => LastIn(q \o <<a>>)
         /\ OfIn(q, c) /\ a.conn = (IF a.type \in Unconnected THEN 0 ELSE c)
              => OfIn(q \o <<a>>, c)
  <1> DEFINE r == q \o <<a>>
  <1> DEFINE n == Len(q)
  <1>1. /\ r \in Seq(EventRecords) /\ DOMAIN r = 1 .. n + 1 /\ n \in Nat
        /\ DOMAIN q = 1 .. n /\ \A i \in 1 .. n : r[i] = q[i]
        /\ r[n + 1] = a
    BY Adding
  <1> HIDE DEF r, n
  <1>2. NoneIn(q) /\ a.type \in Unconnected => NoneIn(r)
    BY <1>1 DEF NoneIn
  <1>3. ASSUME FirstIn(q), a.type = "CONNECT" => NoneIn(q) PROVE FirstIn(r)
    <2> SUFFICES ASSUME NEW i \in DOMAIN r, NEW j \in DOMAIN r,
                        r[j].type = "CONNECT", i < j
                 PROVE  r[i].type \in Unconnected
      BY DEF FirstIn
    <2>1. i \in 1 .. n /\ r[i] = q[i]
      BY <1>1
    <2>2. CASE j = n + 1
      BY <1>1, <1>3, <2>1, <2>2 DEF NoneIn
    <2>3. CASE j \in 1 .. n
      <3>1. i \in DOMAIN q /\ j \in DOMAIN q /\ q[j] = r[j]
        BY <1>1, <2>1, <2>3
      <3> QED
        BY <1>3, <2>1, <3>1 DEF FirstIn
    <2> QED
      BY <1>1, <2>2, <2>3
  <1>4. ASSUME LastIn(q), a.type \in Unconnected \/ ~PostedIn(q, "DISCONNECT")
        PROVE  LastIn(r)
    <2> SUFFICES ASSUME NEW i \in DOMAIN r, NEW j \in DOMAIN r,
                        r[i].type = "DISCONNECT", i < j
                 PROVE  r[j].type \in Unconnected
      BY DEF LastIn
    <2>1. i \in DOMAIN q /\ r[i] = q[i]
      BY <1>1
    <2>2. CASE j = n + 1
      BY <1>1, <1>4, <2>1, <2>2 DEF PostedIn
    <2>3. CASE j \in 1 .. n
      <3>1. j \in DOMAIN q /\ q[j] = r[j]
        BY <1>1, <2>3
      <3> QED
        BY <1>4, <2>1, <3>1 DEF LastIn
    <2> QED
      BY <1>1, <2>2, <2>3
  <1>5. OfIn(q, c) /\ a.conn = (IF a.type \in Unconnected THEN 0 ELSE c) => OfIn(r, c)
    BY <1>1 DEF OfIn
  <1> QED
    BY <1>1, <1>2, <1>3, <1>4, <1>5 DEF r

LEMMA AddingPosts ==
  ASSUME NEW q \in Seq(EventRecords), NEW a \in EventRecords, NEW type
  PROVE  PostedIn(q \o <<a>>, type) <=> PostedIn(q, type) \/ a.type = type
  <1> DEFINE r == q \o <<a>>
  <1> DEFINE n == Len(q)
  <1>1. /\ r \in Seq(EventRecords) /\ DOMAIN r = 1 .. n + 1 /\ n \in Nat
        /\ DOMAIN q = 1 .. n /\ \A i \in 1 .. n : r[i] = q[i]
        /\ r[n + 1] = a
    BY Adding
  <1> HIDE DEF r, n
  <1> QED
    <2>1. PostedIn(r, type) <=> PostedIn(q, type) \/ a.type = type
      BY <1>1 DEF PostedIn
    <2> QED
      BY <2>1 DEF r

LEMMA OneAndOne ==
  ASSUME NEW S, NEW a \in S, NEW b \in S
  PROVE  /\ <<a>> \o <<b>> = <<a, b>>
         /\ <<a>> \o <<>> = <<a>> /\ <<>> \o <<b>> = <<b>>
  <1>1. /\ <<a>> \in Seq(S) /\ <<b>> \in Seq(S) /\ <<a, b>> \in Seq(S)
        /\ Len(<<a>>) = 1 /\ <<a>>[1] = a /\ Len(<<b>>) = 1 /\ <<b>>[1] = b
        /\ Len(<<a, b>>) = 2 /\ <<a, b>>[1] = a /\ <<a, b>>[2] = b
    OBVIOUS
  <1> DEFINE r == <<a>> \o <<b>>
  <1>2. /\ r \in Seq(S) /\ Len(r) = 2
        /\ \A i \in 1 .. 2 : r[i] = IF i <= 1 THEN <<a>>[i] ELSE <<b>>[i - 1]
    BY <1>1, ConcatProperties
  <1> HIDE DEF r
  <1>3. r[1] = a /\ r[2] = b
    BY <1>1, <1>2
  <1>4. \A i \in 1 .. 2 : r[i] = <<a, b>>[i]
    BY <1>1, <1>3
  <1>5. r = <<a, b>>
    BY <1>1, <1>2, <1>4, SeqEqual
  <1> QED
    BY <1>1, <1>5, ConcatEmptySeq DEF r

LEMMA TwoAreOneByOne ==
  ASSUME NEW S, NEW q \in Seq(S), NEW a \in S, NEW b \in S
  PROVE  q \o <<a, b>> = (q \o <<a>>) \o <<b>>
  <1>1. <<a>> \in Seq(S) /\ <<b>> \in Seq(S)
    OBVIOUS
  <1>2. (q \o <<a>>) \o <<b>> = q \o (<<a>> \o <<b>>)
    BY <1>1, ConcatAssociative
  <1> QED
    BY <1>2, OneAndOne

-----------------------------------------------------------------------------
(* The queue of the callbacks before and after a step.                     *)

LEMMA QueueTypes ==
  ASSUME TypeOK
  PROVE  /\ events \in Seq(EventRecords)
         /\ Len(events) \in Nat /\ DOMAIN events = 1 .. Len(events)
         /\ \A i \in DOMAIN events : events[i] \in EventRecords
  <1>1. events \in Seq(EventRecords)
    BY DEF TypeOK, EventRecords
  <1>2. Len(events) \in Nat /\ DOMAIN events = 1 .. Len(events)
    BY <1>1, LenProperties
  <1> QED
    BY <1>1, <1>2, ElementOfSeq

\* The first event is gone, the others have moved up.
Shifted ==
  /\ events \in Seq(EventRecords) /\ events # <<>>
  /\ events' = Tail(events) /\ events' \in Seq(EventRecords)
  /\ Current = events[1] /\ 1 \in DOMAIN events
  /\ Current \in EventRecords
  /\ DOMAIN events \subseteq Nat \ {0} /\ DOMAIN events' \subseteq Nat \ {0}
  /\ \A i \in DOMAIN events' : i + 1 \in DOMAIN events /\ events'[i] = events[i + 1]
  /\ \A i \in DOMAIN events :
        i # 1 => i - 1 \in DOMAIN events' /\ events'[i - 1] = events[i]

LEMMA Taken ==
  ASSUME TypeOK, events # <<>>, events' = Tail(events)
  PROVE  Shifted
  <1>1. events \in Seq(EventRecords)
    BY QueueTypes
  <1>2. /\ Len(events) \in Nat \ {0} /\ DOMAIN events = 1 .. Len(events)
        /\ Head(events) = events[1] /\ Head(events) \in EventRecords
        /\ Tail(events) \in Seq(EventRecords)
        /\ DOMAIN Tail(events) = 1 .. Len(events) - 1
        /\ \A i \in DOMAIN Tail(events) :
              Tail(events)[i] = events[i + 1] /\ i + 1 \in DOMAIN events
    BY <1>1, Taking
  <1> QED
    BY <1>2 DEF Current, Shifted

\* What is still waiting, and in which order.
LEMMA StillPosted ==
  ASSUME NEW type, Shifted, Posted(type), Current.type # type
  PROVE  Posted(type)'
  BY DEF Posted, Shifted

LEMMA WasPosted ==
  ASSUME NEW type, Shifted, Posted(type)'
  PROVE  Posted(type)
  BY DEF Posted, Shifted

LEMMA OrderKept ==
  ASSUME Shifted
  PROVE  /\ NoneConnected => NoneConnected'
         /\ ConnectFirst => ConnectFirst'
         /\ DisconnectLast => DisconnectLast'
         /\ OfLastConnection /\ (conn' = conn \/ NoneConnected) => OfLastConnection'
  <1>1. events \in Seq(EventRecords) /\ events # <<>> /\ events' = Tail(events)
    BY DEF Shifted
  <1>2. NoneIn(events) /\ OfIn(events, conn) => OfIn(events, conn')
    BY DEF NoneIn, OfIn
  <1> QED
    BY <1>1, <1>2, TakingKeepsOrder, QueueParts, QueuePartsNext

\* What the first event says of the others.
LEMMA FirstEvent ==
  ASSUME Shifted
  PROVE  /\ Posted(Current.type)
         /\ Current.type \notin Unconnected => ~NoneConnected
         /\ ConnectFirst /\ Current.type \notin Unconnected \cup {"CONNECT"}
              => ~Posted("CONNECT")
         /\ DisconnectLast /\ Current.type = "DISCONNECT" => NoneConnected'
         /\ OfLastConnection /\ Current.type \notin Unconnected => Current.conn = conn
  <1> USE DEF Shifted
  <1>1. Posted(Current.type)
    BY DEF Posted
  <1>2. Current.type \notin Unconnected => ~NoneConnected
    BY DEF NoneConnected
  <1>3. ASSUME ConnectFirst, Posted("CONNECT"),
               Current.type \notin Unconnected \cup {"CONNECT"}
        PROVE  FALSE
    <2>1. PICK j \in DOMAIN events : events[j].type = "CONNECT"
      BY <1>3 DEF Posted
    <2>2. j # 1 /\ j \in Nat \ {0}
      BY <1>3, <2>1
    <2> QED
      BY <1>3, <2>1, <2>2 DEF ConnectFirst
  <1>4. ASSUME DisconnectLast, Current.type = "DISCONNECT" PROVE NoneConnected'
    <2> SUFFICES ASSUME NEW i \in DOMAIN events' PROVE events'[i].type \in Unconnected
      BY DEF NoneConnected
    <2>1. i + 1 \in DOMAIN events /\ events'[i] = events[i + 1] /\ 1 < i + 1
      OBVIOUS
    <2> QED
      BY <1>4, <2>1 DEF DisconnectLast
  <1>5. OfLastConnection /\ Current.type \notin Unconnected => Current.conn = conn
    BY DEF OfLastConnection
  <1> QED
    BY <1>1, <1>2, <1>3, <1>4, <1>5

\* The same of the queue alone.
LEMMA AtHead ==
  ASSUME TypeOK, events # <<>>, ConnectFirst,
         Current.type \notin Unconnected \cup {"CONNECT"}
  PROVE  Posted(Current.type) /\ ~Posted("CONNECT")
  <1>1. /\ Len(events) \in Nat \ {0} /\ DOMAIN events = 1 .. Len(events)
        /\ Current = events[1]
    BY QueueTypes, Taking DEF Current
  <1>2. Posted(Current.type)
    BY <1>1 DEF Posted
  <1>3. ASSUME Posted("CONNECT") PROVE FALSE
    <2>1. PICK j \in DOMAIN events : events[j].type = "CONNECT"
      BY <1>3 DEF Posted
    <2>2. j # 1 /\ j \in Nat \ {0}
      BY <1>1, <2>1
    <2> QED
      BY <1>1, <2>1, <2>2 DEF ConnectFirst
  <1> QED
    BY <1>2, <1>3

-----------------------------------------------------------------------------
(* What the stack posts.                                                   *)

LEMMA PostedOne ==
  ASSUME TypeOK, NEW a \in EventRecords, events' = events \o <<a>>, NEW type
  PROVE  Posted(type)' <=> Posted(type) \/ a.type = type
  <1>1. PostedIn(events', type) <=> PostedIn(events, type) \/ a.type = type
    BY QueueTypes, AddingPosts
  <1> QED
    BY <1>1 DEF Posted, PostedIn

LEMMA PostOne ==
  ASSUME TypeOK, NEW a \in EventRecords, events' = events \o <<a>>, conn' = conn
  PROVE  /\ events' \in Seq(EventRecords)
         /\ NoneConnected /\ a.type \in Unconnected => NoneConnected'
         /\ ConnectFirst /\ (a.type = "CONNECT" => NoneConnected) => ConnectFirst'
         /\ DisconnectLast /\ (a.type \in Unconnected \/ ~Posted("DISCONNECT"))
              => DisconnectLast'
         /\ OfLastConnection /\ a.conn = (IF a.type \in Unconnected THEN 0 ELSE conn)
              => OfLastConnection'
  <1>1. events \in Seq(EventRecords)
    BY QueueTypes
  <1>2. Posted("DISCONNECT") <=> PostedIn(events, "DISCONNECT")
    BY DEF Posted, PostedIn
  <1> QED
    BY <1>1, <1>2, AddingKeepsOrder, QueueParts, QueuePartsNext

LEMMA PostedTwo ==
  ASSUME TypeOK, NEW a \in EventRecords, NEW b \in EventRecords,
         events' = events \o <<a, b>>, NEW type
  PROVE  Posted(type)' <=> Posted(type) \/ a.type = type \/ b.type = type
  <1>1. events' = (events \o <<a>>) \o <<b>> /\ events \o <<a>> \in Seq(EventRecords)
    BY QueueTypes, TwoAreOneByOne, AddingKeepsOrder
  <1>2. PostedIn(events \o <<a>>, type) <=> PostedIn(events, type) \/ a.type = type
    BY QueueTypes, AddingPosts
  <1>3. PostedIn(events', type) <=> PostedIn(events \o <<a>>, type) \/ b.type = type
    BY <1>1, AddingPosts
  <1> QED
    BY <1>2, <1>3 DEF Posted, PostedIn

\* The second of two events is not the first of a connection, the first is not
\* its last.
LEMMA PostTwo ==
  ASSUME TypeOK, NEW a \in EventRecords, NEW b \in EventRecords,
         events' = events \o <<a, b>>, conn' = conn,
         a.type # "DISCONNECT", b.type # "CONNECT"
  PROVE  /\ events' \in Seq(EventRecords)
         /\ ConnectFirst /\ (a.type = "CONNECT" => NoneConnected) => ConnectFirst'
         /\ DisconnectLast /\ ~Posted("DISCONNECT") => DisconnectLast'
         /\ OfLastConnection /\ {a.type, b.type} \cap Unconnected = {}
              /\ a.conn = conn /\ b.conn = conn => OfLastConnection'
  <1>1. events \in Seq(EventRecords)
    BY QueueTypes
  <1>2. events' = (events \o <<a>>) \o <<b>>
    BY <1>1, TwoAreOneByOne
  <1> DEFINE r == events \o <<a>>
  <1>3. /\ r \in Seq(EventRecords)
        /\ FirstIn(events) /\ (a.type = "CONNECT" => NoneIn(events)) => FirstIn(r)
        /\ LastIn(events) /\ ~PostedIn(events, "DISCONNECT") => LastIn(r)
        /\ OfIn(events, conn) /\ a.type \notin Unconnected /\ a.conn = conn => OfIn(r, conn)
    BY <1>1, AddingKeepsOrder
  <1>4. PostedIn(r, "DISCONNECT") <=> PostedIn(events, "DISCONNECT")
    BY <1>1, AddingPosts
  <1> HIDE DEF r
  <1>5. /\ r \o <<b>> \in Seq(EventRecords)
        /\ FirstIn(r) => FirstIn(r \o <<b>>)
        /\ LastIn(r) /\ ~PostedIn(r, "DISCONNECT") => LastIn(r \o <<b>>)
        /\ OfIn(r, conn) /\ b.type \notin Unconnected /\ b.conn = conn
             => OfIn(r \o <<b>>, conn)
    BY <1>3, AddingKeepsOrder
  <1>6. events' = r \o <<b>>
    BY <1>2 DEF r
  <1>7. Posted("DISCONNECT") <=> PostedIn(events, "DISCONNECT")
    BY DEF Posted, PostedIn
  <1> QED
    BY <1>3, <1>4, <1>5, <1>6, <1>7, QueueParts, QueuePartsNext

-----------------------------------------------------------------------------
(* The callbacks.                                                          *)

\* A callback that changes neither flags nor handles leaves all in order.
LEMMA NoteStep ==
  ASSUME BleInv, NEW type, type \notin {"CONNECT", "DISCONNECT"}, Note(type)
  PROVE  BleInv'
  <1> USE DEF BleInv
  <1>1. /\ events # <<>> /\ Current.type = type /\ events' = Tail(events)
        /\ UNCHANGED <<gattcIf, connect, getServer, connId, service, charHandle,
                      scanner, link, conn, progress, advertising>>
    BY DEF Note, Handle, flags, handles, linkVars
  <1>2. Shifted
    BY <1>1, Taken
  <1>3. TypeOK'
    BY <1>1, <1>2 DEF Shifted, TypeOK, EventRecords, EventTypes, Progress, Report
  <1>4. Registered'
    BY <1>1, <1>2, WasPosted, FirstEvent DEF Registered
  <1>5. ConnectFirst' /\ DisconnectLast' /\ OfLastConnection'
    BY <1>1, <1>2, OrderKept DEF FlaggedUntilHandled
  <1>6. FlaggedUntilHandled'
    BY <1>1, <1>2, WasPosted, OrderKept, FirstEvent DEF FlaggedUntilHandled, Unconnected
  <1>7. IdentifierKnown'
    BY <1>1, <1>2, StillPosted, FirstEvent DEF IdentifierKnown
  <1>8. HandlesLearnt'
    BY <1>1, <1>2, WasPosted, FirstEvent DEF HandlesLearnt
  <1> QED
    BY <1>3, <1>4, <1>5, <1>6, <1>7, <1>8

LEMMA ScanParamSetStep ==
  ASSUME BleInv, HandleScanParamSet
  PROVE  BleInv'
  <1> USE DEF BleInv
  <1>1. /\ events # <<>> /\ Current.type = "SCAN_PARAM_SET" /\ events' = Tail(events)
        /\ scanner' \in {"scanning", "off"}
        /\ UNCHANGED <<gattcIf, connect, getServer, connId, service, charHandle,
                      link, conn, progress, advertising>>
    BY DEF HandleScanParamSet, Handle, flags, handles, linkVars
  <1>2. Shifted
    BY <1>1, Taken
  <1>3. TypeOK'
    BY <1>1, <1>2 DEF Shifted, TypeOK, EventRecords, EventTypes, Progress, Report
  <1>4. Registered'
    <2>1. Posted("SCAN_PARAM_SET")
      BY <1>1, <1>2, FirstEvent
    <2> QED
      BY <1>1, <2>1 DEF Registered
  <1>5. ConnectFirst' /\ DisconnectLast' /\ OfLastConnection'
    BY <1>1, <1>2, OrderKept DEF FlaggedUntilHandled
  <1>6. FlaggedUntilHandled'
    BY <1>1, <1>2, WasPosted, OrderKept, FirstEvent DEF FlaggedUntilHandled, Unconnected
  <1>7. IdentifierKnown'
    BY <1>1, <1>2, StillPosted, FirstEvent DEF IdentifierKnown
  <1>8. HandlesLearnt'
    BY <1>1, <1>2, WasPosted, FirstEvent DEF HandlesLearnt
  <1> QED
    BY <1>3, <1>4, <1>5, <1>6, <1>7, <1>8

\* A connection is asked for: no event of an earlier one is waiting.
LEMMA OpenStep ==
  ASSUME BleInv, HandleScanResult, connect # TRUE
  PROVE  BleInv'
  <1> USE DEF BleInv
  <1>1. /\ events # <<>> /\ Current.type = "SCAN_RESULT" /\ events' = Tail(events)
        /\ connect = FALSE /\ connect' = TRUE
        /\ scanner' = IF scanner = "scanning" THEN "stopping" ELSE scanner
        /\ conn' = conn + 1 /\ link' = "opening" /\ progress' = "none"
        /\ UNCHANGED <<gattcIf, getServer, connId, service, charHandle, advertising>>
    BY DEF HandleScanResult, OpenFlagging, Handle, handles, linkVars, TypeOK
  <1>2. Shifted
    BY <1>1, Taken
  <1>3. NoneConnected /\ NoneConnected' /\ conn \in Nat
    BY <1>1, <1>2, OrderKept DEF FlaggedUntilHandled, TypeOK
  <1>4. ~Posted("DISCONNECT")'
    BY <1>3 DEF NoneConnected, Posted, Unconnected
  <1>5. TypeOK'
    BY <1>1, <1>2, <1>3, <1>4 DEF Shifted, TypeOK, EventRecords, EventTypes, Progress, Report
  <1>6. Registered'
    BY <1>1, <1>2, WasPosted, FirstEvent DEF Registered
  <1>7. ConnectFirst' /\ DisconnectLast' /\ OfLastConnection'
    BY <1>1, <1>2, OrderKept, <1>3 DEF FlaggedUntilHandled
  <1>8. FlaggedUntilHandled'
    BY <1>1, <1>2, <1>3, <1>4, WasPosted, OrderKept, FirstEvent DEF FlaggedUntilHandled, Unconnected
  <1>9. IdentifierKnown'
    BY <1>1, <1>2, <1>3, <1>4, StillPosted, FirstEvent DEF IdentifierKnown
  <1>10. HandlesLearnt'
    BY <1>1, <1>2, <1>3, <1>4, WasPosted, FirstEvent DEF HandlesLearnt
  <1> QED
    BY <1>5, <1>6, <1>7, <1>8, <1>9, <1>10

LEMMA ConnectStep ==
  ASSUME BleInv, HandleConnect
  PROVE  BleInv'
  <1> USE DEF BleInv
  <1>1. /\ events # <<>> /\ Current.type = "CONNECT" /\ events' = Tail(events)
        /\ connId' = Current.conn
        /\ UNCHANGED <<gattcIf, connect, getServer, service, charHandle,
                      scanner, link, conn, progress, advertising>>
    BY DEF HandleConnect, Handle, flags, linkVars
  <1>2. Shifted
    BY <1>1, Taken
  <1>3. connId' = conn
    BY <1>1, <1>2, FirstEvent DEF Unconnected
  <1>4. TypeOK'
    BY <1>1, <1>2, <1>3 DEF Shifted, TypeOK, EventRecords, EventTypes, Progress, Report
  <1>5. Registered'
    BY <1>1, <1>2, WasPosted, FirstEvent DEF Registered
  <1>6. ConnectFirst' /\ DisconnectLast' /\ OfLastConnection'
    BY <1>1, <1>2, OrderKept DEF FlaggedUntilHandled
  <1>7. FlaggedUntilHandled'
    BY <1>1, <1>2, <1>3, WasPosted, OrderKept, FirstEvent DEF FlaggedUntilHandled, Unconnected
  <1>8. IdentifierKnown'
    BY <1>1, <1>2, <1>3, StillPosted, FirstEvent DEF IdentifierKnown
  <1>9. HandlesLearnt'
    BY <1>1, <1>2, <1>3, WasPosted, FirstEvent DEF HandlesLearnt
  <1> QED
    BY <1>4, <1>5, <1>6, <1>7, <1>8, <1>9

LEMMA DisSrvcCmplStep ==
  ASSUME BleInv, HandleDisSrvcCmpl
  PROVE  BleInv'
  <1> USE DEF BleInv
  <1>1. /\ events # <<>> /\ Current.type = "DIS_SRVC_CMPL" /\ events' = Tail(events)
        /\ progress' = progress \/ (progress' \in {"failed", "searching"} /\ link = "up")
        /\ UNCHANGED <<gattcIf, connect, getServer, connId, service, charHandle,
                      scanner, link, conn, advertising>>
    BY DEF HandleDisSrvcCmpl, Handle, Ask, OnLink, flags, handles
  <1>2. Shifted
    BY <1>1, Taken
  <1>3. TypeOK'
    BY <1>1, <1>2 DEF Shifted, TypeOK, EventRecords, EventTypes, Progress, Report
  <1>4. Registered'
    BY <1>1, <1>2, WasPosted, FirstEvent DEF Registered
  <1>5. ConnectFirst' /\ DisconnectLast' /\ OfLastConnection'
    BY <1>1, <1>2, OrderKept DEF FlaggedUntilHandled
  <1>6. FlaggedUntilHandled'
    BY <1>1, <1>2, WasPosted, OrderKept, FirstEvent DEF FlaggedUntilHandled, Unconnected
  <1>7. IdentifierKnown'
    BY <1>1, <1>2, StillPosted, FirstEvent DEF IdentifierKnown
  <1>8. HandlesLearnt'
    BY <1>1, <1>2, WasPosted, FirstEvent DEF HandlesLearnt
  <1> QED
    BY <1>3, <1>4, <1>5, <1>6, <1>7, <1>8

LEMMA SearchResStep ==
  ASSUME BleInv, HandleSearchRes
  PROVE  BleInv'
  <1> USE DEF BleInv
  <1>1. /\ events # <<>> /\ Current.type = "SEARCH_RES" /\ events' = Tail(events)
        /\ getServer' = TRUE /\ service' = Current.conn
        /\ UNCHANGED <<gattcIf, connect, connId, charHandle,
                      scanner, link, conn, progress, advertising>>
    BY DEF HandleSearchRes, Handle, linkVars
  <1>2. Shifted
    BY <1>1, Taken
  <1>3. service' = conn /\ connect = TRUE
    BY <1>1, <1>2, FirstEvent DEF Unconnected, FlaggedUntilHandled, TypeOK
  <1>4. TypeOK'
    BY <1>1, <1>2, <1>3 DEF Shifted, TypeOK, EventRecords, EventTypes, Progress, Report
  <1>5. Registered'
    BY <1>1, <1>2, WasPosted, FirstEvent DEF Registered
  <1>6. ConnectFirst' /\ DisconnectLast' /\ OfLastConnection'
    BY <1>1, <1>2, OrderKept DEF FlaggedUntilHandled
  <1>7. FlaggedUntilHandled'
    BY <1>1, <1>2, <1>3, WasPosted, OrderKept, FirstEvent DEF FlaggedUntilHandled, Unconnected
  <1>8. IdentifierKnown'
    BY <1>1, <1>2, <1>3, StillPosted, FirstEvent DEF IdentifierKnown
  <1>9. HandlesLearnt'
    BY <1>1, <1>2, <1>3, WasPosted, FirstEvent DEF HandlesLearnt
  <1> QED
    BY <1>4, <1>5, <1>6, <1>7, <1>8, <1>9

\* The characteristic is looked up in the service of the connection that is up.
LEMMA SearchCmplStep ==
  ASSUME BleInv, HandleSearchCmpl
  PROVE  BleInv'
  <1> USE DEF BleInv
  <1>1. /\ events # <<>> /\ Current.type = "SEARCH_CMPL" /\ events' = Tail(events)
        /\ \/ UNCHANGED <<charHandle, progress>>
           \/ /\ link = "up" /\ progress' = "failed" /\ charHandle' = charHandle
           \/ /\ link = "up" /\ getServer = TRUE
              /\ progress' = "registering" /\ charHandle' = service
        /\ UNCHANGED <<gattcIf, connect, getServer, connId, service,
                      scanner, link, conn, advertising>>
    BY DEF HandleSearchCmpl, Handle, Ask, OnLink, flags, TypeOK
  <1>2. Shifted
    BY <1>1, Taken
  <1>3. TypeOK'
    BY <1>1, <1>2 DEF Shifted, TypeOK, EventRecords, EventTypes, Progress, Report
  <1>4. Registered'
    BY <1>1, <1>2, WasPosted, FirstEvent DEF Registered
  <1>5. ConnectFirst' /\ DisconnectLast' /\ OfLastConnection'
    BY <1>1, <1>2, OrderKept DEF FlaggedUntilHandled
  <1>6. FlaggedUntilHandled'
    BY <1>1, <1>2, WasPosted, OrderKept, FirstEvent DEF FlaggedUntilHandled, Unconnected
  <1>7. IdentifierKnown'
    BY <1>1, <1>2, StillPosted, FirstEvent DEF IdentifierKnown
  <1>8. HandlesLearnt'
    BY <1>1, <1>2, WasPosted, FirstEvent DEF HandlesLearnt, FlaggedUntilHandled
  <1> QED
    BY <1>3, <1>4, <1>5, <1>6, <1>7, <1>8

LEMMA RegForNotifyStep ==
  ASSUME BleInv, HandleRegForNotify
  PROVE  BleInv'
  <1> USE DEF BleInv
  <1>1. /\ events # <<>> /\ Current.type = "REG_FOR_NOTIFY" /\ events' = Tail(events)
        /\ progress' = progress \/ (progress' \in {"failed", "writing"} /\ link = "up")
        /\ UNCHANGED <<gattcIf, connect, getServer, connId, service, charHandle,
                      scanner, link, conn, advertising>>
    BY DEF HandleRegForNotify, EnableOn, Handle, Ask, OnLink, flags, handles
  <1>2. Shifted
    BY <1>1, Taken
  <1>3. TypeOK'
    BY <1>1, <1>2 DEF Shifted, TypeOK, EventRecords, EventTypes, Progress, Report
  <1>4. Registered'
    BY <1>1, <1>2, WasPosted, FirstEvent DEF Registered
  <1>5. ConnectFirst' /\ DisconnectLast' /\ OfLastConnection'
    BY <1>1, <1>2, OrderKept DEF FlaggedUntilHandled
  <1>6. FlaggedUntilHandled'
    BY <1>1, <1>2, WasPosted, OrderKept, FirstEvent DEF FlaggedUntilHandled, Unconnected
  <1>7. IdentifierKnown'
    BY <1>1, <1>2, StillPosted, FirstEvent DEF IdentifierKnown
  <1>8. HandlesLearnt'
    BY <1>1, <1>2, WasPosted, FirstEvent DEF HandlesLearnt
  <1> QED
    BY <1>3, <1>4, <1>5, <1>6, <1>7, <1>8

\* The disconnection is the last that is heard of a connection.
LEMMA DisconnectStep ==
  ASSUME BleInv, HandleDisconnect
  PROVE  BleInv'
  <1> USE DEF BleInv
  <1>1. /\ events # <<>> /\ Current.type = "DISCONNECT" /\ events' = Tail(events)
        /\ connect' = FALSE /\ getServer' = FALSE
        /\ UNCHANGED <<gattcIf, connId, service, charHandle,
                      scanner, link, conn, progress, advertising>>
    BY DEF HandleDisconnect, Forget, Handle, handles, linkVars
  <1>2. Shifted
    BY <1>1, Taken
  <1>3. TypeOK'
    BY <1>1, <1>2 DEF Shifted, TypeOK, EventRecords, EventTypes, Progress, Report
  <1>4. Registered'
    BY <1>1, <1>2, WasPosted, FirstEvent DEF Registered
  <1>5. ConnectFirst' /\ DisconnectLast' /\ OfLastConnection'
    BY <1>1, <1>2, OrderKept DEF FlaggedUntilHandled
  <1>6. FlaggedUntilHandled'
    BY <1>1, <1>2, WasPosted, OrderKept, FirstEvent DEF FlaggedUntilHandled, Unconnected
  <1>7. IdentifierKnown'
    BY <1>1, <1>2, StillPosted, FirstEvent DEF IdentifierKnown
  <1>8. HandlesLearnt'
    BY <1>1, <1>2, WasPosted, FirstEvent DEF HandlesLearnt
  <1> QED
    BY <1>3, <1>4, <1>5, <1>6, <1>7, <1>8

\* A registration that succeeded is kept before the scan is prepared.
LEMMA RegStep ==
  ASSUME BleInv, HandleReg
  PROVE  BleInv'
  <1> USE DEF BleInv
  <1> DEFINE set == Event("SCAN_PARAM_SET", 0, TRUE)
  <1> DEFINE q == Tail(events)
  <1>1. /\ events # <<>> /\ Current.type = "REG"
        /\ \/ events' = q \o <<>>
           \/ events' = q \o <<set>> /\ Current.ok = TRUE
        /\ gattcIf' = (gattcIf \/ Current.ok)
        /\ UNCHANGED <<connect, getServer, connId, service, charHandle,
                      scanner, link, conn, progress, advertising>>
    BY DEF HandleReg, RegisterKeeping, handles, linkVars, Outcomes
  <1>2. /\ events \in Seq(EventRecords) /\ q \in Seq(EventRecords)
        /\ Current \in EventRecords
    BY <1>1, QueueTypes, Taking DEF Current
  <1>3. /\ set \in EventRecords /\ set.type = "SCAN_PARAM_SET" /\ set.conn = 0
    BY DEF Event, EventRecords, EventTypes
  <1>4. /\ gattcIf = TRUE => gattcIf' = TRUE
        /\ Current.ok = TRUE => gattcIf' = TRUE
        /\ gattcIf' \in BOOLEAN
    BY <1>1, <1>2 DEF TypeOK, EventRecords
  <1>5. CASE events' = q \o <<>>
    <2>1. Shifted
      BY <1>1, <1>2, <1>5, ConcatEmptySeq, Taken
    <2>2. TypeOK'
      BY <1>1, <1>4, <2>1 DEF Shifted, TypeOK, EventRecords
    <2>3. Registered'
      BY <1>1, <1>4, <2>1, WasPosted DEF Registered
    <2>4. ConnectFirst' /\ DisconnectLast' /\ OfLastConnection'
      BY <1>1, <2>1, OrderKept
    <2>5. FlaggedUntilHandled'
      BY <1>1, <2>1, WasPosted, OrderKept DEF FlaggedUntilHandled
    <2>6. IdentifierKnown'
      BY <1>1, <2>1, StillPosted DEF IdentifierKnown
    <2>7. HandlesLearnt'
      BY <1>1, <2>1, WasPosted DEF HandlesLearnt
    <2> QED
      BY <2>2, <2>3, <2>4, <2>5, <2>6, <2>7
  <1>6. CASE events' = q \o <<set>> /\ Current.ok = TRUE
    <2> HIDE DEF set
    <2>1. /\ NoneConnected => NoneIn(q)
          /\ FirstIn(q) /\ LastIn(q) /\ OfIn(q, conn)
      BY <1>1, <1>2, TakingKeepsOrder, QueueParts
    <2>2. ASSUME NEW type
          PROVE  PostedIn(events', type) <=> PostedIn(q, type) \/ set.type = type
      BY <1>2, <1>3, <1>6, AddingPosts
    <2>3. ASSUME NEW type, type # "SCAN_PARAM_SET", type # "REG"
          PROVE  Posted(type)' <=> Posted(type)
      <3>1. PostedIn(q, type) <=> PostedIn(events, type)
        BY <1>1, <1>2, <2>3, TakingPosts DEF Current
      <3> QED
        BY <1>3, <2>2, <2>3, <3>1 DEF Posted, PostedIn
    <2>4. events' \in Seq(EventRecords)
      BY <1>2, <1>3, <1>6, AddingKeepsOrder
    <2>5. TypeOK'
      BY <1>1, <1>4, <2>4 DEF TypeOK, EventRecords
    <2>6. Registered'
      BY <1>4, <1>6 DEF Registered
    <2>7. /\ ConnectFirst' /\ DisconnectLast' /\ OfLastConnection'
          /\ NoneConnected => NoneConnected'
      BY <1>1, <1>2, <1>3, <1>6, <2>1, AddingKeepsOrder, QueuePartsNext DEF Unconnected
    <2>8. FlaggedUntilHandled'
      BY <1>1, <2>3, <2>7 DEF FlaggedUntilHandled
    <2>9. IdentifierKnown'
      BY <1>1, <2>3 DEF IdentifierKnown
    <2>10. HandlesLearnt'
      BY <1>1, <2>3 DEF HandlesLearnt
    <2> QED
      BY <2>5, <2>6, <2>7, <2>8, <2>9, <2>10
  <1> QED
    BY <1>1, <1>5, <1>6

-----------------------------------------------------------------------------
(* The stack and the device.                                               *)

LEMMA HearStep ==
  ASSUME BleInv, Hear
  PROVE  BleInv'
  <1> USE DEF BleInv
  <1> DEFINE a == Event("SCAN_RESULT", 0, TRUE)
  <1>1. /\ events' = events \o <<a>> /\ scanner # "off"
        /\ UNCHANGED <<gattcIf, connect, getServer, connId, service, charHandle,
                      scanner, link, conn, progress, advertising>>
    BY DEF Hear, Post, OnlyPosts, flags, handles, linkVars
  <1>2. /\ a \in EventRecords /\ a.type = "SCAN_RESULT" /\ a.conn = 0
        /\ a.type \in Unconnected
    BY DEF Event, EventRecords, EventTypes, Unconnected
  <1> HIDE DEF a
  <1>3. TypeOK'
    BY <1>1, <1>2, PostOne DEF TypeOK, EventRecords
  <1>4. Registered'
    BY <1>1 DEF Registered
  <1>5. ConnectFirst' /\ DisconnectLast' /\ OfLastConnection'
    BY <1>1, <1>2, PostOne
  <1>6. FlaggedUntilHandled'
    BY <1>1, <1>2, PostOne, PostedOne DEF FlaggedUntilHandled
  <1>7. IdentifierKnown'
    BY <1>1, <1>2, PostedOne DEF IdentifierKnown
  <1>8. HandlesLearnt'
    BY <1>1, <1>2, PostedOne DEF HandlesLearnt
  <1> QED
    BY <1>3, <1>4, <1>5, <1>6, <1>7, <1>8

\* The first event of a connection finds no other of it.
LEMMA OpenSucceedsStep ==
  ASSUME BleInv, OpenSucceeds
  PROVE  BleInv'
  <1> USE DEF BleInv
  <1> DEFINE a == Event("CONNECT", conn, TRUE)
  <1> DEFINE b == Event("OPEN", conn, TRUE)
  <1>1. /\ events' = events \o <<a, b>>
        /\ link = "opening" /\ link' = "up" /\ progress' = "discovering"
        /\ UNCHANGED <<gattcIf, connect, getServer, connId, service, charHandle,
                      scanner, conn, advertising>>
    BY DEF OpenSucceeds, Post, OnlyPosts, flags, handles
  <1>2. /\ a \in EventRecords /\ a.type = "CONNECT" /\ a.conn = conn
        /\ b \in EventRecords /\ b.type = "OPEN" /\ b.conn = conn
        /\ {a.type, b.type} \cap Unconnected = {}
    BY DEF Event, EventRecords, EventTypes, Unconnected, TypeOK
  <1> HIDE DEF a, b
  <1>3. NoneConnected /\ connect = TRUE /\ conn > 0 /\ ~Posted("DISCONNECT")
    BY <1>1 DEF FlaggedUntilHandled
  <1>4. TypeOK'
    BY <1>1, <1>2, PostTwo DEF TypeOK, EventRecords, Progress, Report
  <1>5. Registered'
    BY <1>1, <1>2, PostedTwo DEF Registered
  <1>6. ConnectFirst' /\ DisconnectLast' /\ OfLastConnection'
    BY <1>1, <1>2, <1>3, PostTwo
  <1>7. FlaggedUntilHandled'
    BY <1>1, <1>2, <1>3, PostedTwo DEF FlaggedUntilHandled
  <1>8. IdentifierKnown'
    BY <1>1, <1>2, PostedTwo DEF IdentifierKnown
  <1>9. HandlesLearnt'
    <2>1. ~Posted("REG_FOR_NOTIFY") /\ ~Posted("WRITE_DESCR")
      BY <1>3 DEF NoneConnected, Posted, Unconnected
    <2> QED
      BY <1>1, <1>2, <2>1, PostedTwo DEF HandlesLearnt
  <1> QED
    BY <1>4, <1>5, <1>6, <1>7, <1>8, <1>9

LEMMA OpenFailsStep ==
  ASSUME BleInv, OpenFails
  PROVE  BleInv'
  <1> USE DEF BleInv
  <1> DEFINE a == Event("OPEN", conn, FALSE)
  <1> DEFINE b == Event("DISCONNECT", conn, TRUE)
  <1>1. /\ \/ events' = events \o (<<a>> \o <<>>)
           \/ events' = events \o (<<a>> \o <<b>>)
        /\ link = "opening" /\ link' = "down"
        /\ UNCHANGED <<gattcIf, connect, getServer, connId, service, charHandle,
                      scanner, conn, progress, advertising>>
    BY DEF OpenFails, Post, OnlyPosts, flags, handles
  <1>2. /\ a \in EventRecords /\ a.type = "OPEN" /\ a.conn = conn
        /\ b \in EventRecords /\ b.type = "DISCONNECT" /\ b.conn = conn
        /\ {a.type, b.type} \cap Unconnected = {}
    BY DEF Event, EventRecords, EventTypes, Unconnected, TypeOK
  <1> HIDE DEF a, b
  <1>3. connect = TRUE /\ ~Posted("DISCONNECT")
    BY <1>1 DEF FlaggedUntilHandled
  <1>4. events' = events \o <<a>> \/ events' = events \o <<a, b>>
    BY <1>1, <1>2, OneAndOne
  <1>5. TypeOK'
    BY <1>1, <1>2, <1>4, PostOne, PostTwo DEF TypeOK, EventRecords
  <1>6. Registered'
    BY <1>1, <1>2, <1>4, PostedOne, PostedTwo DEF Registered
  <1>7. ConnectFirst' /\ DisconnectLast' /\ OfLastConnection'
    BY <1>1, <1>2, <1>3, <1>4, PostOne, PostTwo
  <1>8. FlaggedUntilHandled'
    BY <1>1, <1>3 DEF FlaggedUntilHandled
  <1>9. IdentifierKnown' /\ HandlesLearnt'
    BY <1>1 DEF IdentifierKnown, HandlesLearnt
  <1> QED
    BY <1>5, <1>6, <1>7, <1>8, <1>9

\* A procedure reports on the connection that is up.
LEMMA FinishStep ==
  ASSUME BleInv, Finish
  PROVE  BleInv'
  <1> USE DEF BleInv
  <1> DEFINE a == Event("SEARCH_RES", conn, TRUE)
  <1>1. PICK ok \in Outcomes :
          /\ \/ events' = events \o (<<a>> \o <<Event(Report[progress], conn, ok)>>)
             \/ events' = events \o (<<>> \o <<Event(Report[progress], conn, ok)>>)
          /\ link = "up" /\ progress \in DOMAIN Report
          /\ progress' \in {"reported", "subscribed", "failed"}
          /\ UNCHANGED <<gattcIf, connect, getServer, connId, service, charHandle,
                        scanner, link, conn, advertising>>
    BY DEF Finish, Post, OnlyPosts, flags, handles
  <1> DEFINE b == Event(Report[progress], conn, ok)
  <1>2. /\ a \in EventRecords /\ a.type = "SEARCH_RES" /\ a.conn = conn
        /\ b \in EventRecords /\ b.conn = conn
        /\ {a.type, b.type} \cap Unconnected = {}
        /\ b.type \in {"DIS_SRVC_CMPL", "SEARCH_CMPL", "REG_FOR_NOTIFY", "WRITE_DESCR"}
        /\ b.type \in {"REG_FOR_NOTIFY", "WRITE_DESCR"}
             => progress \in {"registering", "writing"}
    <2>1. ok \in BOOLEAN /\ conn \in Nat
      BY BleAssumption DEF Outcomes, TypeOK
    <2>2. progress \in {"discovering", "searching", "registering", "writing"}
      BY <1>1 DEF Report
    <2>3. /\ Report[progress] \in {"DIS_SRVC_CMPL", "SEARCH_CMPL", "REG_FOR_NOTIFY",
                                  "WRITE_DESCR"}
          /\ Report[progress] \in {"REG_FOR_NOTIFY", "WRITE_DESCR"}
               => progress \in {"registering", "writing"}
      BY <2>2 DEF Report
    <2> QED
      BY <2>1, <2>3 DEF Event, EventRecords, EventTypes, Unconnected
  <1>3. \/ events' = events \o (<<a>> \o <<b>>)
        \/ events' = events \o (<<>> \o <<b>>)
    BY <1>1
  <1> HIDE DEF a, b
  <1>4. events' = events \o <<b>> \/ events' = events \o <<a, b>>
    BY <1>2, <1>3, OneAndOne
  <1>5. connect = TRUE /\ ~Posted("DISCONNECT")
    BY <1>1 DEF FlaggedUntilHandled
  <1>6. TypeOK'
    BY <1>1, <1>2, <1>4, PostOne, PostTwo DEF TypeOK, EventRecords, Progress
  <1>7. Registered'
    BY <1>1, <1>2, <1>4, PostedOne, PostedTwo DEF Registered
  <1>8. ConnectFirst' /\ DisconnectLast' /\ OfLastConnection'
    BY <1>1, <1>2, <1>4, <1>5, PostOne, PostTwo
  <1>9. FlaggedUntilHandled'
    BY <1>1, <1>2, <1>4, <1>5, PostedOne, PostedTwo DEF FlaggedUntilHandled
  <1>10. IdentifierKnown'
    BY <1>1, <1>2, <1>4, PostedOne, PostedTwo DEF IdentifierKnown
  <1>11. HandlesLearnt'
    BY <1>1, <1>2, <1>4, PostedOne, PostedTwo DEF HandlesLearnt
  <1> QED
    BY <1>6, <1>7, <1>8, <1>9, <1>10, <1>11

LEMMA NotifyStep ==
  ASSUME BleInv, Notify
  PROVE  BleInv'
  <1> USE DEF BleInv
  <1> DEFINE a == Event("NOTIFY", conn, TRUE)
  <1>1. /\ events' = events \o <<a>> /\ link = "up"
        /\ UNCHANGED <<gattcIf, connect, getServer, connId, service, charHandle,
                      scanner, link, conn, progress, advertising>>
    BY DEF Notify, Post, OnlyPosts, flags, handles, linkVars
  <1>2. /\ a \in EventRecords /\ a.type = "NOTIFY" /\ a.conn = conn
        /\ a.type \notin Unconnected
    BY DEF Event, EventRecords, EventTypes, Unconnected, TypeOK
  <1> HIDE DEF a
  <1>3. connect = TRUE /\ ~Posted("DISCONNECT")
    BY <1>1 DEF FlaggedUntilHandled
  <1>4. TypeOK'
    BY <1>1, <1>2, PostOne DEF TypeOK, EventRecords
  <1>5. Registered'
    BY <1>1, <1>2, PostedOne DEF Registered
  <1>6. ConnectFirst' /\ DisconnectLast' /\ OfLastConnection'
    BY <1>1, <1>2, <1>3, PostOne
  <1>7. FlaggedUntilHandled'
    BY <1>1, <1>2, <1>3, PostedOne DEF FlaggedUntilHandled
  <1>8. IdentifierKnown'
    BY <1>1, <1>2, PostedOne DEF IdentifierKnown
  <1>9. HandlesLearnt'
    BY <1>1, <1>2, PostedOne DEF HandlesLearnt
  <1> QED
    BY <1>4, <1>5, <1>6, <1>7, <1>8, <1>9

\* A disconnection is posted when the link is gone, and not before.
LEMMA LinkLostStep ==
  ASSUME BleInv, LinkLost
  PROVE  BleInv'
  <1> USE DEF BleInv
  <1> DEFINE a == Event("DISCONNECT", conn, TRUE)
  <1>1. /\ events' = events \o <<a>>
        /\ link = "up" /\ link' = "down" /\ progress' = "none"
        /\ UNCHANGED <<gattcIf, connect, getServer, connId, service, charHandle,
                      scanner, conn, advertising>>
    BY DEF LinkLost, Post, OnlyPosts, flags, handles
  <1>2. /\ a \in EventRecords /\ a.type = "DISCONNECT" /\ a.conn = conn
        /\ a.type \notin Unconnected
    BY DEF Event, EventRecords, EventTypes, Unconnected, TypeOK
  <1> HIDE DEF a
  <1>3. connect = TRUE /\ ~Posted("DISCONNECT")
    BY <1>1 DEF FlaggedUntilHandled
  <1>4. TypeOK'
    BY <1>1, <1>2, PostOne DEF TypeOK, EventRecords, Progress
  <1>5. Registered'
    BY <1>1, <1>2, PostedOne DEF Registered
  <1>6. ConnectFirst' /\ DisconnectLast' /\ OfLastConnection'
    BY <1>1, <1>2, <1>3, PostOne
  <1>7. FlaggedUntilHandled' /\ IdentifierKnown' /\ HandlesLearnt'
    BY <1>1, <1>3 DEF FlaggedUntilHandled, IdentifierKnown, HandlesLearnt
  <1> QED
    BY <1>4, <1>5, <1>6, <1>7

\* What leaves the queue, the link and the flags alone.
LEMMA QuietStep ==
  ASSUME BleInv, UNCHANGED <<flags, handles, events, linkVars>>,
         advertising' \in BOOLEAN, scanner' = scanner \/ scanner' = "off"
  PROVE  BleInv'
  <1> USE DEF BleInv, flags, handles, linkVars
  <1>1. TypeOK'
    BY DEF TypeOK
  <1>2. Registered'
    BY DEF Registered, Posted
  <1>3. ConnectFirst' /\ DisconnectLast' /\ OfLastConnection'
    BY DEF ConnectFirst, DisconnectLast, OfLastConnection
  <1>4. FlaggedUntilHandled'
    BY DEF FlaggedUntilHandled, Posted, NoneConnected
  <1>5. IdentifierKnown' /\ HandlesLearnt'
    BY DEF IdentifierKnown, HandlesLearnt, Posted
  <1> QED
    BY <1>1, <1>2, <1>3, <1>4, <1>5

-----------------------------------------------------------------------------
(* The invariant.                                                          *)

\* Only the registration is waiting when the client starts.
LEMMA InitBleInv ==
  ASSUME Init
  PROVE  BleInv
  <1>1. PICK ok \in Outcomes : events = <<>> \/ events = <<Event("REG", 0, ok)>>
    <2>1. events = <<>> \/ \E ok \in Outcomes : events = <<Event("REG", 0, ok)>>
      BY DEF Init
    <2>2. TRUE \in Outcomes
      BY DEF Outcomes
    <2> QED
      BY <2>1, <2>2
  <1>2. ok \in BOOLEAN
    BY BleAssumption DEF Outcomes
  <1>3. /\ events \in Seq([type : EventTypes, conn : Nat, ok : BOOLEAN])
        /\ \A i \in DOMAIN events : i = 1 /\ events[i].type = "REG" /\ events[i].conn = 0
    <2>1. CASE events = <<>>
      BY <2>1
    <2> DEFINE a == Event("REG", 0, ok)
    <2>2. CASE events = <<a>>
      <3>1. /\ a \in [type : EventTypes, conn : Nat, ok : BOOLEAN]
            /\ a.type = "REG" /\ a.conn = 0
        BY <1>2 DEF Event, EventTypes
      <3> HIDE DEF a
      <3> QED
        BY <2>2, <3>1
    <2> QED
      BY <1>1, <2>1, <2>2
  <1>4. NoneConnected
    BY <1>3 DEF NoneConnected, Unconnected
  <1>5. ConnectFirst /\ DisconnectLast /\ OfLastConnection
    BY <1>3 DEF ConnectFirst, DisconnectLast, OfLastConnection, Unconnected
  <1>6. TypeOK
    <2>1. gattcIf \in BOOLEAN /\ connect \in BOOLEAN /\ getServer \in BOOLEAN
      BY DEF Init
    <2>2. {connId, service, charHandle} \subseteq 0 .. conn /\ conn \in Nat
      BY DEF Init
    <2>3. /\ scanner = "off" /\ link = "down" /\ progress \in Progress
          /\ advertising \in BOOLEAN
      BY DEF Init, Progress
    <2> QED
      BY <1>3, <2>1, <2>2, <2>3 DEF TypeOK
  <1>7. Registered
    BY <1>3 DEF Init, Registered, Posted
  <1>8. FlaggedUntilHandled /\ IdentifierKnown /\ HandlesLearnt
    BY <1>4 DEF Init, FlaggedUntilHandled, IdentifierKnown, HandlesLearnt
  <1> QED
    BY <1>5, <1>6, <1>7, <1>8 DEF BleInv

\* A further advertisement changes nothing while there is a connection.
LEMMA ScanResultStep ==
  ASSUME BleInv, HandleScanResult
  PROVE  BleInv'
  <1>1. CASE connect # TRUE
    BY <1>1, OpenStep
  <1>2. CASE connect = TRUE
    <2>1. Note("SCAN_RESULT")
      BY <1>2 DEF HandleScanResult, OpenFlagging, Note, Handle, flags, handles
    <2> QED
      BY <2>1, NoteStep
  <1> QED
    BY <1>1, <1>2

\* Every step keeps the invariant.
LEMMA NextBleInv ==
  ASSUME BleInv, [Next]_vars
  PROVE  BleInv'
  <1>1. CASE Callback
    <2>1. CASE HandleOpen \/ HandleNotify \/ HandleWriteDescr
      BY <2>1, NoteStep DEF HandleOpen, HandleNotify, HandleWriteDescr
    <2> QED
      BY <1>1, <2>1, RegStep, ScanParamSetStep, ScanResultStep, ConnectStep,
         DisSrvcCmplStep, SearchResStep, SearchCmplStep, RegForNotifyStep,
         DisconnectStep DEF Callback
  <1>2. CASE ScanEnds \/ Advertise \/ UNCHANGED vars
    <2>1. /\ UNCHANGED <<flags, handles, events, linkVars>>
          /\ advertising' \in BOOLEAN /\ (scanner' = scanner \/ scanner' = "off")
      BY <1>2 DEF BleInv, TypeOK, ScanEnds, Advertise, vars
    <2> QED
      BY <2>1, QuietStep
  <1> QED
    BY <1>1, <1>2, HearStep, OpenSucceedsStep, OpenFailsStep, FinishStep,
       NotifyStep, LinkLostStep DEF Next

\* In every reachable state of the client, whatever the stack reports and in
\* whatever order the requests fail, the queue of the callbacks holds events of
\* the last connection only, in the order of that connection, and the flags and
\* handles are those it says.
THEOREM BleInvariance == Spec => []BleInv
  <1>1. Init => BleInv
    BY InitBleInv
  <1>2. BleInv /\ [Next]_vars => BleInv'
    BY NextBleInv
  <1> QED
    BY <1>1, <1>2, PTL DEF Spec

\* What the callbacks ask on a connection that is up they ask with the handles
\* learnt on it (HandleSearchCmpl, HandleRegForNotify, HandleWriteDescr).
THEOREM OwnHandles == Spec => []UsesOwnHandles
  <1>1. BleInv => UsesOwnHandles
    <2> SUFFICES ASSUME BleInv, events # <<>>, Current.ok, OnLink(Current.conn),
                        Current.type \in {"SEARCH_CMPL", "REG_FOR_NOTIFY", "WRITE_DESCR"}
                 PROVE  /\ Current.type = "SEARCH_CMPL" /\ getServer => service = conn
                        /\ Current.type \in {"REG_FOR_NOTIFY", "WRITE_DESCR"} =>
                             connId = conn /\ service = conn /\ charHandle = conn
      BY DEF UsesOwnHandles
    <2> USE DEF BleInv
    <2>1. /\ link = "up" /\ Posted(Current.type)
          /\ ~Posted("CONNECT")
      BY AtHead DEF OnLink, Unconnected
    <2>2. getServer => service = conn
      BY DEF FlaggedUntilHandled, TypeOK
    <2>3. connId = conn
      BY <2>1 DEF IdentifierKnown
    <2>4. Current.type \in {"REG_FOR_NOTIFY", "WRITE_DESCR"}
            => service = conn /\ charHandle = conn
      BY <2>1 DEF HandlesLearnt
    <2> QED
      BY <2>2, <2>3, <2>4
  <1> QED
    BY <1>1, BleInvariance, PTL

\* A connection is asked for by esp_gattc_cb alone, on an advertisement heard
\* while connect is not set, and then there is no link.
THEOREM OneConnectionKept == Spec => OneConnection
  <1>1. BleInv /\ [Next]_vars => [link # "down" => conn' = conn]_vars
    <2> SUFFICES ASSUME BleInv, Next, link # "down" PROVE conn' = conn
      OBVIOUS
    <2> USE DEF flags, handles, linkVars
    <2>1. connect = TRUE
      BY DEF BleInv, FlaggedUntilHandled
    <2>2. CASE Callback
      BY <2>1, <2>2 DEF Callback, HandleReg, RegisterKeeping, HandleScanParamSet,
         HandleScanResult, OpenFlagging, HandleConnect, HandleOpen, HandleNotify,
         HandleWriteDescr, Note, HandleDisSrvcCmpl, HandleSearchRes, HandleSearchCmpl,
         HandleRegForNotify, EnableOn, HandleDisconnect, Forget, Ask
    <2>3. CASE ~Callback
      BY <2>3 DEF Next, Hear, ScanEnds, OpenSucceeds, OpenFails, Finish, Notify,
         LinkLost, Advertise
    <2> QED
      BY <2>2, <2>3
  <1> QED
    BY <1>1, BleInvariance, PTL DEF Spec, OneConnection

\* Whatever leaves the client without a link leaves it with connect reset, or
\* with the event waiting that will reset it (HandleDisconnect), but for a
\* failed opening.
THEOREM BarredByFailure == Spec => OnlyFailureBars
  <1>1. BleInv /\ [Next]_vars => [Barred' => Barred \/ OpenFails]_vars
    <2> SUFFICES ASSUME BleInv, Next, Barred', ~OpenFails PROVE Barred
      BY DEF vars
    <2> USE DEF flags, handles, linkVars
    <2>1. TypeOK /\ connect' = TRUE /\ link' = "down" /\ ~Posted("DISCONNECT")'
      BY DEF BleInv, Barred
    <2>2. CASE Callback
      <3>1. /\ events # <<>> /\ Current.type # "DISCONNECT"
            /\ connect = TRUE /\ link = "down"
            /\ HandleReg \/ events' = Tail(events)
        BY <2>1, <2>2 DEF TypeOK, Callback, HandleReg, RegisterKeeping,
           HandleScanParamSet, HandleScanResult, OpenFlagging, HandleConnect,
           HandleOpen, HandleNotify, HandleWriteDescr, Note, HandleDisSrvcCmpl,
           HandleSearchRes, HandleSearchCmpl, HandleRegForNotify, EnableOn,
           HandleDisconnect, Forget, Ask, Handle
      <3> DEFINE r == Tail(events)
      <3>2. r \in Seq(EventRecords) /\ (PostedIn(r, "DISCONNECT") <=> Posted("DISCONNECT"))
        BY <2>1, <3>1, QueueTypes, Taking, TakingPosts DEF Current, Posted, PostedIn
      <3>3. PostedIn(events', "DISCONNECT") <=> PostedIn(r, "DISCONNECT")
        <4>1. CASE events' = r
          BY <4>1
        <4> DEFINE a == Event("SCAN_PARAM_SET", 0, TRUE)
        <4>2. CASE HandleReg /\ events' = r \o <<a>>
          <5>1. a \in EventRecords /\ a.type = "SCAN_PARAM_SET"
            BY DEF Event, EventRecords, EventTypes
          <5> HIDE DEF a, r
          <5> QED
            BY <3>2, <4>2, <5>1, AddingPosts
        <4>3. HandleReg => events' = r \o <<a>> \/ events' = r \o <<>>
          BY DEF HandleReg, RegisterKeeping
        <4>4. r \o <<>> = r
          <5> HIDE DEF r
          <5> QED
            BY <3>2, ConcatEmptySeq
        <4> QED
          BY <3>1, <4>1, <4>2, <4>3, <4>4
      <3>4. Posted("DISCONNECT")' <=> PostedIn(events', "DISCONNECT")
        BY DEF Posted, PostedIn
      <3> QED
        BY <2>1, <3>1, <3>2, <3>3, <3>4 DEF Barred
    <2>3. CASE Hear
      <3> DEFINE a == Event("SCAN_RESULT", 0, TRUE)
      <3>1. /\ events' = events \o <<a>>
            /\ UNCHANGED <<connect, link>>
        BY <2>3 DEF Hear, Post, OnlyPosts
      <3>2. a \in EventRecords /\ a.type = "SCAN_RESULT"
        BY DEF Event, EventRecords, EventTypes
      <3> HIDE DEF a
      <3> QED
        BY <2>1, <3>1, <3>2, PostedOne DEF Barred
    <2>4. CASE LinkLost
      <3> DEFINE a == Event("DISCONNECT", conn, TRUE)
      <3>1. events' = events \o <<a>>
        BY <2>4 DEF LinkLost, Post
      <3>2. a \in EventRecords /\ a.type = "DISCONNECT"
        BY <2>1 DEF Event, EventRecords, EventTypes, TypeOK
      <3> HIDE DEF a
      <3> QED
        BY <2>1, <3>1, <3>2, PostedOne
    <2>5. CASE ScanEnds \/ Advertise
      BY <2>1, <2>5 DEF ScanEnds, Advertise, Barred, Posted
    <2>6. CASE OpenSucceeds \/ Finish \/ Notify
      BY <2>1, <2>6 DEF OpenSucceeds, Finish, Notify
    <2> QED
      BY <2>2, <2>3, <2>4, <2>5, <2>6 DEF Next
  <1> QED
    BY <1>1, BleInvariance, PTL DEF Spec, OnlyFailureBars
=============================================================================
