------------------------- MODULE BrakePipelineProofs -------------------------
(***************************************************************************)
(* Proofs about BrakePipeline, for every length of window, episode and     *)
(* timeout, every number of samples and every schedule of the tasks.       *)
(*                                                                         *)
(* The argument looks at inFlight, the window followed by the queue.       *)
(* Receive leaves it alone, judging a window drops its first Window        *)
(* samples, Send appends to it or, the queue being full, opens a gap at    *)
(* its end.  As the queue is as long as a window, a gap that is opened     *)
(* while the window is empty or full lies between two windows.             *)
(***************************************************************************)
EXTENDS BrakePipeline, SequenceTheorems, TLAPS

\* The three parts of TypeOK that speak of sequences.
LEMMA QueueTypes ==
  ASSUME TypeOK
  PROVE  /\ arr \in Seq(Int) /\ processQueue \in Seq(Int)
         /\ Len(arr) \in Nat /\ Len(processQueue) \in Nat
         /\ \A i \in 1 .. Len(arr) : arr[i] \in Samples
         /\ \A i \in 1 .. Len(processQueue) : processQueue[i] \in Samples
  <1>1. arr \in Seq(Samples) /\ processQueue \in Seq(Samples)
    BY DEF TypeOK
  <1>2. Samples \subseteq Int
    BY DEF Samples
  <1>3. arr \in Seq(Int) /\ processQueue \in Seq(Int)
    BY <1>1, <1>2, SeqMonotonic
  <1>4. Len(arr) \in Nat /\ Len(processQueue) \in Nat
    BY <1>1, LenProperties
  <1>5. /\ \A i \in 1 .. Len(arr) : arr[i] \in Samples
        /\ \A i \in 1 .. Len(processQueue) : processQueue[i] \in Samples
    BY <1>1, ElementOfSeq
  <1> QED
    BY <1>3, <1>4, <1>5

\* inFlight, position by position.
LEMMA InFlightAt ==
  ASSUME TypeOK
  PROVE  /\ Len(inFlight) = Len(arr) + Len(processQueue)
         /\ \A i \in 1 .. Len(inFlight) :
               inFlight[i] = IF i <= Len(arr) THEN arr[i]
                             ELSE processQueue[i - Len(arr)]
  BY QueueTypes, ConcatProperties, Zenon DEF inFlight

KeepsUpInv == NoOverrun /\ FullQueueIsYoung

LEMMA InitPipelineInv == Init => PipelineInv
  <1> SUFFICES ASSUME Init PROVE PipelineInv
    OBVIOUS
  <1>0. /\ <<>> \in Seq(Samples) /\ Len(<<>>) = 0
        /\ 0 \in 0 .. TimeoutPeriods /\ 0 \in 0 .. HoldPeriods
        /\ 0 \in 0 .. MaxSeq /\ 0 <= 1 /\ 0 <= QueueLength /\ 0 < Window
    BY EmptySeq, PipelineAssumption DEF PipelineAssumption
  <1>1. TypeOK
    BY <1>0, Zenon DEF Init, TypeOK
  <1>2. Len(inFlight) = 0
    BY <1>1, InFlightAt DEF Init
  <1>3. SamplesInOrder /\ GapsAtWindowEnds
    BY <1>2, PipelineAssumption DEF SamplesInOrder, GapsAtWindowEnds, PipelineAssumption
  <1>4. UploadIsNewest /\ UploadsEverNewer
    BY DEF Init, UploadIsNewest, UploadsEverNewer, newest, NoSample
  <1>5. KeepsUpInv
    BY PipelineAssumption DEF Init, KeepsUpInv, NoOverrun, FullQueueIsYoung
  <1>6. LagKept
    <2>1. inFlight = <<>>
      BY EmptySeq, ConcatEmptySeq DEF Init, inFlight
    <2>2. coming \in 0 .. 1
      BY DEF coming
    <2> QED
      BY <1>2, <2>1, <2>2, PipelineAssumption
      DEF Init, LagKept, LagOutside, LagInside, PipelineAssumption
  <1> QED
    BY <1>1, <1>3, <1>4, <1>5, <1>6 DEF PipelineInv, KeepsUpInv

\* Every step preserves the types.
LEMMA NextTypeOK ==
  ASSUME TypeOK, Next PROVE TypeOK'
  <1> USE PipelineAssumption DEF PipelineAssumption, TypeOK, pollVars,
          detectorVars, uploadVars, observed
  <1>1. CASE Period
    <2>1. rdySem' \in BOOLEAN
      BY <1>1, Zenon DEF Period
    <2>2. waited' \in 0 .. TimeoutPeriods /\ held' \in 0 .. HoldPeriods
      BY <1>1 DEF Period
    <2> QED
      BY <1>1, <2>1, <2>2, Zenon DEF Period
  <1>2. CASE TakeReady \/ TimeOut \/ Reinit
    <2>1. rdySem' \in BOOLEAN
      BY <1>2, Zenon DEF TakeReady, TimeOut, Reinit, ReinitTo
    <2>2. waited' \in 0 .. TimeoutPeriods
      BY <1>2 DEF TakeReady, TimeOut, Reinit, ReinitTo
    <2> QED
      BY <1>2, <2>1, <2>2, Zenon DEF TakeReady, TimeOut, Reinit, ReinitTo
  <1>3. CASE Overwrite
    <2>1. uploadQueue' \in Seq(Samples) /\ Len(uploadQueue') = 1
      BY <1>3 DEF Overwrite, Samples
    <2> QED
      BY <1>3, <2>1 DEF Overwrite
  <1>4. CASE Send
    <2>1. seq \in Samples /\ seq' \in 0 .. MaxSeq
      BY <1>4 DEF Send, SendAs, Samples
    <2>2. processQueue' \in Seq(Samples) /\ Len(processQueue') <= QueueLength
      <3>1. /\ Append(processQueue, seq) \in Seq(Samples)
            /\ Len(Append(processQueue, seq)) = Len(processQueue) + 1
            /\ Len(processQueue) \in Nat
        BY <2>1, AppendProperties, LenProperties, Zenon
      <3>2. processQueue' \in {processQueue, Append(processQueue, seq)}
        BY <1>4 DEF Send, SendAs
      <3>3. CASE processQueue' = processQueue
        BY <3>3
      <3>4. CASE processQueue' = Append(processQueue, seq) /\ processQueue' # processQueue
        BY <1>4, <3>1, <3>4 DEF Send, SendAs
      <3> QED
        BY <3>2, <3>3, <3>4
    <2>3. overrun' \in BOOLEAN
      BY <1>4, Zenon DEF Send, SendAs
    <2>4. poll' = "wait"
      BY <1>4 DEF Send, SendAs
    <2> QED
      BY <1>4, <2>1, <2>2, <2>3, <2>4, Zenon DEF Send, SendAs
  <1>5. CASE Receive
    <2>1. /\ Head(processQueue) \in Samples /\ Tail(processQueue) \in Seq(Samples)
          /\ Len(Tail(processQueue)) = Len(processQueue) - 1
      BY <1>5, HeadTailProperties DEF Receive, ReceiveUpTo
    <2>2. arr' \in Seq(Samples) /\ Len(arr') = Len(arr) + 1
      BY <1>5, <2>1, AppendProperties DEF Receive, ReceiveUpTo
    <2>3. Len(arr) \in Nat /\ Len(processQueue) \in Nat
      BY LenProperties
    <2>4. Len(processQueue') <= QueueLength
      BY <1>5, <2>1, <2>3 DEF Receive, ReceiveUpTo
    <2>5. /\ detector' \in {"receive", "judge"}
          /\ IF detector' = "receive" THEN Len(arr') < Window ELSE Len(arr') = Window
      BY <1>5, <2>2, <2>3 DEF Receive, ReceiveUpTo
    <2> QED
      BY <1>5, <2>1, <2>2, <2>4, <2>5, Zenon DEF Receive, ReceiveUpTo
  <1>6. CASE JudgeBraking
    BY <1>6 DEF JudgeBraking
  <1>7. CASE JudgeNotBraking \/ HoldOver
    <2>1. arr' \in Seq(Samples) /\ Len(arr') < Window /\ detector' = "receive"
      <3>1. <<>> \in Seq(Samples) /\ Len(<<>>) < Window
        BY EmptySeq
      <3>2. arr' = <<>> /\ detector' = "receive"
        BY <1>7, Zenon DEF JudgeNotBraking, HoldOver, Restart
      <3> QED
        BY <3>1, <3>2
    <2> QED
      BY <1>7, <2>1, Zenon DEF JudgeNotBraking, HoldOver, Restart
  <1>8. CASE UploadReceive
    <2>1. message' \in Samples /\ uploadQueue' \in Seq(Samples) /\ Len(uploadQueue') <= 1
      BY <1>8, HeadTailProperties, EmptySeq DEF UploadReceive, UploadTake
    <2> QED
      BY <1>8, <2>1, Zenon DEF UploadReceive, UploadTake
  <1>9. CASE UploadSend
    <2>1. sent' \in Samples \cup {NoSample} /\ socket' \in BOOLEAN
      BY <1>9, Zenon DEF UploadSend
    <2> QED
      BY <1>9, <2>1, Zenon DEF UploadSend
  <1>10. CASE UploadStop
    BY <1>10, Zenon DEF UploadStop
  <1> QED
    BY <1>1, <1>2, <1>3, <1>4, <1>5, <1>6, <1>7, <1>8, <1>9, <1>10
    DEF Next, PollStep, DetectorStep, UploaderStep

-----------------------------------------------------------------------------
(* Order and gaps: one lemma for each way a step can change inFlight.      *)

FlightInv == SamplesInOrder /\ GapsAtWindowEnds

\* Moving the head of the queue to the end of the window.
LEMMA MoveHead ==
  ASSUME NEW a \in Seq(Int), NEW q \in Seq(Int), q # <<>>
  PROVE  Append(a, Head(q)) \o Tail(q) = a \o q
  <1> DEFINE b == Append(a, Head(q))
             r == Tail(q)
  <1>1. /\ Head(q) \in Int /\ r \in Seq(Int) /\ Len(r) = Len(q) - 1
        /\ \A i \in 1 .. Len(r) : r[i] = q[i + 1]
    BY HeadTailProperties
  <1>2. /\ b \in Seq(Int) /\ Len(b) = Len(a) + 1
        /\ \A i \in 1 .. Len(a) : b[i] = a[i]
        /\ b[Len(a) + 1] = Head(q)
    BY <1>1, AppendProperties
  <1>3. Head(q) = q[1] /\ Len(a) \in Nat /\ Len(q) \in Nat
    BY LenProperties
  <1> HIDE DEF b, r
  <1>4. /\ b \o r \in Seq(Int) /\ Len(b \o r) = Len(b) + Len(r)
        /\ \A i \in 1 .. Len(b) + Len(r) :
              (b \o r)[i] = IF i <= Len(b) THEN b[i] ELSE r[i - Len(b)]
    BY <1>1, <1>2, ConcatProperties
  <1>5. /\ a \o q \in Seq(Int) /\ Len(a \o q) = Len(a) + Len(q)
        /\ \A i \in 1 .. Len(a) + Len(q) :
              (a \o q)[i] = IF i <= Len(a) THEN a[i] ELSE q[i - Len(a)]
    BY ConcatProperties
  <1>6. Len(b \o r) = Len(a \o q)
    BY <1>1, <1>2, <1>3, <1>4, <1>5
  <1>7. \A i \in 1 .. Len(b \o r) : (b \o r)[i] = (a \o q)[i]
    <2> SUFFICES ASSUME NEW i \in 1 .. Len(a) + Len(q)
                 PROVE  (b \o r)[i] = (a \o q)[i]
      BY <1>5, <1>6
    <2>1. CASE i <= Len(a)
      <3>1. i <= Len(b) /\ i \in 1 .. Len(a)
        BY <1>2, <1>3, <2>1
      <3>2. i \in 1 .. Len(b) + Len(r) /\ i \in 1 .. Len(a) + Len(q)
        BY <1>1, <1>2, <1>3
      <3>3. (b \o r)[i] = b[i]
        BY <1>4, <3>1, <3>2
      <3>4. (a \o q)[i] = a[i]
        BY <1>5, <3>1, <3>2
      <3> QED
        BY <1>2, <3>1, <3>3, <3>4
    <2>2. CASE i = Len(a) + 1
      <3>1. i <= Len(b) /\ ~(i <= Len(a)) /\ i - Len(a) = 1
        BY <1>2, <1>3, <2>2
      <3>2. i \in 1 .. Len(b) + Len(r) /\ i \in 1 .. Len(a) + Len(q)
        BY <1>1, <1>2, <1>3
      <3>3. (b \o r)[i] = b[i]
        BY <1>4, <3>1, <3>2
      <3>4. (a \o q)[i] = q[1]
        BY <1>5, <3>1, <3>2
      <3> QED
        BY <1>2, <1>3, <2>2, <3>3, <3>4
    <2>3. CASE i > Len(a) + 1
      <3>1. /\ ~(i <= Len(b)) /\ ~(i <= Len(a))
            /\ i - Len(b) \in 1 .. Len(r) /\ (i - Len(b)) + 1 = i - Len(a)
        BY <1>1, <1>2, <1>3, <2>3
      <3>2. i \in 1 .. Len(b) + Len(r) /\ i \in 1 .. Len(a) + Len(q)
        BY <1>1, <1>2, <1>3
      <3>3. (b \o r)[i] = r[i - Len(b)]
        BY <1>4, <3>1, <3>2
      <3>4. (a \o q)[i] = q[i - Len(a)]
        BY <1>5, <3>1, <3>2
      <3> QED
        BY <1>1, <3>1, <3>3, <3>4
    <2>4. i <= Len(a) \/ i = Len(a) + 1 \/ i > Len(a) + 1
      BY <1>3
    <2> QED
      BY <2>1, <2>2, <2>3, <2>4, Zenon
  <1>8. b \o r = a \o q
    BY <1>4, <1>5, <1>6, <1>7, SeqEqual
  <1> QED
    BY <1>8 DEF b, r

\* A step that keeps inFlight and the sample count keeps order and gaps.
LEMMA SameFlight ==
  ASSUME FlightInv, inFlight' = inFlight, UNCHANGED <<seq, overrun>>
  PROVE  FlightInv'
  BY DEF FlightInv, SamplesInOrder, GapsAtWindowEnds

\* The window is judged and emptied: its samples leave inFlight, and what
\* follows it becomes the beginning of the next window.
LEMMA WindowDone ==
  ASSUME TypeOK, FlightInv, Len(arr) = Window, arr' = <<>>,
         UNCHANGED <<processQueue, seq, overrun>>
  PROVE  FlightInv'
  <1> USE PipelineAssumption DEF PipelineAssumption
  <1>1. inFlight' = processQueue
    BY QueueTypes, ConcatEmptySeq DEF inFlight
  <1>a. Len(processQueue) \in Nat /\ Len(processQueue) <= Window
    BY QueueTypes, Zenon DEF TypeOK, PipelineAssumption
  <1>b. Len(inFlight) = Window + Len(processQueue)
    BY InFlightAt, Zenon
  <1>2. /\ Len(inFlight) = Window + Len(processQueue)
        /\ Len(processQueue) \in Nat /\ Len(processQueue) <= Window
    BY <1>a, <1>b
  <1>3. \A i \in 1 .. Len(processQueue) :
           /\ processQueue[i] \in Int
           /\ processQueue[i] = inFlight[i + Window]
    <2> SUFFICES ASSUME NEW i \in 1 .. Len(processQueue)
                 PROVE  /\ processQueue[i] \in Int
                        /\ processQueue[i] = inFlight[i + Window]
      OBVIOUS
    <2>1. processQueue[i] \in Int
      BY QueueTypes DEF Samples
    <2>2. /\ i + Window \in 1 .. Len(inFlight)
          /\ ~(i + Window <= Window) /\ (i + Window) - Window = i
      BY <1>2
    <2>3. inFlight[i + Window] = IF i + Window <= Len(arr) THEN arr[i + Window]
                                 ELSE processQueue[(i + Window) - Len(arr)]
      BY <2>2, InFlightAt, Zenon
    <2> QED
      BY <2>1, <2>2, <2>3
  <1>4. seq \in Int
    BY DEF TypeOK
  <1> DEFINE q == processQueue
             f == inFlight
  <1>5. SamplesInOrder'
    <2> SUFFICES ASSUME NEW i \in 1 .. Len(q)
                 PROVE  /\ \A j \in 1 .. i - 1 : q[j] < q[i]
                        /\ q[i] < seq
      BY <1>1 DEF SamplesInOrder
    <2>1. i + Window \in 1 .. Len(f)
      BY <1>2
    <2>2. f[i + Window] < seq
      BY <2>1 DEF FlightInv, SamplesInOrder
    <2>3. ASSUME NEW j \in 1 .. i - 1 PROVE q[j] < q[i]
      <3>1. j + Window \in 1 .. (i + Window) - 1 /\ j \in 1 .. Len(q)
        BY <1>2
      <3>2. f[j + Window] < f[i + Window]
        BY <2>1, <3>1 DEF FlightInv, SamplesInOrder
      <3> QED
        BY <1>3, <3>1, <3>2
    <2> QED
      BY <1>3, <2>2, <2>3
  <1>6. GapsAtWindowEnds'
    <2> SUFFICES ASSUME ~overrun
                 PROVE  /\ \A i \in 1 .. Len(q) - 1 :
                              i # Window => q[i + 1] = q[i] + 1
                        /\ Len(q) \notin {0, Window, 2 * Window}
                              => seq = q[Len(q)] + 1
      BY <1>1 DEF GapsAtWindowEnds
    <2>1. ASSUME NEW i \in 1 .. Len(q) - 1 PROVE q[i + 1] = q[i] + 1
      <3>1. /\ i + Window \in 1 .. Len(f) - 1 /\ i + Window # Window
            /\ i \in 1 .. Len(q) /\ i + 1 \in 1 .. Len(q)
        BY <1>2
      <3>2. f[(i + Window) + 1] = f[i + Window] + 1
        BY <3>1 DEF FlightInv, GapsAtWindowEnds
      <3>3. (i + Window) + 1 = (i + 1) + Window
        OBVIOUS
      <3> QED
        BY <1>3, <3>1, <3>2, <3>3
    <2>2. ASSUME Len(q) \notin {0, Window, 2 * Window} PROVE seq = q[Len(q)] + 1
      <3>1. Len(f) \notin {0, Window, 2 * Window} /\ Len(q) \in 1 .. Len(q)
        BY <1>2, <2>2
      <3>2. seq = f[Len(f)] + 1
        BY <3>1 DEF FlightInv, GapsAtWindowEnds
      <3>3. f[Len(f)] = q[Len(q)]
        BY <1>2, <1>3, <3>1
      <3> QED
        BY <3>2, <3>3
    <2> QED
      BY <2>1, <2>2
  <1> QED
    BY <1>5, <1>6 DEF FlightInv

\* The sample just read joins the queue.
LEMMA SampleQueued ==
  ASSUME TypeOK, FlightInv, Len(processQueue) < QueueLength,
         processQueue' = Append(processQueue, seq), seq' = seq + 1,
         UNCHANGED <<arr, overrun>>
  PROVE  FlightInv'
  <1> USE PipelineAssumption DEF PipelineAssumption
  <1> DEFINE f == inFlight
             g == Append(f, seq)
  <1>0. seq \in Int /\ Len(arr) \in Nat /\ Len(processQueue) \in Nat
        /\ Len(arr) <= Window
    BY QueueTypes DEF TypeOK
  <1>1. inFlight' = g
    <2>1. arr \o Append(processQueue, seq) = Append(arr \o processQueue, seq)
      BY <1>0, QueueTypes, AppendIsConcat, ConcatAssociative, ConcatProperties,
         AppendProperties
    <2> QED
      BY <2>1 DEF inFlight
  <1>2. f \in Seq(Int) /\ Len(f) \in Nat /\ Len(f) < 2 * Window
    BY <1>0, QueueTypes, InFlightAt, ConcatProperties DEF inFlight
  <1> HIDE DEF f
  <1>3. /\ g \in Seq(Int) /\ Len(g) = Len(f) + 1 /\ g[Len(f) + 1] = seq
        /\ \A i \in 1 .. Len(f) : g[i] = f[i]
    BY <1>0, <1>2, AppendProperties
  <1> HIDE DEF g
  <1>4. SamplesInOrder'
    <2> SUFFICES ASSUME NEW i \in 1 .. Len(g)
                 PROVE  /\ \A j \in 1 .. i - 1 : g[j] < g[i]
                        /\ g[i] < seq + 1
      BY <1>1 DEF SamplesInOrder
    <2>1. \A k \in 1 .. Len(f) : /\ \A j \in 1 .. k - 1 : f[j] < f[k]
                                 /\ f[k] < seq
      BY DEF f, FlightInv, SamplesInOrder
    <2>2. \A k \in 1 .. Len(f) : f[k] \in Int
      BY <1>2, ElementOfSeq
    <2>3. CASE i \in 1 .. Len(f)
      <3>1. g[i] = f[i] /\ f[i] \in Int /\ f[i] < seq
        BY <1>3, <2>1, <2>2, <2>3
      <3>2. ASSUME NEW j \in 1 .. i - 1 PROVE g[j] < g[i]
        <4>1. j \in 1 .. Len(f)
          BY <1>2, <2>3
        <4> QED
          BY <1>3, <2>1, <2>3, <3>1, <4>1
      <3> QED
        BY <1>0, <3>1, <3>2
    <2>4. CASE i = Len(f) + 1
      <3>1. g[i] = seq
        BY <1>3, <2>4
      <3>2. ASSUME NEW j \in 1 .. i - 1 PROVE g[j] < g[i]
        <4>1. j \in 1 .. Len(f)
          BY <1>2, <2>4
        <4> QED
          BY <1>3, <2>1, <3>1, <4>1
      <3> QED
        BY <1>0, <3>1, <3>2
    <2> QED
      BY <1>2, <1>3, <2>3, <2>4
  <1>5. GapsAtWindowEnds'
    <2> SUFFICES ASSUME ~overrun
                 PROVE  /\ \A i \in 1 .. Len(g) - 1 :
                              i # Window => g[i + 1] = g[i] + 1
                        /\ seq + 1 = g[Len(g)] + 1
      BY <1>1 DEF GapsAtWindowEnds
    <2>1. /\ \A i \in 1 .. Len(f) - 1 : i # Window => f[i + 1] = f[i] + 1
          /\ Len(f) \notin {0, Window, 2 * Window} => seq = f[Len(f)] + 1
      BY DEF f, FlightInv, GapsAtWindowEnds
    <2>2. ASSUME NEW i \in 1 .. Len(g) - 1, i # Window PROVE g[i + 1] = g[i] + 1
      <3>1. CASE i = Len(f)
        <4>1. Len(f) \notin {0, Window, 2 * Window}
          BY <1>2, <2>2, <3>1
        <4> QED
          BY <1>3, <2>1, <3>1, <4>1
      <3>2. CASE i \in 1 .. Len(f) - 1
        <4>1. i \in 1 .. Len(f) /\ i + 1 \in 1 .. Len(f)
          BY <1>2, <3>2
        <4> QED
          BY <1>3, <2>1, <2>2, <3>2, <4>1
      <3> QED
        BY <1>2, <1>3, <3>1, <3>2
    <2> QED
      BY <1>3, <2>2
  <1> QED
    BY <1>4, <1>5 DEF FlightInv

\* The queue is full and the sample is lost: what is in flight ends with a
\* window unless the detector was in the middle of one.
LEMMA SampleDropped ==
  ASSUME TypeOK, FlightInv, Len(processQueue) = QueueLength, seq' = seq + 1,
         overrun' = (overrun \/ PartFilled), UNCHANGED <<arr, processQueue>>
  PROVE  FlightInv'
  <1> USE PipelineAssumption DEF PipelineAssumption
  <1>1. inFlight' = inFlight
    BY DEF inFlight
  <1>2. SamplesInOrder'
    <2>1. \A i \in 1 .. Len(inFlight) : inFlight[i] \in Int
      <3>1. inFlight \in Seq(Int)
        BY QueueTypes, ConcatProperties, Zenon DEF inFlight
      <3> QED
        BY <3>1, ElementOfSeq
    <2>2. seq \in Int
      BY DEF TypeOK
    <2> QED
      BY <1>1, <2>1, <2>2 DEF FlightInv, SamplesInOrder
  <1>3. GapsAtWindowEnds'
    <2>1. CASE overrun \/ PartFilled
      <3>1. overrun'
        BY <2>1, Zenon
      <3> QED
        BY <3>1 DEF GapsAtWindowEnds
    <2>2. CASE ~(overrun \/ PartFilled)
      <3>1. Len(arr) \in {0, Window} /\ ~overrun
        BY <2>2 DEF PartFilled
      <3>2. Len(inFlight) = Len(arr) + Window
        BY InFlightAt, Zenon
      <3>3. Len(inFlight) \in {Window, 2 * Window}
        BY <3>1, <3>2
      <3> QED
        BY <1>1, <3>1, <3>3 DEF FlightInv, GapsAtWindowEnds
    <2> QED
      BY <2>1, <2>2
  <1> QED
    BY <1>2, <1>3 DEF FlightInv

\* Every step preserves order and gaps.
LEMMA NextFlight ==
  ASSUME TypeOK, FlightInv, Next PROVE FlightInv'
  <1> USE DEF pollVars, detectorVars, uploadVars, observed
  <1>1. ASSUME UNCHANGED <<arr, processQueue, seq, overrun>> PROVE FlightInv'
    BY <1>1, SameFlight DEF inFlight
  <1>2. CASE Period
    BY <1>1, <1>2 DEF Period
  <1>3. CASE TakeReady \/ TimeOut \/ Reinit \/ Overwrite
    BY <1>1, <1>3 DEF TakeReady, TimeOut, Reinit, ReinitTo, Overwrite
  <1>4. CASE Send
    <2>1. CASE Len(processQueue) < QueueLength
      BY <1>4, <2>1, SampleQueued DEF Send, SendAs
    <2>2. CASE Len(processQueue) = QueueLength
      BY <1>4, <2>2, SampleDropped DEF Send, SendAs
    <2> QED
      BY <1>4, <2>1, <2>2 DEF Send, SendAs
  <1>5. CASE Receive
    <2>1. Append(arr, Head(processQueue)) \o Tail(processQueue) = arr \o processQueue
      BY <1>5, QueueTypes, MoveHead DEF Receive, ReceiveUpTo
    <2>2. inFlight' = inFlight
      BY <1>5, <2>1 DEF Receive, ReceiveUpTo, inFlight
    <2> QED
      BY <1>5, <2>2, SameFlight DEF Receive, ReceiveUpTo
  <1>6. CASE JudgeBraking
    BY <1>1, <1>6 DEF JudgeBraking
  <1>7. CASE JudgeNotBraking \/ HoldOver
    <2>1. Len(arr) = Window
      BY <1>7 DEF TypeOK, JudgeNotBraking, HoldOver, Restart
    <2> QED
      BY <1>7, <2>1, WindowDone DEF JudgeNotBraking, HoldOver, Restart
  <1>8. CASE UploadReceive \/ UploadSend \/ UploadStop
    BY <1>1, <1>8 DEF UploadReceive, UploadTake, UploadSend, UploadStop
  <1> QED
    BY <1>2, <1>3, <1>4, <1>5, <1>6, <1>7, <1>8
    DEF Next, PollStep, DetectorStep, UploaderStep

-----------------------------------------------------------------------------
(* The uploads.                                                            *)

UploadInv == UploadIsNewest /\ UploadsEverNewer

LEMMA NextUpload ==
  ASSUME TypeOK, UploadInv, Next PROVE UploadInv'
  <1> USE DEF UploadInv, UploadIsNewest, UploadsEverNewer, newest,
              pollVars, detectorVars, uploadVars, observed
  <1>1. seq \in Int /\ sent \in Int /\ message \in Int
    BY DEF TypeOK, Samples, NoSample
  <1>2. CASE Period
    BY <1>2 DEF Period
  <1>3. CASE TakeReady \/ TimeOut \/ Reinit
    BY <1>3 DEF TakeReady, TimeOut, Reinit, ReinitTo
  <1>4. CASE Overwrite
    BY <1>1, <1>4 DEF Overwrite
  <1>5. CASE Send
    BY <1>1, <1>5 DEF Send, SendAs
  <1>6. CASE DetectorStep
    BY <1>6 DEF DetectorStep, Receive, ReceiveUpTo, JudgeBraking,
                JudgeNotBraking, HoldOver, Restart
  <1>7. CASE UploadReceive
    <2>1. message' = uploadQueue[1]
      BY <1>7 DEF UploadReceive, UploadTake, TypeOK
    <2> QED
      BY <1>1, <1>7, <2>1 DEF UploadReceive, UploadTake
  <1>8. CASE UploadSend
    BY <1>1, <1>8 DEF UploadSend
  <1>9. CASE UploadStop
    BY <1>1, <1>9 DEF UploadStop
  <1> QED
    BY <1>2, <1>3, <1>4, <1>5, <1>6, <1>7, <1>8, <1>9
    DEF Next, PollStep, UploaderStep

-----------------------------------------------------------------------------
(* The detector that keeps up.  A period or a read that finds the queue     *)
(* full in mid-window makes it late, and a timeout needs a period first.    *)

LEMMA NextKeepsUp ==
  ASSUME TypeOK, KeepsUpInv, Next PROVE KeepsUpInv'
  <1> USE PipelineAssumption DEF PipelineAssumption, KeepsUpInv, NoOverrun,
          FullQueueIsYoung, pollVars, detectorVars, uploadVars, observed
  <1>0. /\ Len(arr) \in Nat /\ Len(processQueue) \in Nat
        /\ late \in BOOLEAN /\ overrun \in BOOLEAN /\ waited \in Nat
    BY QueueTypes DEF TypeOK
  <1>1. PartFilled /\ Len(processQueue) = QueueLength => Behind
    <2> SUFFICES ASSUME PartFilled, Len(processQueue) = QueueLength PROVE Behind
      OBVIOUS
    <2>1. detector = "receive"
      BY DEF TypeOK, PartFilled
    <2>2. processQueue # <<>>
      <3>1. Len(<<>>) = 0 /\ QueueLength # 0
        BY EmptySeq
      <3> QED
        BY <3>1, Zenon
    <2> QED
      BY <2>1, <2>2 DEF Behind
  <1>2. CASE Period
    <2>1. late' = (late \/ Behind)
      BY <1>2 DEF Period
    <2>2. UNCHANGED <<poll, arr, processQueue, overrun>>
      BY <1>2 DEF Period
    <2>3. waited' # waited => poll = "wait"
      BY <1>2 DEF Period
    <2> QED
      BY <1>1, <2>1, <2>2, <2>3 DEF PartFilled
  <1>3. CASE TakeReady
    BY <1>1, <1>3 DEF TakeReady, PartFilled
  <1>4. CASE TimeOut
    <2>1. waited # 0
      BY <1>0, <1>4 DEF TimeOut
    <2> QED
      BY <1>4, <2>1 DEF TimeOut, PartFilled
  <1>5. CASE Reinit \/ Overwrite
    BY <1>5 DEF Reinit, ReinitTo, Overwrite, PartFilled
  <1>6. CASE Send
    <2>1. overrun' => late
      BY <1>6 DEF Send, SendAs
    <2>2. poll' = "wait" /\ waited' = 0 /\ late' = late
      BY <1>6 DEF Send, SendAs
    <2> QED
      BY <2>1, <2>2
  <1>7. CASE Receive
    <2>1. Len(processQueue') = Len(processQueue) - 1
      BY <1>7, QueueTypes, HeadTailProperties DEF Receive, ReceiveUpTo
    <2>2. Len(processQueue') # QueueLength
      BY <1>0, <2>1 DEF TypeOK
    <2> QED
      BY <1>7, <2>2 DEF Receive, ReceiveUpTo
  <1>8. CASE JudgeBraking
    BY <1>8 DEF JudgeBraking, PartFilled
  <1>9. CASE JudgeNotBraking \/ HoldOver
    <2>1. Len(arr') = 0
      BY <1>9, EmptySeq DEF JudgeNotBraking, HoldOver, Restart
    <2> QED
      BY <1>9, <2>1 DEF JudgeNotBraking, HoldOver, Restart, PartFilled
  <1>10. CASE UploadReceive \/ UploadSend \/ UploadStop
    BY <1>10
    DEF UploadReceive, UploadTake, UploadSend, UploadStop, PartFilled
  <1> QED
    BY <1>2, <1>3, <1>4, <1>5, <1>6, <1>7, <1>8, <1>9, <1>10
    DEF Next, PollStep, DetectorStep, UploaderStep

-----------------------------------------------------------------------------
(* The lag.  A detector that is not late finds at most one sample, the      *)
(* newest, when it has filled a window; an episode then adds one a period.  *)

\* The sample just read joins what is in flight.
LEMMA FlightGrows ==
  ASSUME TypeOK, processQueue' = Append(processQueue, seq), UNCHANGED arr
  PROVE  /\ inFlight \in Seq(Int) /\ Len(inFlight) \in Nat
         /\ Len(inFlight') = Len(inFlight) + 1
         /\ inFlight'[Len(inFlight) + 1] = seq
         /\ \A i \in 1 .. Len(inFlight) : inFlight'[i] = inFlight[i]
  <1>1. seq \in Int
    BY DEF TypeOK
  <1>2. inFlight \in Seq(Int) /\ Len(inFlight) \in Nat
    BY QueueTypes, ConcatProperties, LenProperties, Zenon DEF inFlight
  <1>3. arr \o Append(processQueue, seq) = Append(arr \o processQueue, seq)
    BY <1>1, QueueTypes, AppendIsConcat, ConcatAssociative, ConcatProperties,
       AppendProperties
  <1>4. inFlight' = Append(inFlight, seq)
    BY <1>3 DEF inFlight
  <1> QED
    BY <1>1, <1>2, <1>4, AppendProperties

\* The oldest sample in flight, which is in the window unless that is empty.
LEMMA OldestInFlight ==
  ASSUME TypeOK
  PROVE  /\ inFlight \in Seq(Int) /\ Len(inFlight) \in Nat
         /\ \A i \in 1 .. Len(inFlight) : inFlight[i] \in Int
         /\ processQueue # <<>> => Len(processQueue) > 0
         /\ Len(arr) > 0 => Len(inFlight) > 0 /\ inFlight[1] = arr[1]
         /\ detector # "receive" /\ Len(processQueue) > 0
              => inFlight[Window + 1] = processQueue[1]
  <1>1. /\ inFlight \in Seq(Int) /\ arr \in Seq(Int) /\ processQueue \in Seq(Int)
    BY QueueTypes, ConcatProperties, Zenon DEF inFlight
  <1>2. /\ Len(inFlight) \in Nat /\ Len(arr) \in Nat /\ Len(processQueue) \in Nat
        /\ processQueue # <<>> => Len(processQueue) > 0
    BY <1>1, EmptySeq, LenProperties
  <1>3. \A i \in 1 .. Len(inFlight) : inFlight[i] \in Int
    BY <1>1, ElementOfSeq
  <1>4. /\ Len(inFlight) = Len(arr) + Len(processQueue)
        /\ \A i \in 1 .. Len(inFlight) :
              inFlight[i] = IF i <= Len(arr) THEN arr[i]
                            ELSE processQueue[i - Len(arr)]
    BY InFlightAt
  <1>5. Len(arr) > 0 => Len(inFlight) > 0 /\ inFlight[1] = arr[1]
    BY <1>2, <1>4
  <1>6. detector # "receive" => Len(arr) = Window
    BY DEF TypeOK
  <1>7. detector # "receive" /\ Len(processQueue) > 0
          => inFlight[Window + 1] = processQueue[1]
    BY <1>2, <1>4, <1>6
  <1> QED
    BY <1>1, <1>2, <1>3, <1>5, <1>7

\* The lag in numbers: how many samples are in flight and in the queue, and
\* which is the oldest there and which follows the window.
flying == Len(inFlight)
oldest == inFlight[1]
following == inFlight[Window + 1]
queued == Len(processQueue)
oldestQueued == processQueue[1]

Outside ==
  /\ flying + coming <= Window + 1
  /\ flying > Window => following = seq - 1
  /\ flying > 0 /\ seq - oldest # flying =>
        /\ flying >= Window
        /\ seq - oldest + coming <= HoldPeriods + Window + 1

Inside ==
  queued > 0 =>
    /\ seq - oldestQueued + reading + due <= held + 2
    /\ queued < Window => seq - oldestQueued = queued

LEMMA LagParts ==
  /\ LagOutside <=> (detector # "hold" => Outside)
  /\ LagInside <=> (detector = "hold" => Inside)
  BY Zenon DEF LagOutside, LagInside, Outside, Inside,
     flying, oldest, following, queued, oldestQueued

LEMMA LagPartsNext ==
  /\ LagOutside' <=> (detector' # "hold" => Outside')
  /\ LagInside' <=> (detector' = "hold" => Inside')
  BY Zenon DEF LagOutside, LagInside, Outside, Inside,
     flying, oldest, following, queued, oldestQueued

LEMMA LagTypes ==
  ASSUME TypeOK
  PROVE  /\ flying \in Nat /\ queued \in Nat /\ queued <= Window
         /\ detector = "receive" => flying < Window + queued
         /\ detector # "receive" => flying = Window + queued
         /\ flying >= queued
         /\ flying > 0 => oldest \in Int
         /\ queued > 0 => oldestQueued \in Int
         /\ detector # "receive" /\ queued > 0 => following = oldestQueued
         /\ processQueue = <<>> => queued = 0
         /\ seq \in Int /\ held \in Int /\ 0 <= held /\ held <= HoldPeriods
         /\ reading \in 0 .. 1 /\ due \in 0 .. 1 /\ coming \in 0 .. 1
         /\ coming <= reading + due /\ (coming = 0 => reading = 0)
  <1> USE PipelineAssumption DEF PipelineAssumption
  <1>1. /\ Len(arr) \in Nat /\ Len(processQueue) \in Nat
        /\ Len(inFlight) = Len(arr) + Len(processQueue)
    BY QueueTypes, InFlightAt
  <1>2. /\ Len(processQueue) <= Window
        /\ detector = "receive" => Len(arr) < Window
        /\ detector # "receive" => Len(arr) = Window
    BY DEF TypeOK
  <1>3. /\ flying \in Nat /\ queued \in Nat /\ queued <= Window
        /\ detector = "receive" => flying < Window + queued
        /\ detector # "receive" => flying = Window + queued
        /\ flying >= queued
    BY <1>1, <1>2 DEF flying, queued
  <1>4. flying > 0 => oldest \in Int
    BY <1>1, OldestInFlight DEF flying, oldest
  <1>5. queued > 0 => oldestQueued \in Int
    BY <1>1, QueueTypes DEF queued, oldestQueued, Samples
  <1>6. detector # "receive" /\ queued > 0 => following = oldestQueued
    BY OldestInFlight DEF following, queued, oldestQueued
  <1>7. processQueue = <<>> => queued = 0
    BY EmptySeq DEF queued
  <1>8. seq \in Int /\ held \in Int /\ 0 <= held /\ held <= HoldPeriods
    BY DEF TypeOK
  <1>9. /\ reading \in 0 .. 1 /\ due \in 0 .. 1 /\ coming \in 0 .. 1
        /\ coming <= reading + due /\ (coming = 0 => reading = 0)
    BY DEF reading, due, coming
  <1> QED
    BY <1>3, <1>4, <1>5, <1>6, <1>7, <1>8, <1>9

\* A sample is read and finds room, or does not.
LEMMA SampleAdds ==
  ASSUME TypeOK, Len(processQueue) < QueueLength,
         processQueue' = Append(processQueue, seq), UNCHANGED arr
  PROVE  /\ flying' = flying + 1 /\ queued' = queued + 1
         /\ oldest' = (IF flying = 0 THEN seq ELSE oldest)
         /\ oldestQueued' = (IF queued = 0 THEN seq ELSE oldestQueued)
         /\ flying = Window => following' = seq
  <1> USE PipelineAssumption DEF PipelineAssumption
  <1>1. /\ inFlight \in Seq(Int) /\ Len(inFlight) \in Nat
        /\ Len(inFlight') = Len(inFlight) + 1
        /\ inFlight'[Len(inFlight) + 1] = seq
        /\ \A i \in 1 .. Len(inFlight) : inFlight'[i] = inFlight[i]
    BY FlightGrows
  <1>2. /\ Len(processQueue) \in Nat
        /\ Len(processQueue') = Len(processQueue) + 1
        /\ processQueue'[Len(processQueue) + 1] = seq
        /\ \A i \in 1 .. Len(processQueue) : processQueue'[i] = processQueue[i]
    <2>1. seq \in Int
      BY DEF TypeOK
    <2> QED
      BY <2>1, QueueTypes, AppendProperties
  <1>3. flying' = flying + 1 /\ queued' = queued + 1
    BY <1>1, <1>2 DEF flying, queued
  <1>4. oldest' = (IF flying = 0 THEN seq ELSE oldest)
    BY <1>1 DEF flying, oldest
  <1>5. oldestQueued' = (IF queued = 0 THEN seq ELSE oldestQueued)
    BY <1>2 DEF queued, oldestQueued
  <1>6. flying = Window => following' = seq
    BY <1>1 DEF flying, following
  <1> QED
    BY <1>3, <1>4, <1>5, <1>6

\* The window is dropped: what is in flight is the queue.
LEMMA QueueIsFlight ==
  ASSUME TypeOK, arr' = <<>>, UNCHANGED processQueue
  PROVE  flying' = queued /\ oldest' = oldestQueued
  <1>1. inFlight' = processQueue
    BY QueueTypes, ConcatEmptySeq DEF inFlight
  <1> QED
    BY <1>1 DEF flying, oldest, queued, oldestQueued

LEMMA SameLag ==
  ASSUME UNCHANGED <<inFlight, processQueue>>
  PROVE  UNCHANGED <<flying, oldest, following, queued, oldestQueued>>
  BY DEF flying, oldest, following, queued, oldestQueued

LEMMA Balance ==
  ASSUME NEW a \in Int, NEW b \in Int, NEW r \in Int, NEW d \in Int, NEW h \in Int,
         NEW s \in Int, NEW e \in Int, NEW k \in Int,
         a - b + r + d <= h + 2, s + e + h <= r + d + k
  PROVE  a - b + s + e <= k + 2
  OBVIOUS

\* A period or a read: the detector is not behind, so it has an empty queue
\* or is in an episode that goes on.
LEMMA LagWaiting ==
  ASSUME TypeOK, FullQueueIsYoung, LagKept, Period \/ TakeReady
  PROVE  LagKept'
  <1> USE PipelineAssumption DEF PipelineAssumption
  <1> SUFFICES ASSUME ~late' PROVE LagOutside' /\ LagInside'
    BY DEF LagKept
  <1>1. /\ ~late /\ ~Behind
        /\ UNCHANGED <<arr, processQueue, seq, detector>>
    BY DEF Period, TakeReady, detectorVars
  <1>2. UNCHANGED <<flying, oldest, following, queued, oldestQueued>>
    BY <1>1, SameLag DEF inFlight
  <1>3. LagOutside /\ LagInside
    BY <1>1 DEF LagKept
  <1>4. CASE detector = "receive"
    <2>1. flying < Window
      BY <1>1, <1>4, LagTypes DEF Behind
    <2>2. Outside /\ coming' \in 0 .. 1
      BY <1>3, <1>4, LagParts DEF coming
    <2>3. Outside'
      BY <1>1, <1>2, <2>1, <2>2, LagTypes DEF Outside
    <2> QED
      BY <1>1, <1>4, <2>3, LagPartsNext
  <1>5. CASE detector = "hold"
    <2>1. held < HoldPeriods
      BY <1>1, <1>5, LagTypes DEF Behind
    <2>2. /\ held' \in Int /\ reading' \in 0 .. 1 /\ due' \in 0 .. 1
          /\ reading' + due' + held <= reading + due + held'
      <3>1. CASE Period
        <4>1. held' = held + 1 /\ reading' = reading /\ due' \in 0 .. 1
          BY <1>5, <2>1, <3>1 DEF Period, reading, due
        <4> QED
          BY <4>1, LagTypes
      <3>2. CASE TakeReady
        <4>1. held' = held /\ reading = 0 /\ due = 1 /\ reading' = 1 /\ due' = 0
          BY <3>2 DEF TakeReady, detectorVars, reading, due
        <4> QED
          BY <4>1, LagTypes
      <3> QED
        BY <3>1, <3>2
    <2>3. Inside
      BY <1>3, <1>5, LagParts
    <2>4. ASSUME queued > 0
          PROVE  /\ seq - oldestQueued + reading' + due' <= held' + 2
                 /\ queued < Window => seq - oldestQueued = queued
      <3>1. /\ seq - oldestQueued + reading + due <= held + 2
            /\ queued < Window => seq - oldestQueued = queued
        BY <2>3, <2>4 DEF Inside
      <3>2. /\ seq \in Int /\ oldestQueued \in Int /\ held \in Int
            /\ reading \in Int /\ due \in Int
        BY <2>4, LagTypes
      <3>3. /\ held' \in Int /\ reading' \in Int /\ due' \in Int
            /\ reading' + due' + held <= reading + due + held'
        BY <2>2
      <3>4. seq - oldestQueued + reading' + due' <= held' + 2
        BY <3>1, <3>2, <3>3, Balance
      <3> QED
        BY <3>1, <3>4
    <2>5. Inside'
      BY <1>1, <1>2, <2>4 DEF Inside
    <2> QED
      BY <1>1, <1>5, <2>5, LagPartsNext
  <1> QED
    BY <1>1, <1>4, <1>5 DEF TypeOK, Behind

\* A timeout, the reading of the sample and its upload: the read that was due
\* is under way.
LEMMA LagReading ==
  ASSUME TypeOK, FullQueueIsYoung, LagKept, TimeOut \/ Reinit \/ Overwrite
  PROVE  LagKept'
  <1> USE PipelineAssumption DEF PipelineAssumption
  <1>1. UNCHANGED <<arr, processQueue, seq, detector, held, late>>
    BY DEF TimeOut, Reinit, ReinitTo, Overwrite, detectorVars, observed
  <1>2. UNCHANGED <<flying, oldest, following, queued, oldestQueued>>
    BY <1>1, SameLag DEF inFlight
  <1>3. /\ coming' = coming /\ reading' + due' <= reading + due
        /\ reading' \in 0 .. 1 /\ due' \in 0 .. 1
    <2>1. CASE TimeOut
      <3>1. rdySem = FALSE /\ waited >= 1 /\ waited \in Nat
        BY <2>1 DEF TimeOut, TypeOK
      <3> QED
        BY <2>1, <3>1 DEF TimeOut, coming, reading, due
    <2>2. CASE Reinit \/ Overwrite
      <3>1. /\ poll # "wait" /\ poll' # "wait"
            /\ UNCHANGED <<rdySem, waited>>
        BY <2>2 DEF Reinit, ReinitTo, Overwrite
      <3> QED
        BY <3>1 DEF coming, reading, due
    <2> QED
      BY <2>1, <2>2
  <1>4. Outside => Outside'
    BY <1>1, <1>2, <1>3 DEF Outside
  <1>5. Inside => Inside'
    BY <1>1, <1>2, <1>3, LagTypes DEF Inside
  <1> QED
    BY <1>1, <1>4, <1>5, LagParts, LagPartsNext DEF LagKept

\* The sample that was being read is there.
LEMMA LagSending ==
  ASSUME TypeOK, FullQueueIsYoung, LagKept, Send
  PROVE  LagKept'
  <1> USE PipelineAssumption DEF PipelineAssumption
  <1> SUFFICES ASSUME ~late PROVE LagOutside' /\ LagInside'
    BY DEF LagKept, Send, SendAs
  <1>1. /\ LagOutside /\ LagInside
        /\ UNCHANGED <<arr, detector, held>> /\ seq' = seq + 1
    BY DEF LagKept, Send, SendAs, detectorVars
  <1>2. coming = 1 /\ coming' = 0 /\ reading = 1 /\ reading' = 0 /\ due' = due
    <2>1. waited = 0 /\ waited' = 0 /\ poll = "send" /\ poll' = "wait" /\ rdySem' = rdySem
      BY DEF FullQueueIsYoung, Send, SendAs
    <2> QED
      BY <2>1 DEF coming, reading, due
  <1>3. CASE Len(processQueue) < QueueLength /\ processQueue' = Append(processQueue, seq)
    <2>1. /\ flying' = flying + 1 /\ queued' = queued + 1
          /\ oldest' = (IF flying = 0 THEN seq ELSE oldest)
          /\ oldestQueued' = (IF queued = 0 THEN seq ELSE oldestQueued)
          /\ flying = Window => following' = seq
      BY <1>1, <1>3, SampleAdds
    <2>2. queued < Window
      BY <1>3 DEF queued
    <2>3. ASSUME Outside PROVE Outside'
      <3>1. /\ flying + 1 <= Window + 1
            /\ flying > 0 /\ seq - oldest # flying =>
                  /\ flying >= Window
                  /\ seq - oldest + 1 <= HoldPeriods + Window + 1
        BY <1>2, <2>3 DEF Outside
      <3>2. flying \in Nat /\ seq \in Int /\ (flying > 0 => oldest \in Int)
        BY LagTypes
      <3>3. flying + 1 > Window => flying = Window
        BY <3>1, <3>2
      <3>4. CASE flying = 0
        <4>1. flying' = 1 /\ oldest' = seq
          BY <2>1, <3>4
        <4> QED
          BY <1>1, <1>2, <2>1, <3>2, <3>3, <3>4, <4>1 DEF Outside
      <3>5. CASE flying > 0
        <4>1. oldest' = oldest
          BY <2>1, <3>5
        <4>2. seq + 1 - oldest # flying + 1 =>
                /\ flying + 1 >= Window
                /\ seq + 1 - oldest <= HoldPeriods + Window + 1
          BY <3>1, <3>2, <3>5
        <4> QED
          BY <1>1, <1>2, <2>1, <3>1, <3>2, <3>3, <4>1, <4>2 DEF Outside
      <3> QED
        BY <3>2, <3>4, <3>5
    <2>4. Inside => Inside'
      BY <1>1, <1>2, <2>1, <2>2, LagTypes DEF Inside
    <2> QED
      BY <1>1, <2>3, <2>4, LagParts, LagPartsNext
  <1>4. CASE Len(processQueue) = QueueLength /\ processQueue' = processQueue
    <2>1. UNCHANGED <<flying, oldest, following, queued, oldestQueued>>
      BY <1>1, <1>4, SameLag DEF inFlight
    <2>2. queued = Window
      BY <1>4 DEF queued
    <2>3. Outside => Outside'
      BY <1>1, <1>2, <2>1, <2>2, LagTypes DEF Outside
    <2>4. Inside => Inside'
      BY <1>1, <1>2, <2>1, <2>2, LagTypes DEF Inside
    <2> QED
      BY <1>1, <2>3, <2>4, LagParts, LagPartsNext
  <1> QED
    BY <1>3, <1>4 DEF Send, SendAs

\* The window is judged: at most the newest sample is in the queue.
LEMMA LagJudging ==
  ASSUME TypeOK, LagKept, JudgeBraking \/ JudgeNotBraking
  PROVE  LagKept'
  <1> USE PipelineAssumption DEF PipelineAssumption
  <1> SUFFICES ASSUME ~late PROVE LagOutside' /\ LagInside'
    BY DEF LagKept, JudgeBraking, JudgeNotBraking, Restart, observed
  <1>1. /\ detector = "judge" /\ LagOutside
        /\ UNCHANGED <<processQueue, rdySem, poll, waited, seq>>
    BY DEF LagKept, JudgeBraking, JudgeNotBraking, Restart, pollVars
  <1>2. reading' = reading /\ due' = due /\ coming' = coming
    BY <1>1 DEF reading, due, coming
  <1>3. UNCHANGED <<queued, oldestQueued>>
    BY <1>1 DEF queued, oldestQueued
  <1>4. Outside
    BY <1>1, LagParts
  <1>5. /\ queued + coming <= 1
        /\ queued > 0 => oldestQueued = seq - 1
    BY <1>1, <1>4, LagTypes DEF Outside
  <1>6. CASE JudgeBraking
    <2>1. detector' = "hold" /\ held' = 0
      BY <1>6 DEF JudgeBraking
    <2>2. Inside'
      BY <1>1, <1>2, <1>3, <1>5, <2>1, LagTypes DEF Inside
    <2> QED
      BY <2>1, <2>2, LagPartsNext
  <1>7. CASE JudgeNotBraking
    <2>1. detector' = "receive" /\ flying' = queued /\ oldest' = oldestQueued
      BY <1>1, <1>7, QueueIsFlight DEF JudgeNotBraking, Restart
    <2>2. Outside'
      BY <1>1, <1>2, <1>5, <2>1, LagTypes DEF Outside
    <2> QED
      BY <2>1, <2>2, LagPartsNext
  <1> QED
    BY <1>6, <1>7

\* The episode is over: the queue holds what was read in it, or its first
\* Window samples.
LEMMA LagAfterEpisode ==
  ASSUME TypeOK, LagKept, HoldOver
  PROVE  LagKept'
  <1> USE PipelineAssumption DEF PipelineAssumption
  <1> SUFFICES ASSUME ~late PROVE LagOutside' /\ LagInside'
    BY DEF LagKept, HoldOver, Restart, observed
  <1>1. /\ detector = "hold" /\ held >= HoldPeriods /\ LagInside
        /\ detector' = "receive" /\ arr' = <<>>
        /\ UNCHANGED <<processQueue, rdySem, poll, waited, seq>>
    BY DEF LagKept, HoldOver, Restart, pollVars
  <1>2. reading' = reading /\ due' = due /\ coming' = coming
    BY <1>1 DEF reading, due, coming
  <1>3. flying' = queued /\ oldest' = oldestQueued
    BY <1>1, QueueIsFlight
  <1>4. Inside
    BY <1>1, LagParts
  <1>5. Outside'
    BY <1>1, <1>2, <1>3, <1>4, LagTypes DEF Inside, Outside
  <1> QED
    BY <1>1, <1>5, LagPartsNext

LEMMA SameLagKept ==
  ASSUME LagKept,
         UNCHANGED <<rdySem, poll, waited, arr, processQueue, seq, detector, held, late>>
  PROVE  LagKept'
  BY DEF LagKept, LagOutside, LagInside, inFlight, coming, reading, due

LEMMA NextLag ==
  ASSUME TypeOK, FullQueueIsYoung, LagKept, Next PROVE LagKept'
  <1>1. CASE Receive
    <2>1. Append(arr, Head(processQueue)) \o Tail(processQueue) = arr \o processQueue
      BY <1>1, QueueTypes, MoveHead DEF Receive, ReceiveUpTo
    <2>2. /\ inFlight' = inFlight /\ detector = "receive" /\ detector' # "hold"
          /\ UNCHANGED <<seq, poll, waited, late>>
      BY <1>1, <2>1 DEF Receive, ReceiveUpTo, inFlight, pollVars, observed
    <2> QED
      BY <2>2 DEF LagKept, LagOutside, LagInside, coming
  <1>2. CASE UploadReceive \/ UploadSend \/ UploadStop
    BY <1>2, SameLagKept
    DEF UploadReceive, UploadTake, UploadSend, UploadStop,
        pollVars, detectorVars, observed
  <1> QED
    BY <1>1, <1>2, LagWaiting, LagReading, LagSending, LagJudging, LagAfterEpisode
    DEF Next, PollStep, DetectorStep, UploaderStep

-----------------------------------------------------------------------------
(* The theorems.                                                           *)

LEMMA NextPipelineInv == PipelineInv /\ [Next]_vars => PipelineInv'
  <1>1. ASSUME PipelineInv, Next PROVE PipelineInv'
    BY <1>1, NextTypeOK, NextFlight, NextUpload, NextKeepsUp, NextLag
    DEF PipelineInv, FlightInv, UploadInv, KeepsUpInv
  <1>2. ASSUME PipelineInv, UNCHANGED vars PROVE PipelineInv'
    <2> USE DEF PipelineInv, vars, pollVars, detectorVars, uploadVars, observed
    <2>1. TypeOK'
      BY <1>2, Zenon DEF TypeOK
    <2>2. FlightInv'
      BY <1>2, SameFlight DEF inFlight, FlightInv
    <2>3. UploadInv'
      BY <1>2 DEF UploadInv, UploadIsNewest, UploadsEverNewer, newest
    <2>4. KeepsUpInv'
      BY <1>2 DEF KeepsUpInv, NoOverrun, FullQueueIsYoung, PartFilled
    <2>5. LagKept'
      BY <1>2, SameLagKept
    <2> QED
      BY <2>1, <2>2, <2>3, <2>4, <2>5 DEF FlightInv, UploadInv, KeepsUpInv
  <1> QED
    BY <1>1, <1>2

\* The inductive invariant holds in every reachable state.
THEOREM PipelineInvariance == Spec => []PipelineInv
  <1> QED
    BY InitPipelineInv, NextPipelineInv, PTL DEF Spec

\* detect_brake_1 sees the samples in the order they were read, none twice,
\* although poll_sensor drops samples and never waits for it.
THEOREM OrderIsKept == Spec => []SamplesInOrder
  <1>1. PipelineInv => SamplesInOrder
    BY DEF PipelineInv
  <1> QED
    BY <1>1, PipelineInvariance, PTL

\* A window of detect_brake_1 is ten consecutive samples, unless the queue
\* has overflowed while it was filling one: an episode may drop any number of
\* samples, because QUEUE_LENGTH is the length of a window.
THEOREM WindowsAreContiguous == Spec => []WindowContiguous
  <1>1. PipelineInv => WindowContiguous
    <2> SUFFICES ASSUME PipelineInv, detector = "judge", ~overrun,
                        NEW i \in 1 .. Len(arr) - 1
                 PROVE  arr[i + 1] = arr[i] + 1
      BY DEF WindowContiguous, Contiguous
    <2>1. TypeOK /\ Len(arr) = Window
      BY DEF PipelineInv, TypeOK
    <2>2. Len(processQueue) \in Nat /\ Window \in Nat
      BY <2>1, QueueTypes, PipelineAssumption DEF PipelineAssumption
    <2>3. Len(inFlight) = Window + Len(processQueue)
      BY <2>1, InFlightAt, Zenon
    <2>4. /\ i \in 1 .. Len(inFlight) - 1 /\ i # Window
          /\ i \in 1 .. Len(inFlight) /\ i <= Len(arr)
          /\ i + 1 \in 1 .. Len(inFlight) /\ i + 1 <= Len(arr)
      BY <2>1, <2>2, <2>3
    <2>5. inFlight[i + 1] = inFlight[i] + 1
      BY <2>4 DEF PipelineInv, GapsAtWindowEnds
    <2>6. inFlight[i] = arr[i] /\ inFlight[i + 1] = arr[i + 1]
      BY <2>1, <2>4, InFlightAt, Zenon
    <2> QED
      BY <2>5, <2>6
  <1> QED
    BY <1>1, PipelineInvariance, PTL

\* Outside of its episodes a detector that keeps up never lets the queue
\* overflow in mid-window (QUEUE_LENGTH, app_main.c, against the window of
\* detect_brake_1): with it, WindowsAreContiguous is about every window.
THEOREM KeepingUpSuffices == Spec => []NoOverrun
  <1>1. PipelineInv => NoOverrun
    BY DEF PipelineInv
  <1> QED
    BY <1>1, PipelineInvariance, PTL

\* The age of the window that detect_brake_1 judges is bounded by one episode
\* and both buffers, however many episodes have followed one another.
THEOREM LagIsBounded == Spec => []LagBounded
  <1>1. PipelineInv => LagBounded
    <2> SUFFICES ASSUME PipelineInv, detector = "judge", ~late
                 PROVE  seq - arr[1] <= HoldPeriods + Window + QueueLength
      BY DEF LagBounded
    <2> USE PipelineAssumption DEF PipelineAssumption
    <2>1. TypeOK /\ Len(arr) = Window /\ LagOutside
      BY DEF PipelineInv, TypeOK, LagKept
    <2>2. Len(arr) > 0
      BY <2>1
    <2>3. Len(inFlight) > 0 /\ inFlight[1] = arr[1] /\ Len(inFlight) \in Nat
      BY <2>1, <2>2, OldestInFlight
    <2>4. arr[1] \in Int /\ seq \in Int /\ coming \in 0 .. 1
      BY <2>1, QueueTypes DEF TypeOK, Samples, coming
    <2> QED
      BY <2>1, <2>3, <2>4 DEF LagOutside
  <1> QED
    BY <1>1, PipelineInvariance, PTL

\* Every variable of the pipeline keeps its type: arr never grows beyond the
\* window (arr[10] of detect_brake_1), the queues never beyond their lengths.
THEOREM PipelineTypes == Spec => []TypeOK
  <1>1. PipelineInv => TypeOK
    BY DEF PipelineInv
  <1> QED
    BY <1>1, PipelineInvariance, PTL

\* xQueueOverwrite: whenever the upload task gets to run, what it finds is
\* the newest sample.
THEOREM NewestIsUploaded == Spec => []UploadIsNewest
  <1>1. PipelineInv => UploadIsNewest
    BY DEF PipelineInv
  <1> QED
    BY <1>1, PipelineInvariance, PTL

\* The datagrams of udp_send_data carry ever newer samples.
THEOREM UploadOrder == Spec => UploadsInOrder
  <1>1. PipelineInv /\ [Next]_vars => [sent' # sent => sent' > sent]_vars
    <2> SUFFICES ASSUME PipelineInv, Next, sent' # sent PROVE sent' > sent
      OBVIOUS
    <2>1. uploader = "send" /\ sent' = message
      BY DEF Next, PollStep, DetectorStep, UploaderStep, Period, TakeReady,
             TimeOut, Reinit, ReinitTo, Overwrite, Send, SendAs,
             Receive, ReceiveUpTo, JudgeBraking, JudgeNotBraking, HoldOver,
             UploadReceive, UploadTake, UploadSend, UploadStop,
             uploadVars, observed, Restart
    <2>2. sent \in Int /\ message \in Int /\ sent < message
      BY <2>1 DEF PipelineInv, TypeOK, Samples, NoSample, UploadsEverNewer
    <2> QED
      BY <2>1, <2>2
  <1> QED
    BY <1>1, PipelineInvariance, PTL DEF Spec, UploadsInOrder
=============================================================================
