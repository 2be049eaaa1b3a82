---------------------------- MODULE BrakePipeline ----------------------------
(***************************************************************************)
(* The way of an acceleration sample: the data-ready interrupt and         *)
(* poll_sensor (main/bmi_spi.c), which publishes every sample twice, to    *)
(* the upload queue (one place, overwritten) and to the process queue      *)
(* (newest dropped when full); detect_brake_1 (main/braking_algrothim.c),  *)
(* which judges windows of consecutive samples and sleeps through a brake  *)
(* episode; and bmi_send_sensor_data_task with udp_send_data               *)
(* (main/udp_client.c).                                                    *)
(*                                                                         *)
(* A sample is its number data.seq; what it says, and so which windows     *)
(* mean braking, is left open.  Time is counted in sample periods (5 ms).  *)
(***************************************************************************)
EXTENDS Integers, Sequences

CONSTANTS
    QueueLength,     \* QUEUE_LENGTH of the process queue
    Window,          \* samples in a window of detect_brake_1
    HoldPeriods,     \* the vTaskDelay of a brake episode
    TimeoutPeriods,  \* the timeout of poll_sensor's wait for the interrupt
    SensorMayStall,  \* a period may pass without an interrupt
    MaxSeq           \* bound on the number of samples of a behaviour

ASSUME PipelineAssumption ==
    /\ Window \in Nat \ {0}
    /\ QueueLength = Window       \* both are 10
    /\ HoldPeriods \in Nat
    /\ TimeoutPeriods \in Nat \ {0}
    /\ SensorMayStall \in BOOLEAN
    /\ MaxSeq \in Nat

NoSample == -1

VARIABLES
    rdySem,        \* the binary semaphore the interrupt handler gives
    poll,          \* where poll_sensor stands
    waited,        \* periods it has waited for rdySem
    seq,           \* data.seq: the number of the next sample
    uploadQueue,
    processQueue,
    detector,      \* where detect_brake_1 stands
    arr,           \* its window: the samples of arr[0 .. count-1]
    held,          \* periods of the current episode
    uploader,      \* where bmi_send_sensor_data_task stands
    message,       \* the sample it is sending
    socket,        \* udp_sock is open
    sent,          \* the number of the last datagram sent
    overrun,       \* observed: a sample was dropped in the middle of a window
    late           \* observed: outside of an episode the detector had not
                   \* drained its queue when a period ended or a read began

pollVars == <<rdySem, poll, waited, seq>>
detectorVars == <<detector, arr, held>>
uploadVars == <<uploader, message, socket, sent>>
observed == <<overrun, late>>
vars == <<pollVars, uploadQueue, processQueue, detectorVars, uploadVars,
          observed>>

-----------------------------------------------------------------------------
\* poll_sensor gives the semaphore itself before its loop.  A task that waits
\* on an empty queue stands for one that app_main has yet to create.
Init ==
    /\ rdySem = TRUE
    /\ poll = "wait"
    /\ waited = 0
    /\ seq = 0
    /\ uploadQueue = <<>>
    /\ processQueue = <<>>
    /\ detector = "receive"
    /\ arr = <<>>
    /\ held = 0
    /\ uploader = "receive"
    /\ message = NoSample
    /\ socket = FALSE
    /\ sent = NoSample
    /\ overrun = FALSE
    /\ late = FALSE

\* The detector is behind: it could run and has not.
Behind ==
    \/ detector = "judge"
    \/ detector = "receive" /\ processQueue # <<>>
    \/ detector = "hold" /\ held >= HoldPeriods

\* A period passes.  gpio_handshake_isr_handler gives rdySem; interrupts that
\* poll_sensor was too late for are one.
Period ==
    /\ late' = (late \/ Behind)
    /\ rdySem' \in {TRUE, rdySem \/ ~SensorMayStall}
    /\ waited' = IF poll = "wait" /\ waited < TimeoutPeriods
                 THEN waited + 1 ELSE waited
    /\ held' = IF detector = "hold" /\ held < HoldPeriods
               THEN held + 1 ELSE held
    /\ UNCHANGED <<poll, seq, uploadQueue, processQueue, detector, arr,
                   uploadVars, overrun>>

-----------------------------------------------------------------------------
(* poll_sensor.                                                            *)

TakeReady ==
    /\ poll = "wait"
    /\ seq < MaxSeq
    /\ rdySem
    /\ late' = (late \/ Behind)
    /\ rdySem' = FALSE
    /\ poll' = "read"
    /\ waited' = 0
    /\ UNCHANGED <<seq, uploadQueue, processQueue, detectorVars, uploadVars,
                   overrun>>

\* No interrupt in time: bmi160_init, then on with the loop.
TimeOut ==
    /\ poll = "wait"
    /\ seq < MaxSeq
    /\ ~rdySem
    /\ waited >= TimeoutPeriods
    /\ poll' = "reinit"
    /\ waited' = 0
    /\ UNCHANGED <<rdySem, seq, uploadQueue, processQueue, detectorVars,
                   uploadVars, observed>>

\* The loop goes on at next, with the number n for the sample.
ReinitTo(next, n) ==
    /\ poll = "reinit"
    /\ poll' = next
    /\ seq' = n
    /\ UNCHANGED <<rdySem, waited, uploadQueue, processQueue, detectorVars,
                   uploadVars, observed>>

\* Mutants of Reinit: the loop starts again; the number starts again.
ReinitSkipsRead == ReinitTo("wait", seq)
ReinitResetsSeq == ReinitTo("read", 0)

\* bmi160_init returns; its result is ignored.
Reinit == ReinitTo("read", seq)

\* bmi160_read_data and xQueueOverwrite.
Overwrite ==
    /\ poll = "read"
    /\ uploadQueue' = <<seq>>
    /\ poll' = "send"
    /\ UNCHANGED <<rdySem, waited, seq, processQueue, detectorVars,
                   uploadVars, observed>>

\* The detector is in the middle of a window.
PartFilled == Len(arr) \notin {0, Window}

\* No time to wait: a full queue loses the new sample.
SendAs(queue) ==
    /\ poll = "send"
    /\ \/ /\ Len(processQueue) < QueueLength
          /\ processQueue' = queue
          /\ UNCHANGED overrun
       \/ /\ Len(processQueue) = QueueLength
          /\ overrun' = (overrun \/ PartFilled)
          /\ UNCHANGED processQueue
    /\ seq' = seq + 1
    /\ poll' = "wait"
    /\ UNCHANGED <<rdySem, waited, uploadQueue, detectorVars, uploadVars, late>>

\* Mutant of Send: xQueueSendToFront.
SendToFront == SendAs(<<seq>> \o processQueue)

\* xQueueSend.
Send == SendAs(Append(processQueue, seq))

-----------------------------------------------------------------------------
(* detect_brake_1.                                                         *)

\* No sample is rejected: 0.000061 g per count of an int16_t is at most 2 g,
\* which detect_brake_1's test for invalid data lets pass.
ReceiveUpTo(n) ==
    /\ detector = "receive"
    /\ processQueue # <<>>
    /\ arr' = Append(arr, Head(processQueue))
    /\ processQueue' = Tail(processQueue)
    /\ detector' = IF Len(arr') >= n THEN "judge" ELSE "receive"
    /\ UNCHANGED <<pollVars, uploadQueue, held, uploadVars, observed>>

\* Mutants of Receive: the window is judged one sample late, as in
\* detect_brake_2 (count > 10), or one early.
ReceiveOneMore == ReceiveUpTo(Window + 1)
ReceiveOneLess == ReceiveUpTo(Window - 1)

Receive == ReceiveUpTo(Window)

\* The window means braking: send_brake_signal, then the delay.
JudgeBraking ==
    /\ detector = "judge"
    /\ detector' = "hold"
    /\ held' = 0
    /\ UNCHANGED <<pollVars, uploadQueue, processQueue, arr, uploadVars,
                   observed>>

\* The next window begins, with what is given.
Restart(window) ==
    /\ detector' = "receive"
    /\ arr' = window
    /\ UNCHANGED <<pollVars, uploadQueue, processQueue, held, uploadVars,
                   observed>>

\* Mutant of JudgeNotBraking: count is not reset.
JudgeWithoutReset == detector = "judge" /\ Restart(arr)

JudgeNotBraking == detector = "judge" /\ Restart(<<>>)

\* Mutant of HoldOver: the next window starts with the last sample of this.
HoldOverOverlap ==
    detector = "hold" /\ held >= HoldPeriods /\ Restart(<<arr[Window]>>)

\* Mutant of HoldOver: what was queued in the episode is thrown away.
HoldOverDrains ==
    /\ detector = "hold" /\ held >= HoldPeriods
    /\ detector' = "receive"
    /\ arr' = <<>> /\ processQueue' = <<>>
    /\ UNCHANGED <<pollVars, uploadQueue, held, uploadVars, observed>>

\* The delay is over: the lamp goes back and the next window begins.
HoldOver == detector = "hold" /\ held >= HoldPeriods /\ Restart(<<>>)

-----------------------------------------------------------------------------
(* bmi_send_sensor_data_task.                                              *)

UploadTake(rest) ==
    /\ uploader = "receive"
    /\ uploadQueue # <<>>
    /\ message' = Head(uploadQueue)
    /\ uploadQueue' = rest
    /\ uploader' = "send"
    /\ UNCHANGED <<pollVars, processQueue, detectorVars, socket, sent, observed>>

\* Mutant of UploadReceive: xQueuePeek.
UploadPeek == UploadTake(uploadQueue)

UploadReceive == UploadTake(<<>>)

\* udp_send_data: without a socket it opens one, which may fail, and drops
\* the message; sendto may fail unnoticed.
UploadSend ==
    /\ uploader = "send"
    /\ \/ ~socket /\ socket' \in BOOLEAN /\ UNCHANGED sent
       \/ socket /\ sent' \in {sent, message} /\ UNCHANGED socket
    /\ message' = NoSample
    /\ uploader' = "receive"
    /\ UNCHANGED <<pollVars, uploadQueue, processQueue, detectorVars, observed>>

\* stop_bmi_send_sensor_data: the network monitor deletes the task.
UploadStop ==
    /\ uploader # "deleted"
    /\ uploader' = "deleted"
    /\ message' = NoSample
    /\ UNCHANGED <<pollVars, uploadQueue, processQueue, detectorVars,
                   socket, sent, observed>>

-----------------------------------------------------------------------------
PollStep == TakeReady \/ TimeOut \/ Reinit \/ Overwrite \/ Send
DetectorStep == Receive \/ JudgeBraking \/ JudgeNotBraking \/ HoldOver
UploaderStep == UploadReceive \/ UploadSend

Next == Period \/ PollStep \/ DetectorStep \/ UploaderStep \/ UploadStop

Spec == Init /\ [][Next]_vars

\* Time passes, and a task that is ready is eventually scheduled.
FairSpec ==
    /\ Spec
    /\ WF_vars(Period)
    /\ WF_vars(PollStep)
    /\ WF_vars(DetectorStep)
    /\ WF_vars(UploaderStep)

-----------------------------------------------------------------------------
(* Safety.                                                                 *)

Samples == 0 .. MaxSeq - 1

TypeOK ==
    /\ rdySem \in BOOLEAN
    /\ poll \in {"wait", "reinit", "read", "send"}
    /\ waited \in 0 .. TimeoutPeriods
    /\ seq \in 0 .. MaxSeq
    /\ poll # "wait" => seq < MaxSeq
    /\ uploadQueue \in Seq(Samples) /\ Len(uploadQueue) <= 1
    /\ processQueue \in Seq(Samples) /\ Len(processQueue) <= QueueLength
    /\ detector \in {"receive", "judge", "hold"}
    /\ arr \in Seq(Samples)
    /\ IF detector = "receive" THEN Len(arr) < Window ELSE Len(arr) = Window
    /\ held \in 0 .. HoldPeriods
    /\ uploader \in {"receive", "send", "deleted"}
    /\ message \in Samples \cup {NoSample}
    /\ socket \in BOOLEAN
    /\ sent \in Samples \cup {NoSample}
    /\ overrun \in BOOLEAN /\ late \in BOOLEAN

\* The samples on their way through the detector, the oldest first.
inFlight == arr \o processQueue

\* The detector sees the samples in the order they were read, none twice and
\* none before it was read.
SamplesInOrder ==
    \A i \in 1 .. Len(inFlight) :
        /\ \A j \in 1 .. i - 1 : inFlight[j] < inFlight[i]
        /\ inFlight[i] < seq

Contiguous(s) == \A i \in 1 .. Len(s) - 1 : s[i + 1] = s[i] + 1

\* A window never joins samples from before and after a gap, although every
\* episode overflows the queue: samples are dropped between windows, because
\* the queue holds one window and an episode begins at the end of one.  The
\* exception is a detector so late that the queue overflows in mid-window.
WindowContiguous == detector = "judge" /\ ~overrun => Contiguous(arr)

\* What keeps it so: a gap in inFlight, or before the next sample, is where
\* a window ends.
GapsAtWindowEnds ==
    ~overrun =>
        /\ \A i \in 1 .. Len(inFlight) - 1 :
              i # Window => inFlight[i + 1] = inFlight[i] + 1
        /\ Len(inFlight) \notin {0, Window, 2 * Window}
              => seq = inFlight[Len(inFlight)] + 1

\* The newest sample published.
newest == IF poll = "send" THEN seq ELSE seq - 1

\* A sample waiting for upload is the newest there is.
UploadIsNewest == uploadQueue # <<>> => uploadQueue[1] = newest

\* What keeps the uploads in order: sent, message and the upload queue are
\* ever newer, up to the newest sample published.
UploadsEverNewer ==
    /\ sent <= newest
    /\ uploader = "send" => sent < message /\ message <= newest
    /\ uploadQueue # <<>> =>
          sent < newest /\ (uploader = "send" => message < newest)

\* A detector that keeps up outside of its episodes is never so late: in a
\* chain of episodes, too, every overflow falls between two windows.
NoOverrun == overrun => late

\* What keeps it so: with the detector in mid-window a queue is full only for
\* the first period after a sample was sent.
FullQueueIsYoung ==
    /\ poll # "wait" => waited = 0
    /\ ~late /\ PartFilled /\ Len(processQueue) = QueueLength =>
        poll = "wait" /\ waited = 0

\* Lag does not add up over episodes: the oldest sample of a window that is
\* judged was read at most one episode and the length of both buffers ago, if
\* the detector keeps up outside of its episodes.
LagBounded ==
    detector = "judge" /\ ~late => seq - arr[1] <= HoldPeriods + Window + QueueLength

\* A read is under way; or the next is due, by an interrupt or a timeout.
reading == IF poll = "wait" THEN 0 ELSE 1
due == IF rdySem \/ waited >= 1 THEN 1 ELSE 0

\* Samples that come although the detector is behind, which is then not late.
coming == IF poll # "wait" \/ waited >= 1 THEN 1 ELSE 0

\* What keeps it so outside of an episode: what is in flight is the latest
\* samples, or else at least a window of them, the oldest of an episode ago.
LagOutside ==
    detector # "hold" =>
        /\ Len(inFlight) + coming <= Window + 1
        /\ Len(inFlight) > Window => inFlight[Window + 1] = seq - 1
        /\ Len(inFlight) > 0 /\ seq - inFlight[1] # Len(inFlight) =>
              /\ Len(inFlight) >= Window
              /\ seq - inFlight[1] + coming <= HoldPeriods + Window + 1

\* In an episode a sample is read per period, and the queue is unbroken until
\* it is full.
LagInside ==
    detector = "hold" /\ Len(processQueue) > 0 =>
        /\ seq - processQueue[1] + reading + due <= held + 2
        /\ Len(processQueue) < Window => seq - processQueue[1] = Len(processQueue)

LagKept == ~late => LagOutside /\ LagInside

\* Datagrams leave in the order of their samples, each sample at most once.
UploadsInOrder == [][sent' # sent => sent' > sent]_vars

-----------------------------------------------------------------------------
(* The inductive invariant of the safety properties.                       *)

PipelineInv ==
    /\ TypeOK
    /\ SamplesInOrder
    /\ GapsAtWindowEnds
    /\ UploadIsNewest
    /\ UploadsEverNewer
    /\ NoOverrun
    /\ FullQueueIsYoung
    /\ LagKept

-----------------------------------------------------------------------------
(* Liveness.                                                               *)

\* A silent sensor or a lost interrupt never stops the sampling.
SamplingGoesOn == <>(seq = MaxSeq)

In(n, s) == \E i \in 1 .. Len(s) : s[i] = n

\* A sample that found room in the process queue is judged, through episodes
\* and re-initialisations of the sensor; only of the last samples of all may
\* some be left over in a window that never fills.
SamplesAreJudged ==
    \A n \in Samples :
        In(n, processQueue)
            ~> In(n, arr) /\ \/ detector = "judge"
                             \/ seq = MaxSeq /\ processQueue = <<>>

-----------------------------------------------------------------------------
(* What the comments say and the code does not do.                         *)

\* braking_algrothim.c:9 "lag = 5*10=50ms", app_main.c:25 "Buffer ~50ms at
\* 200Hz": a window is judged within the 50 ms it takes to fill and the 50 ms
\* that the queue can add, by a detector that keeps up.
FreshWindow ==
    detector = "judge" /\ ~late => seq - arr[1] <= Window + QueueLength
=============================================================================
