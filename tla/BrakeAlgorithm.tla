--------------------------- MODULE BrakeAlgorithm ---------------------------
(***************************************************************************)
(* What detect_brake_1 (braking_algrothim.c) computes: a low-pass filter   *)
(* over the forward acceleration, cut into windows of ten values, each     *)
(* judged by how often it falls and by its average.  BrakePipeline says    *)
(* which samples get here, TailLight what a verdict does.                  *)
(*                                                                         *)
(* Accelerations are whole thousandths of g.  The code computes in floats; *)
(* the filter rounds down here, so a value that has come to rest stands    *)
(* still.  The accelerometer's 16-bit reading never gives the NaN or the   *)
(* more than 16 g that the code skips.  A read that fails leaves two bytes *)
(* of the gyroscope in its place, a sample that says anything up to 2 g.   *)
(***************************************************************************)
EXTENDS Integers, Sequences, FiniteSets

CONSTANTS
    Levels,       \* the accelerations that occur
    Threshold,    \* BRAKE_THRESHOLD
    DecelMin,     \* DECEL_MIN_COUNT
    Hard,         \* from here on a deceleration is to be detected
    MaxChanges,   \* bound on the changes of the acceleration
    BadReads,     \* what a failed read gives
    MaxBadReads   \* bound on the failed reads

ASSUME AlgorithmAssumption ==
    /\ Levels \subseteq Int
    /\ Threshold \in Int /\ Threshold < 0
    /\ DecelMin \in Nat \ {0}
    /\ Hard \in Int
    /\ MaxChanges \in Nat
    /\ BadReads \subseteq Int
    /\ MaxBadReads \in Nat

Window == 10     \* arr[10]

VARIABLES
    filtered,     \* filtered_ax
    arr,          \* arr[0] .. arr[count - 1]
    braking,      \* the verdict on the last full window
    level,        \* the acceleration of the bike
    changes,      \* how often it has changed
    badReads,     \* how many reads have failed
    steady,       \* observed: samples since then, up to three windows
    before,       \* observed: the filter's value then
    detected,     \* observed: a verdict of braking since then
    lowest        \* observed: the lowest sample of this window and those
                  \* before it, back to one that ended above the threshold

detector == <<filtered, arr, braking>>
vars == <<detector, level, changes, badReads, steady, before, detected, lowest>>

-----------------------------------------------------------------------------
Init ==
    /\ filtered = 0 /\ arr = <<>> /\ braking = FALSE
    /\ level = 0 /\ changes = 0 /\ badReads = 0
    /\ steady = 0 /\ before = 0 /\ detected = FALSE /\ lowest = 0

\* alpha * ax + (1 - alpha) * filtered_ax, with alpha = 0.2.
Filter(ax, f) == (ax + 4 * f) \div 5

\* Mutant of Stored: the sample itself is stored.
StoredRaw(ax, f) == ax

\* What goes into arr.
Stored(ax, f) == Filter(ax, f)

\* Mutant of Falls: the sensor is mounted the other way round.
FallsReversed(w) == Cardinality({i \in 1 .. Window - 1 : w[i + 1] > w[i]})

\* decel_count: how often the window falls.
Falls(w) == Cardinality({i \in 1 .. Window - 1 : w[i + 1] < w[i]})

\* sum_ax
Sum(w) ==
    (w[1] + w[2] + w[3] + w[4] + w[5]) + (w[6] + w[7] + w[8] + w[9] + w[10])

\* Mutant of Low: the sum is not divided by ten.
LowSum(w) == Sum(w) <= Threshold

\* avg_ax <= BRAKE_THRESHOLD
Low(w) == Sum(w) <= Window * Threshold

IsBraking(w) == Falls(w) >= DecelMin /\ Low(w)

\* One turn of the detector's loop, with the sample ax.
Receive(ax) ==
    LET w == Append(arr, Stored(ax, filtered))
    IN  /\ filtered' = Filter(ax, filtered)
        /\ IF Len(w) >= Window
           THEN arr' = <<>> /\ braking' = IsBraking(w)
           ELSE arr' = w /\ UNCHANGED braking

LowestOf(a, b) == IF a < b THEN a ELSE b

\* The next sample, with nothing changed in the ride.
Sample(ax) ==
    /\ Receive(ax)
    /\ steady' = IF steady < 3 * Window THEN steady + 1 ELSE steady
    /\ detected' = (detected \/ (arr' = <<>> /\ braking'))
    /\ lowest' = LowestOf(
           IF arr = <<>> /\ filtered > Threshold THEN 0 ELSE lowest, ax)
    /\ UNCHANGED <<level, changes, before>>

\* The bike goes on as before.
KeepOn == Sample(level) /\ UNCHANGED badReads

\* As before, but the accelerometer's bytes did not get here.
ReadFails(ax) ==
    /\ badReads < MaxBadReads
    /\ Sample(ax)
    /\ badReads' = badReads + 1

\* The rider brakes, lets go or accelerates: the next sample is another one.
Change(ax) ==
    /\ changes < MaxChanges
    /\ ax # level
    /\ level' = ax
    /\ changes' = changes + 1
    /\ before' = filtered
    /\ steady' = 0 /\ detected' = FALSE
    /\ UNCHANGED <<detector, lowest, badReads>>

Next ==
    \/ KeepOn
    \/ \E ax \in BadReads : ReadFails(ax)
    \/ \E ax \in Levels : Change(ax)

Spec == Init /\ [][Next]_vars

-----------------------------------------------------------------------------
\* No window is taken for braking unless it or one just before it had a
\* sample at or below the threshold: the filter does not overshoot, and what
\* it remembers of a braking is gone once a window ends above the threshold.
NoFalseAlarm == arr = <<>> /\ braking => lowest <= Threshold

\* A rider who was not braking and now brakes hard and steadily is noticed
\* within three windows, wherever in a window it begins, if every read works.
StepIsDetected ==
    level <= Hard /\ before >= 0 /\ steady >= 3 * Window - 1 /\ badReads = 0
        => detected

\* Riding on ends the braking: the first window that lies wholly within it is
\* not taken for braking, whatever the filter still remembers.  When a read
\* has failed, and sent the filter up for a moment, it is the second window:
\* the fall back counts, and the memory makes the average low.
ReleaseEndsBraking ==
    level >= 0 /\ badReads <= 1 /\ steady >= (2 + badReads) * Window - 1
        => ~braking

\* The inductive invariant of NoFalseAlarm: while no sample was that low, no
\* value in the filter or in the window is.
AlgorithmInv ==
    /\ level \in Int /\ filtered \in Int /\ lowest \in Int
    /\ arr \in Seq(Int) /\ Len(arr) < Window
    /\ braking \in BOOLEAN
    /\ lowest > Threshold =>
        /\ filtered > Threshold
        /\ \A i \in 1 .. Len(arr) : arr[i] > Threshold
    /\ NoFalseAlarm
=============================================================================
