------------------------ MODULE BrakeAlgorithmProofs ------------------------
(***************************************************************************)
(* The verdicts of detect_brake_1 for every set of accelerations: no false *)
(* alarm, because the filter is an average and stays above whatever its    *)
(* input and its memory are above; the end of a braking; and the notice of *)
(* a hard one.                                                             *)
(***************************************************************************)
EXTENDS BrakeAlgorithm, SequenceTheorems, FiniteSetTheorems, TLAPS

\* The filter does not fall to a bound that its arguments are above.
LEMMA FilterStaysAbove ==
  ASSUME NEW b \in Int, NEW ax \in Int, NEW f \in Int, ax > b, f > b
  PROVE  Filter(ax, f) \in Int /\ Filter(ax, f) > b
  <1> DEFINE s == ax + 4 * f
  <1>1. s \in Int /\ s >= 5 * (b + 1)
    OBVIOUS
  <1>2. s \div 5 \in Int /\ s \div 5 >= b + 1
    BY <1>1
  <1>3. QED
    BY <1>2 DEF Filter

LEMMA FilterType ==
  ASSUME NEW ax \in Int, NEW f \in Int
  PROVE  Filter(ax, f) \in Int
  BY DEF Filter

\* Five numbers above a bound, and two sums of five, added up.
LEMMA SumOfFive ==
  ASSUME NEW b \in Int,
         NEW x1 \in Int, NEW x2 \in Int, NEW x3 \in Int, NEW x4 \in Int, NEW x5 \in Int,
         x1 > b, x2 > b, x3 > b, x4 > b, x5 > b
  PROVE  /\ x1 + x2 + x3 + x4 + x5 \in Int
         /\ x1 + x2 + x3 + x4 + x5 > 5 * b
  OBVIOUS

\* A window of ten values above the threshold is not low.
LEMMA HighIsNotLow ==
  ASSUME NEW w \in Seq(Int), Len(w) = Window,
         \A i \in 1 .. Window : w[i] > Threshold
  PROVE  ~Low(w)
  <1> USE AlgorithmAssumption DEF AlgorithmAssumption, Window
  <1>1. \A i \in 1 .. 10 : w[i] \in Int /\ w[i] > Threshold
    BY ElementOfSeq
  <1>2. /\ w[1] \in Int /\ w[1] > Threshold /\ w[2] \in Int /\ w[2] > Threshold
        /\ w[3] \in Int /\ w[3] > Threshold /\ w[4] \in Int /\ w[4] > Threshold
        /\ w[5] \in Int /\ w[5] > Threshold /\ w[6] \in Int /\ w[6] > Threshold
        /\ w[7] \in Int /\ w[7] > Threshold /\ w[8] \in Int /\ w[8] > Threshold
        /\ w[9] \in Int /\ w[9] > Threshold /\ w[10] \in Int /\ w[10] > Threshold
    BY <1>1
  <1>3. Threshold \in Int
    OBVIOUS
  <1> HIDE AlgorithmAssumption DEF AlgorithmAssumption
  <1>4. Sum(w) \in Int /\ Sum(w) > 10 * Threshold
    <2> DEFINE s5 == w[1] + w[2] + w[3] + w[4] + w[5]
               t5 == w[6] + w[7] + w[8] + w[9] + w[10]
    <2>1. s5 \in Int /\ s5 > 5 * Threshold
      BY <1>2, <1>3, SumOfFive
    <2>2. t5 \in Int /\ t5 > 5 * Threshold
      BY <1>2, <1>3, SumOfFive
    <2>3. Sum(w) = s5 + t5
      BY Zenon DEF Sum
    <2> HIDE DEF s5, t5
    <2>4. QED
      BY <1>3, <2>1, <2>2, <2>3
  <1>5. QED
    BY <1>3, <1>4 DEF Low

LEMMA InitAlgorithm == Init => AlgorithmInv
  <1> SUFFICES ASSUME Init PROVE AlgorithmInv
    OBVIOUS
  <1> USE AlgorithmAssumption DEF AlgorithmAssumption, Init
  <1>1. arr \in Seq(Int) /\ Len(arr) = 0
    OBVIOUS
  <1>2. braking = FALSE
    OBVIOUS
  <1>3. level \in Int /\ filtered \in Int /\ lowest \in Int /\ filtered > Threshold
    OBVIOUS
  <1> HIDE DEF Init
  <1>4. QED
    <2>1. braking \in BOOLEAN /\ NoFalseAlarm
      BY <1>2 DEF NoFalseAlarm
    <2>2. Len(arr) < Window /\ \A i \in 1 .. Len(arr) : arr[i] > Threshold
      BY <1>1 DEF Window
    <2>3. QED
      BY <1>1, <1>3, <2>1, <2>2 DEF AlgorithmInv

LEMMA SampleStep ==
  ASSUME AlgorithmInv, NEW ax \in Int, Sample(ax)
  PROVE  AlgorithmInv'
  <1> USE AlgorithmAssumption DEF AlgorithmAssumption
  <1> DEFINE f == Filter(ax, filtered)
             w == Append(arr, f)
             base == IF arr = <<>> /\ filtered > Threshold THEN 0 ELSE lowest
  <1>1. /\ level \in Int /\ filtered \in Int /\ lowest \in Int
        /\ arr \in Seq(Int) /\ Len(arr) < Window /\ braking \in BOOLEAN
    BY DEF AlgorithmInv
  <1>2. /\ level' = level /\ filtered' = f
        /\ lowest' = LowestOf(base, ax)
        /\ IF Len(w) >= Window
           THEN arr' = <<>> /\ braking' = IsBraking(w)
           ELSE arr' = w /\ braking' = braking
    BY DEF Sample, Receive, Stored
  <1>3. f \in Int
    BY <1>1, FilterType
  <1>4. /\ w \in Seq(Int) /\ Len(w) = Len(arr) + 1 /\ w[Len(w)] = f
        /\ \A i \in 1 .. Len(arr) : w[i] = arr[i]
    BY <1>1, <1>3
  <1>5. lowest' \in Int
    BY <1>1, <1>2 DEF LowestOf
  <1>6. ASSUME lowest' > Threshold
        PROVE  f > Threshold /\ \A i \in 1 .. Len(w) : w[i] > Threshold
    <2>1. base > Threshold /\ ax > Threshold
      BY <1>1, <1>2, <1>6 DEF LowestOf
    <2>2. filtered > Threshold /\ \A i \in 1 .. Len(arr) : arr[i] > Threshold
      BY <1>1, <2>1 DEF AlgorithmInv
    <2>3. f > Threshold
      BY <1>1, <2>1, <2>2, FilterStaysAbove
    <2> HIDE DEF w, f, base
    <2>4. QED
      BY <1>1, <1>4, <2>2, <2>3
  <1> HIDE DEF f, w, base
  <1>7. CASE Len(w) >= Window
    <2>1. Len(w) = Window
      BY <1>1, <1>4, <1>7 DEF Window
    <2>2. arr' = <<>> /\ braking' = IsBraking(w) /\ braking' \in BOOLEAN
      BY <1>2, <1>7 DEF IsBraking
    <2>3. braking' => lowest' <= Threshold
      <3>1. lowest' > Threshold => ~Low(w)
        BY <1>4, <1>6, <2>1, HighIsNotLow
      <3>2. braking' => Low(w)
        BY <2>2 DEF IsBraking
      <3>3. lowest' > Threshold \/ lowest' <= Threshold
        BY <1>5
      <3>4. QED
        BY <3>1, <3>2, <3>3
    <2>4. QED
      BY <1>1, <1>2, <1>3, <1>5, <1>6, <2>2, <2>3
         DEF AlgorithmInv, NoFalseAlarm, Window
  <1>8. CASE Len(w) < Window
    <2>1. arr' = w /\ braking' = braking /\ w # <<>>
      BY <1>1, <1>2, <1>4, <1>8 DEF Window
    <2>2. QED
      BY <1>1, <1>2, <1>3, <1>4, <1>5, <1>6, <1>8, <2>1
         DEF AlgorithmInv, NoFalseAlarm
  <1>9. QED
    BY <1>1, <1>4, <1>7, <1>8 DEF Window

LEMMA ChangeStep ==
  ASSUME AlgorithmInv, NEW ax \in Levels, Change(ax)
  PROVE  AlgorithmInv'
  <1>1. level' \in Int
    BY AlgorithmAssumption DEF AlgorithmAssumption, Change
  <1>2. UNCHANGED <<filtered, arr, braking, lowest>>
    BY DEF Change, detector
  <1>3. QED
    BY <1>1, <1>2 DEF AlgorithmInv, NoFalseAlarm

-----------------------------------------------------------------------------
\* The invariant of detect_brake_1's filter and window.
THEOREM AlgorithmInvariance == Spec => []AlgorithmInv
  <1>1. AlgorithmInv /\ [Next]_vars => AlgorithmInv'
    <2>1. AlgorithmInv /\ UNCHANGED vars => AlgorithmInv'
      BY DEF vars, detector, AlgorithmInv, NoFalseAlarm
    <2>2. QED
      <3>1. KeepOn /\ AlgorithmInv => AlgorithmInv'
        BY SampleStep DEF KeepOn, AlgorithmInv
      <3>2. ASSUME AlgorithmInv, NEW ax \in BadReads, ReadFails(ax)
            PROVE  AlgorithmInv'
        BY <3>2, SampleStep, AlgorithmAssumption DEF ReadFails, AlgorithmAssumption
      <3>3. QED
        BY <2>1, <3>1, <3>2, ChangeStep DEF Next
  <1>2. QED
    BY InitAlgorithm, <1>1, PTL DEF Spec

\* detect_brake_1 reports no braking in a window without a sample at or below
\* BRAKE_THRESHOLD, there or just before, for any series of samples.
THEOREM AlarmsAreReal == Spec => []NoFalseAlarm
  <1>1. AlgorithmInv => NoFalseAlarm
    BY DEF AlgorithmInv
  <1>2. QED
    BY AlgorithmInvariance, <1>1, PTL

-----------------------------------------------------------------------------
(* The end of a braking.                                                   *)

\* Riding on without a failed read, the values of a window that began in this
\* ride are all on one side of the acceleration, the filter's own side: they
\* rise towards it or lie above it.
OneSided ==
    badReads = 0 /\ level >= 0 /\ steady >= Len(arr) =>
        \/ /\ filtered <= level
           /\ arr # <<>> => arr[Len(arr)] = filtered
           /\ \A i \in 1 .. Len(arr) - 1 : arr[i] <= arr[i + 1]
        \/ /\ filtered >= level
           /\ \A i \in 1 .. Len(arr) : arr[i] >= 0

\* The inductive invariant of ReleaseEndsBraking without failed reads; the
\* last full window ended Len(arr) samples ago.
RideInv ==
    /\ steady \in 0 .. 3 * Window
    /\ badReads \in Nat
    /\ OneSided
    /\ badReads = 0 /\ level >= 0 /\ steady >= Len(arr) + Window => ~braking

\* The filter moves towards its input and does not pass it.
LEMMA FilterApproaches ==
  ASSUME NEW ax \in Int, NEW f \in Int
  PROVE  /\ f <= ax => f <= Filter(ax, f) /\ Filter(ax, f) <= ax
         /\ f >= ax => Filter(ax, f) >= ax
  <1> DEFINE s == ax + 4 * f
  <1>1. s \in Int
    OBVIOUS
  <1>2. ASSUME f <= ax PROVE f <= s \div 5 /\ s \div 5 <= ax
    <2>1. 5 * f <= s /\ s <= 5 * ax
      BY <1>2
    <2> HIDE DEF s
    <2>2. QED
      BY <1>1, <2>1
  <1>3. ASSUME f >= ax PROVE s \div 5 >= ax
    <2>1. s >= 5 * ax
      BY <1>3
    <2> HIDE DEF s
    <2>2. QED
      BY <1>1, <2>1
  <1>4. QED
    BY <1>2, <1>3 DEF Filter

\* The sample that fills the window.
LEMMA LastSample ==
  ASSUME NEW n \in Nat, n < Window, NEW m \in Nat, m = n + 1, m >= Window
  PROVE  m = Window /\ n = 9
  BY DEF Window

\* A window that never falls is not braking.
LEMMA RisingIsNotBraking ==
  ASSUME NEW w \in Seq(Int), Len(w) = Window,
         \A i \in 1 .. Window - 1 : w[i] <= w[i + 1]
  PROVE  ~IsBraking(w)
  <1>1. {i \in 1 .. Window - 1 : w[i + 1] < w[i]} = {}
    <2> SUFFICES ASSUME NEW i \in 1 .. Window - 1, w[i + 1] < w[i] PROVE FALSE
      OBVIOUS
    <2>1. i \in 1 .. Len(w) /\ i + 1 \in 1 .. Len(w)
      BY DEF Window
    <2>2. w[i] \in Int /\ w[i + 1] \in Int
      BY <2>1, ElementOfSeq
    <2>3. w[i] <= w[i + 1]
      OBVIOUS
    <2>4. QED
      BY <2>2, <2>3
  <1>2. Falls(w) = 0
    BY <1>1, FS_EmptySet DEF Falls
  <1>3. QED
    BY <1>2, AlgorithmAssumption DEF IsBraking, AlgorithmAssumption

LEMMA InitRide == Init => RideInv
  <1> SUFFICES ASSUME Init PROVE RideInv
    OBVIOUS
  <1>1. arr = <<>> /\ filtered = 0 /\ level = 0 /\ steady = 0 /\ badReads = 0
        /\ braking = FALSE
    BY DEF Init
  <1>2. OneSided
    BY <1>1 DEF OneSided
  <1>3. QED
    BY <1>1, <1>2 DEF RideInv, Window

\* What the next sample of a steady ride does.
LEMMA KeepOnRide ==
  ASSUME AlgorithmInv, RideInv, KeepOn
  PROVE  RideInv'
  <1> DEFINE f == Filter(level, filtered)
             w == Append(arr, f)
  <1>1. /\ level \in Int /\ filtered \in Int /\ arr \in Seq(Int)
        /\ Len(arr) \in Nat /\ Len(arr) < Window
        /\ steady \in 0 .. 3 * Window /\ badReads \in Nat
    BY DEF AlgorithmInv, RideInv
  <1>2. /\ level' = level /\ badReads' = badReads /\ filtered' = f
        /\ steady' = IF steady < 3 * Window THEN steady + 1 ELSE steady
        /\ IF Len(w) >= Window
           THEN arr' = <<>> /\ braking' = IsBraking(w)
           ELSE arr' = w /\ braking' = braking
    BY DEF KeepOn, Sample, Receive, Stored
  <1>3. f \in Int
    BY <1>1, FilterType
  <1>4. /\ w \in Seq(Int) /\ Len(w) = Len(arr) + 1 /\ w[Len(w)] = f
        /\ \A i \in 1 .. Len(arr) : w[i] = arr[i]
        /\ \A i \in 1 .. Len(arr) : arr[i] \in Int
    BY <1>1, <1>3
  <1>5. steady' \in 0 .. 3 * Window /\ badReads' \in Nat
    BY <1>1, <1>2 DEF Window
  <1> HIDE DEF f, w
  <1>5a. Len(w) \in Nat /\ Len(w) = Len(arr) + 1
    BY <1>1, <1>4
  \* The window with the new value is on one side, too.
  <1>6. ASSUME badReads = 0, level >= 0, steady >= Len(arr)
        PROVE  \/ f <= level /\ \A i \in 1 .. Len(w) - 1 : w[i] <= w[i + 1]
               \/ f >= level /\ \A i \in 1 .. Len(w) : w[i] >= 0
    <2>1. CASE /\ filtered <= level
               /\ arr # <<>> => arr[Len(arr)] = filtered
               /\ \A i \in 1 .. Len(arr) - 1 : arr[i] <= arr[i + 1]
      <3>1. filtered <= f /\ f <= level
        BY <1>1, <2>1, FilterApproaches DEF f
      <3>2. ASSUME NEW i \in 1 .. Len(w) - 1 PROVE w[i] <= w[i + 1]
        <4>1. CASE i < Len(arr)
          <5>1. i \in 1 .. Len(arr) - 1 /\ i \in 1 .. Len(arr)
                /\ i + 1 \in 1 .. Len(arr)
            BY <1>1, <4>1
          <5>2. w[i] = arr[i] /\ w[i + 1] = arr[i + 1]
            BY <1>4, <5>1
          <5>3. QED
            BY <2>1, <5>1, <5>2
        <4>2. CASE i = Len(arr)
          <5>1. arr # <<>> /\ w[i] = filtered /\ w[i + 1] = f
            BY <1>1, <1>4, <2>1, <4>2
          <5>2. QED
            BY <3>1, <5>1
        <4>3. QED
          BY <1>1, <1>4, <4>1, <4>2
      <3>3. QED
        BY <3>1, <3>2
    <2>2. CASE filtered >= level /\ \A i \in 1 .. Len(arr) : arr[i] >= 0
      <3>1. f >= level /\ f >= 0
        BY <1>1, <1>3, <1>6, <2>2, FilterApproaches DEF f
      <3>2. ASSUME NEW i \in 1 .. Len(w) PROVE w[i] >= 0
        <4>1. i = Len(w) \/ i \in 1 .. Len(arr)
          BY <1>1, <1>4
        <4>2. QED
          BY <1>4, <2>2, <3>1, <4>1
      <3>3. QED
        BY <3>1, <3>2
    <2>3. QED
      BY <1>6, <2>1, <2>2 DEF RideInv, OneSided
  <1>7. CASE Len(w) >= Window
    <2>1. Len(w) = Window /\ Len(arr) = 9
      BY <1>1, <1>7, <1>5a, LastSample
    <2>2. arr' = <<>> /\ Len(arr') = 0 /\ braking' = IsBraking(w)
      BY <1>2, <1>7
    <2>3. OneSided'
      BY <1>1, <1>2, <1>3, <2>2 DEF OneSided
    <2>4. ASSUME badReads' = 0, level' >= 0, steady' >= Window PROVE ~braking'
      <3>1. badReads = 0 /\ level >= 0 /\ steady >= Len(arr)
        BY <1>1, <1>2, <2>1, <2>4 DEF Window
      <3>2. CASE \A i \in 1 .. Len(w) - 1 : w[i] <= w[i + 1]
        BY <1>4, <2>1, <2>2, <3>2, RisingIsNotBraking
      <3>3. CASE \A i \in 1 .. Len(w) : w[i] >= 0
        <4>1. \A i \in 1 .. Window : w[i] > Threshold
          <5>1. Threshold \in Int /\ Threshold < 0
            BY AlgorithmAssumption DEF AlgorithmAssumption
          <5>2. ASSUME NEW i \in 1 .. Window PROVE w[i] > Threshold
            <6>1. w[i] \in Int /\ w[i] >= 0
              BY <1>4, <2>1, <3>3, ElementOfSeq
            <6>2. QED
              BY <5>1, <6>1
          <5>3. QED
            BY <5>2
        <4>2. QED
          BY <1>4, <2>1, <2>2, <4>1, HighIsNotLow DEF IsBraking
      <3>4. QED
        BY <1>6, <3>1, <3>2, <3>3
    <2>5. QED
      BY <1>5, <2>2, <2>3, <2>4 DEF RideInv, Window
  <1>8. CASE Len(w) < Window
    <2>1. arr' = w /\ braking' = braking /\ Len(arr') = Len(arr) + 1
      BY <1>2, <1>4, <1>8 DEF Window
    <2>2. steady' >= Len(arr') => steady >= Len(arr)
      BY <1>1, <1>2, <2>1 DEF Window
    <2>3. steady' >= Len(arr') + Window => steady >= Len(arr) + Window
      BY <1>1, <1>2, <1>4, <1>8, <2>1 DEF Window
    <2>4. OneSided'
      BY <1>2, <1>4, <1>6, <2>1, <2>2 DEF OneSided
    <2>5. QED
      BY <1>2, <1>5, <2>1, <2>3, <2>4 DEF RideInv
  <1>9. QED
    BY <1>1, <1>4, <1>7, <1>8 DEF Window

LEMMA ChangeRide ==
  ASSUME AlgorithmInv, RideInv, NEW ax \in Levels, Change(ax)
  PROVE  RideInv'
  <1>1. /\ level' \in Int /\ steady' = 0
        /\ UNCHANGED <<filtered, arr, braking, badReads>>
    BY AlgorithmAssumption DEF AlgorithmAssumption, Change, detector
  <1>2. filtered \in Int /\ arr \in Seq(Int) /\ Len(arr) \in Nat
    BY DEF AlgorithmInv
  <1>3. OneSided'
    <2>1. CASE Len(arr) = 0
      BY <1>1, <1>2, <2>1 DEF OneSided
    <2>2. CASE Len(arr) > 0
      BY <1>1, <1>2, <2>2 DEF OneSided
    <2>3. QED
      BY <1>2, <2>1, <2>2
  <1>4. QED
    BY <1>1, <1>2, <1>3 DEF RideInv, Window

LEMMA ReadFailsRide ==
  ASSUME AlgorithmInv, RideInv, NEW ax \in BadReads, ReadFails(ax)
  PROVE  RideInv'
  <1>1. badReads' \in Nat /\ badReads' # 0
    BY DEF RideInv, ReadFails
  <1>2. steady' \in 0 .. 3 * Window
    BY DEF RideInv, ReadFails, Sample, Window
  <1>3. QED
    BY <1>1, <1>2 DEF RideInv, OneSided

THEOREM RideInvariance == Spec => []RideInv
  <1>1. AlgorithmInv /\ RideInv /\ [Next]_vars => RideInv'
    <2>1. RideInv /\ UNCHANGED vars => RideInv'
      BY DEF vars, detector, RideInv, OneSided
    <2>2. QED
      BY <2>1, KeepOnRide, ChangeRide, ReadFailsRide DEF Next
  <1>2. QED
    BY InitRide, AlgorithmInvariance, <1>1, PTL DEF Spec

\* After a braking of detect_brake_1, the first window that lies wholly within
\* a steady ride is not braking, whatever the filter remembers, for every
\* threshold below zero and any accelerations, while every read works.
THEOREM BrakingEnds == Spec => [](badReads = 0 => ReleaseEndsBraking)
  <1>1. AlgorithmInv /\ RideInv => (badReads = 0 => ReleaseEndsBraking)
    <2> SUFFICES ASSUME AlgorithmInv, RideInv, badReads = 0, level >= 0,
                        steady >= (2 + badReads) * Window - 1
                 PROVE  ~braking
      BY DEF ReleaseEndsBraking
    <2>1. steady \in Nat /\ steady >= 19 /\ Len(arr) \in Nat /\ Len(arr) <= 9
      BY DEF AlgorithmInv, RideInv, Window
    <2>2. steady >= Len(arr) + Window
      BY <2>1 DEF Window
    <2>3. QED
      BY <2>2 DEF RideInv
  <1>2. QED
    BY <1>1, AlgorithmInvariance, RideInvariance, PTL

-----------------------------------------------------------------------------
(* A hard deceleration is noticed.                                         *)

\* The accelerometer's range.
MaxAx == 2000

\* The ranges in which it is: the code's threshold or a higher one, the code's
\* count or a lower one, and accelerations that the sensor can measure.
Ranges ==
  /\ Threshold >= -150 /\ Hard <= -250 /\ DecelMin <= 4
  /\ \A ax \in Levels \cup BadReads : ax <= MaxAx

\* The first value of the window being filled.
FirstValue == IF arr = <<>> THEN Filter(level, filtered) ELSE arr[1]

\* Each value of a window that began in this ride is the filter's next one.
Following ==
    badReads = 0 /\ steady >= Len(arr) =>
        /\ arr # <<>> => arr[Len(arr)] = filtered
        /\ \A i \in 1 .. Len(arr) - 1 : arr[i + 1] = Filter(level, arr[i])

\* How far the filter is, at least, from a hard deceleration after so many
\* samples of it.
Least == <<250, 200, 160, 128, 102, 81, 64, 51, 40, 32>>

\* The inductive invariant of StepIsDetected, for accelerations up to MaxAx.
\* While the window that was being filled goes on, the filter falls; the first
\* whole window falls, too, and if its average is not low enough, then the
\* filter is still far enough from its end to fall through the second one.
StepInv ==
    /\ filtered <= MaxAx /\ level <= MaxAx
    /\ Following
    /\ badReads = 0 /\ level <= Hard /\ before >= 0 /\ ~detected =>
        /\ steady < Len(arr) => filtered - level >= Least[steady + 1]
        /\ steady >= Len(arr) /\ steady < Len(arr) + Window =>
            /\ FirstValue - level >= 25
            /\ 5 * (FirstValue - level) <= 4 * (MaxAx - level)
        /\ steady >= Len(arr) + Window =>
            /\ FirstValue - level >= 22
            /\ 100 * (FirstValue - level) <= 9 * (MaxAx - level)
        /\ steady < Len(arr) + 2 * Window

\* What is left of a difference u after one sample, rounded down.
Decays(u, v) == 5 * v <= 4 * u /\ 5 * v >= 4 * u - 4

LEMMA FilterDecays ==
  ASSUME NEW ax \in Int, NEW f \in Int
  PROVE  Decays(f - ax, Filter(ax, f) - ax)
  <1> DEFINE s == ax + 4 * f
             q == s \div 5
  <1>1. s \in Int /\ q \in Int /\ 5 * q <= s /\ 5 * q >= s - 4
    OBVIOUS
  <1>2. Filter(ax, f) = q
    BY DEF Filter
  <1>3. 5 * (q - ax) <= 4 * (f - ax) /\ 5 * (q - ax) >= 4 * (f - ax) - 4
    <2>1. s = ax + 4 * f
      OBVIOUS
    <2> HIDE DEF s, q
    <2>2. QED
      BY <1>1, <2>1
  <1> HIDE DEF q
  <1>4. QED
    BY <1>2, <1>3 DEF Decays

\* The filter does not rise above the range.
LEMMA FilterInRange ==
  ASSUME NEW ax \in Int, NEW f \in Int, ax <= MaxAx, f <= MaxAx
  PROVE  Filter(ax, f) <= MaxAx
  <1> DEFINE s == ax + 4 * f
  <1>1. s \in Int /\ s <= 5 * 2000
    BY DEF MaxAx
  <1> HIDE DEF s
  <1>2. s \div 5 <= 2000
    BY <1>1
  <1>3. QED
    BY <1>2 DEF Filter, MaxAx, s

\* Ten differences of a window: it falls at its first four values; if their sum
\* is not low, the last one is still large; and a first one below nine
\* hundredths of the range makes the sum low.
LEMMA TenDifferences ==
  ASSUME NEW u1 \in Int, NEW u2 \in Int, NEW u3 \in Int, NEW u4 \in Int,
         NEW u5 \in Int, NEW u6 \in Int, NEW u7 \in Int, NEW u8 \in Int,
         NEW u9 \in Int, NEW u10 \in Int,
         Decays(u1, u2), Decays(u2, u3), Decays(u3, u4), Decays(u4, u5),
         Decays(u5, u6), Decays(u6, u7), Decays(u7, u8), Decays(u8, u9),
         Decays(u9, u10), u1 >= 22
  PROVE  /\ u2 < u1 /\ u3 < u2 /\ u4 < u3 /\ u5 < u4
         /\ (u1 + u2 + u3 + u4 + u5) + (u6 + u7 + u8 + u9 + u10) > 1000
              => u10 >= 28
         /\ \A m \in Int : m >= 2250 /\ 100 * u1 <= 9 * m =>
              (u1 + u2 + u3 + u4 + u5) + (u6 + u7 + u8 + u9 + u10)
                <= 10 * m - 21500
         /\ \A m \in Int : m >= 2250 /\ 5 * u1 <= 4 * m =>
              100 * u10 <= 11 * m
  <1> USE DEF Decays
  <1>1. u2 < u1 /\ u3 < u2 /\ u4 < u3 /\ u5 < u4
    OBVIOUS
  <1>2. (u1 + u2 + u3 + u4 + u5) + (u6 + u7 + u8 + u9 + u10) > 1000 => u10 >= 28
    OBVIOUS
  <1>3. ASSUME NEW m \in Int, m >= 2250, 100 * u1 <= 9 * m
        PROVE  (u1 + u2 + u3 + u4 + u5) + (u6 + u7 + u8 + u9 + u10)
                 <= 10 * m - 21500
    BY <1>3
  <1>4. ASSUME NEW m \in Int, m >= 2250, 5 * u1 <= 4 * m
        PROVE  100 * u10 <= 11 * m
    BY <1>4
  <1>5. QED
    BY <1>1, <1>2, <1>3, <1>4

LEMMA Interval ==
  ASSUME NEW n \in Nat
  PROVE  IsFiniteSet(1 .. n) /\ Cardinality(1 .. n) = n
  <1>1. IsFiniteSet(1 .. n) /\ Cardinality(1 .. n) = IF 1 > n THEN 0 ELSE n - 1 + 1
    BY FS_Interval
  <1>2. QED
    BY <1>1

\* Four falls at the beginning are enough of them.
LEMMA FourFalls ==
  ASSUME NEW w, w[2] < w[1], w[3] < w[2], w[4] < w[3], w[5] < w[4]
  PROVE  Falls(w) \in Nat /\ Falls(w) >= 4
  <1> DEFINE S == {i \in 1 .. Window - 1 : w[i + 1] < w[i]}
             T == 1 .. 4
  <1>1. T \in SUBSET S
    <2> SUFFICES ASSUME NEW i \in 1 .. 4 PROVE i \in 1 .. 9 /\ w[i + 1] < w[i]
      BY DEF Window
    <2>1. i = 1 \/ i = 2 \/ i = 3 \/ i = 4
      OBVIOUS
    <2>2. QED
      BY <2>1
  <1>2. S \in SUBSET (1 .. 9)
    BY DEF Window
  <1> HIDE DEF S
  <1>3. IsFiniteSet(S)
    <2>1. 9 \in Nat
      OBVIOUS
    <2>2. IsFiniteSet(1 .. 9)
      BY <2>1, Interval, Zenon
    <2>3. QED
      BY <1>2, <2>2, FS_Subset
  <1>5. Cardinality(T) = 4
    <2>1. 4 \in Nat
      OBVIOUS
    <2>2. QED
      BY <2>1, Interval, Zenon
  <1> HIDE DEF T
  <1>6. Cardinality(T) <= Cardinality(S) /\ Cardinality(S) \in Nat
    BY <1>1, <1>3, FS_Subset, FS_CardinalityType
  <1>7. QED
    BY <1>5, <1>6 DEF Falls, S

\* One sample more of a hard deceleration.
LEMMA LeastFollows ==
  ASSUME NEW s \in 0 .. 8, NEW u \in Int, NEW v \in Int,
         u >= Least[s + 1], Decays(u, v)
  PROVE  v >= Least[s + 2] /\ v >= 32
  <1>1. \/ s = 0 /\ u >= 250 /\ Least[s + 2] = 200
        \/ s = 1 /\ u >= 200 /\ Least[s + 2] = 160
        \/ s = 2 /\ u >= 160 /\ Least[s + 2] = 128
        \/ s = 3 /\ u >= 128 /\ Least[s + 2] = 102
        \/ s = 4 /\ u >= 102 /\ Least[s + 2] = 81
        \/ s = 5 /\ u >= 81 /\ Least[s + 2] = 64
        \/ s = 6 /\ u >= 64 /\ Least[s + 2] = 51
        \/ s = 7 /\ u >= 51 /\ Least[s + 2] = 40
        \/ s = 8 /\ u >= 40 /\ Least[s + 2] = 32
    BY DEF Least
  <1>2. QED
    BY <1>1 DEF Decays

\* A whole window of one acceleration, from its first value.
LEMMA WholeWindow ==
  ASSUME NEW l \in Int, NEW w, \A i \in 1 .. Window : w[i] \in Int,
         \A i \in 1 .. Window - 1 : w[i + 1] = Filter(l, w[i]),
         w[1] - l >= 22
  PROVE  /\ Falls(w) \in Nat /\ Falls(w) >= 4 /\ Sum(w) \in Int
         /\ w[10] \in Int
         /\ Sum(w) > 10 * l + 1000 => w[10] - l >= 28
         /\ \A m \in Int : m >= 2250 /\ 100 * (w[1] - l) <= 9 * m =>
              Sum(w) <= 10 * l + 10 * m - 21500
         /\ \A m \in Int : m >= 2250 /\ 5 * (w[1] - l) <= 4 * m =>
              100 * (w[10] - l) <= 11 * m
  <1>1. \A i \in 1 .. 10 : w[i] \in Int
    BY DEF Window
  <1>2. /\ w[1] \in Int /\ w[2] \in Int /\ w[3] \in Int /\ w[4] \in Int
        /\ w[5] \in Int /\ w[6] \in Int /\ w[7] \in Int /\ w[8] \in Int
        /\ w[9] \in Int /\ w[10] \in Int
    BY <1>1
  <1>3. /\ w[2] = Filter(l, w[1]) /\ w[3] = Filter(l, w[2])
        /\ w[4] = Filter(l, w[3]) /\ w[5] = Filter(l, w[4])
        /\ w[6] = Filter(l, w[5]) /\ w[7] = Filter(l, w[6])
        /\ w[8] = Filter(l, w[7]) /\ w[9] = Filter(l, w[8])
        /\ w[10] = Filter(l, w[9])
    BY DEF Window
  <1>4. Sum(w) = (w[1] + w[2] + w[3] + w[4] + w[5])
                   + (w[6] + w[7] + w[8] + w[9] + w[10])
    BY Zenon DEF Sum
  <1>5. /\ Decays(w[1] - l, w[2] - l) /\ Decays(w[2] - l, w[3] - l)
        /\ Decays(w[3] - l, w[4] - l) /\ Decays(w[4] - l, w[5] - l)
        /\ Decays(w[5] - l, w[6] - l) /\ Decays(w[6] - l, w[7] - l)
        /\ Decays(w[7] - l, w[8] - l) /\ Decays(w[8] - l, w[9] - l)
        /\ Decays(w[9] - l, w[10] - l)
    BY <1>2, <1>3, FilterDecays
  <1> DEFINE u(i) == w[i] - l
             d == (u(1) + u(2) + u(3) + u(4) + u(5))
                    + (u(6) + u(7) + u(8) + u(9) + u(10))
  <1>6. /\ u(1) \in Int /\ u(2) \in Int /\ u(3) \in Int /\ u(4) \in Int
        /\ u(5) \in Int /\ u(6) \in Int /\ u(7) \in Int /\ u(8) \in Int
        /\ u(9) \in Int /\ u(10) \in Int
    BY <1>2
  <1>7. /\ u(2) < u(1) /\ u(3) < u(2) /\ u(4) < u(3) /\ u(5) < u(4)
        /\ d > 1000 => u(10) >= 28
        /\ \A m \in Int : m >= 2250 /\ 100 * u(1) <= 9 * m =>
             d <= 10 * m - 21500
        /\ \A m \in Int : m >= 2250 /\ 5 * u(1) <= 4 * m =>
             100 * u(10) <= 11 * m
    <2>1. u(1) >= 22
      OBVIOUS
    <2> HIDE DEF d
    <2>2. /\ Decays(u(1), u(2)) /\ Decays(u(2), u(3)) /\ Decays(u(3), u(4))
          /\ Decays(u(4), u(5)) /\ Decays(u(5), u(6)) /\ Decays(u(6), u(7))
          /\ Decays(u(7), u(8)) /\ Decays(u(8), u(9)) /\ Decays(u(9), u(10))
      BY <1>5
    <2> HIDE DEF u
    <2>3. QED
      BY <1>6, <2>1, <2>2, TenDifferences DEF d
  <1>8. d \in Int /\ Sum(w) \in Int /\ Sum(w) = 10 * l + d
    BY <1>2, <1>4
  <1> HIDE DEF d
  <1>9. Sum(w) > 10 * l + 1000 => w[10] - l >= 28
    BY <1>7, <1>8
  <1>10. ASSUME NEW m \in Int, m >= 2250, 100 * (w[1] - l) <= 9 * m
        PROVE  Sum(w) <= 10 * l + 10 * m - 21500
    <2>1. d <= 10 * m - 21500
      BY <1>7, <1>10
    <2>2. QED
      BY <1>8, <2>1
  <1>11. w[2] < w[1] /\ w[3] < w[2] /\ w[4] < w[3] /\ w[5] < w[4]
    BY <1>2, <1>7
  <1>12. Falls(w) \in Nat /\ Falls(w) >= 4
    BY <1>11, FourFalls
  <1>13. QED
    BY <1>2, <1>7, <1>8, <1>9, <1>10, <1>12

-----------------------------------------------------------------------------
(* The invariant of a hard deceleration.                                   *)

LEMMA InitStep ==
  ASSUME Ranges
  PROVE  Init => StepInv
  <1> SUFFICES ASSUME Init PROVE StepInv
    OBVIOUS
  <1>1. arr = <<>> /\ filtered = 0 /\ level = 0
    BY DEF Init
  <1>2. ~(level <= Hard)
    BY <1>1, AlgorithmAssumption DEF AlgorithmAssumption, Ranges
  <1>3. filtered <= MaxAx /\ level <= MaxAx
    BY <1>1 DEF MaxAx
  <1>4. Following
    BY <1>1 DEF Following
  <1>5. QED
    BY <1>2, <1>3, <1>4 DEF StepInv

\* What is left after the next sample of the acceleration l, from f.
LEMMA NextDifference ==
  ASSUME NEW l \in Int, NEW f \in Int, l <= MaxAx, f <= MaxAx
  PROVE  /\ f - l >= 250 => Filter(l, f) - l >= 25
         /\ f - l >= 32 => Filter(l, f) - l >= 25
         /\ f - l >= 28 => Filter(l, f) - l >= 22
         /\ f - l >= 0 => 5 * (Filter(l, f) - l) <= 4 * (MaxAx - l)
         /\ 100 * (f - l) <= 11 * (MaxAx - l) =>
              100 * (Filter(l, f) - l) <= 9 * (MaxAx - l)
  <1> DEFINE v == Filter(l, f)
  <1>1. v \in Int
    BY FilterType
  <1>2. 5 * (v - l) <= 4 * (f - l) /\ 5 * (v - l) >= 4 * (f - l) - 4
    BY FilterDecays DEF Decays
  <1> HIDE DEF v
  <1>3. MaxAx \in Int
    BY DEF MaxAx
  <1>4. /\ f - l >= 250 => v - l >= 25
        /\ f - l >= 32 => v - l >= 25
        /\ f - l >= 28 => v - l >= 22
        /\ 5 * (v - l) <= 4 * (MaxAx - l)
    BY <1>1, <1>2, <1>3
  <1>5. 100 * (f - l) <= 11 * (MaxAx - l) => 100 * (v - l) <= 9 * (MaxAx - l)
    BY <1>1, <1>2, <1>3
  <1>6. QED
    BY <1>4, <1>5 DEF v

LEMMA ChangeInStep ==
  ASSUME Ranges, AlgorithmInv, StepInv, NEW ax \in Levels, Change(ax)
  PROVE  StepInv'
  <1>1. /\ level' = ax /\ ax \in Int /\ ax <= MaxAx /\ before' = filtered
        /\ steady' = 0 /\ UNCHANGED <<filtered, arr, badReads>>
    BY AlgorithmAssumption DEF AlgorithmAssumption, Change, detector, Ranges
  <1>2. filtered \in Int /\ arr \in Seq(Int) /\ Len(arr) \in Nat
    BY DEF AlgorithmInv
  <1>3. filtered <= MaxAx
    BY DEF StepInv
  <1>4. Following'
    <2>1. CASE Len(arr) = 0
      BY <1>1, <1>2, <2>1 DEF Following
    <2>2. CASE Len(arr) > 0
      BY <1>1, <1>2, <2>2 DEF Following
    <2>3. QED
      BY <1>2, <2>1, <2>2
  <1>5. ASSUME level' <= Hard, before' >= 0
        PROVE  filtered - ax >= 250
    BY <1>1, <1>2, <1>5, AlgorithmAssumption DEF AlgorithmAssumption, Ranges
  <1>6. ASSUME level' <= Hard, before' >= 0
        PROVE  /\ steady' < Len(arr') => filtered' - level' >= Least[steady' + 1]
               /\ steady' >= Len(arr') /\ steady' < Len(arr') + Window =>
                    /\ FirstValue' - level' >= 25
                    /\ 5 * (FirstValue' - level') <= 4 * (MaxAx - level')
               /\ ~(steady' >= Len(arr') + Window)
               /\ steady' < Len(arr') + 2 * Window
    <2>1. filtered' - level' >= Least[steady' + 1]
      <3>1. Least[0 + 1] = 250
        BY DEF Least
      <3>2. QED
        BY <1>1, <1>5, <1>6, <3>1
    <2>2. ASSUME steady' >= Len(arr')
          PROVE  /\ FirstValue' - level' >= 25
                 /\ 5 * (FirstValue' - level') <= 4 * (MaxAx - level')
      <3>1. arr' = <<>>
        BY <1>1, <1>2, <2>2
      <3>2. FirstValue' = Filter(ax, filtered)
        BY <1>1, <3>1 DEF FirstValue
      <3>3. filtered - ax >= 250 /\ filtered - ax >= 0
        BY <1>1, <1>2, <1>5, <1>6
      <3>4. QED
        BY <1>1, <1>2, <1>3, <3>2, <3>3, NextDifference
    <2>3. ~(steady' >= Len(arr') + Window) /\ steady' < Len(arr') + 2 * Window
      BY <1>1, <1>2 DEF Window
    <2>4. QED
      BY <2>1, <2>2, <2>3
  <1>7. QED
    BY <1>1, <1>3, <1>4, <1>6 DEF StepInv

LEMMA ReadFailsInStep ==
  ASSUME Ranges, AlgorithmInv, RideInv, StepInv, NEW ax \in BadReads, ReadFails(ax)
  PROVE  StepInv'
  <1>1. badReads' # 0
    BY DEF RideInv, ReadFails
  <1>2. level' = level /\ filtered' = Filter(ax, filtered)
    BY DEF ReadFails, Sample, Receive
  <1>3. ax \in Int /\ ax <= MaxAx /\ filtered \in Int /\ filtered <= MaxAx
        /\ level <= MaxAx
    BY AlgorithmAssumption DEF AlgorithmAssumption, Ranges, AlgorithmInv, StepInv
  <1>4. filtered' <= MaxAx /\ level' <= MaxAx
    BY <1>2, <1>3, FilterInRange
  <1>5. QED
    BY <1>1, <1>4 DEF StepInv, Following

\* A window of a hard deceleration that falls, and whose average is low.
LEMMA LowIsBraking ==
  ASSUME Ranges, NEW w, Falls(w) \in Nat, Falls(w) >= 4, Sum(w) \in Int,
         ~IsBraking(w)
  PROVE  Sum(w) > -1500
  <1>1. Threshold \in Int /\ Threshold >= -150 /\ DecelMin \in Int /\ DecelMin <= 4
    BY AlgorithmAssumption DEF AlgorithmAssumption, Ranges
  <1>2. Falls(w) >= DecelMin
    BY <1>1
  <1>3. ~(Sum(w) <= 10 * Threshold)
    BY <1>2 DEF IsBraking, Low, Window
  <1>4. QED
    BY <1>1, <1>3

LEMMA KeepOnInStep ==
  ASSUME Ranges, AlgorithmInv, RideInv, StepInv, KeepOn
  PROVE  StepInv'
  <1> DEFINE f == Filter(level, filtered)
             w == Append(arr, f)
             n == Len(arr)
  <1>1. /\ level \in Int /\ filtered \in Int /\ arr \in Seq(Int)
        /\ n \in Nat /\ n <= 9 /\ steady \in 0 .. 30 /\ badReads \in Nat
        /\ filtered <= MaxAx /\ level <= MaxAx
    BY DEF AlgorithmInv, RideInv, StepInv, Window
  <1>2. /\ level' = level /\ badReads' = badReads /\ filtered' = f
        /\ before' = before
        /\ steady' = IF steady < 30 THEN steady + 1 ELSE steady
        /\ IF Len(w) >= Window
           THEN arr' = <<>> /\ braking' = IsBraking(w)
           ELSE arr' = w /\ braking' = braking
    BY DEF KeepOn, Sample, Receive, Stored, Window
  <1>2a. ~detected' => ~detected /\ ~(arr' = <<>> /\ braking')
    BY Zenon DEF KeepOn, Sample
  <1>3. f \in Int /\ f <= MaxAx
    BY <1>1, FilterType, FilterInRange
  <1>4. /\ w \in Seq(Int) /\ Len(w) = n + 1 /\ w[n + 1] = f
        /\ \A i \in 1 .. n : w[i] = arr[i]
    BY <1>1, <1>3
  <1>5. Len(w) \in Nat /\ Len(w) = n + 1 /\ w # <<>>
    BY <1>1, <1>4
  <1>6. ASSUME badReads = 0, steady >= n
        PROVE  /\ \A i \in 1 .. n : w[i + 1] = Filter(level, w[i])
               /\ w[1] = FirstValue
    <2>1. /\ arr # <<>> => arr[n] = filtered
          /\ \A i \in 1 .. n - 1 : arr[i + 1] = Filter(level, arr[i])
      BY <1>6 DEF StepInv, Following
    <2>2. ASSUME NEW i \in 1 .. n PROVE w[i + 1] = Filter(level, w[i])
      <3>1. CASE i < n
        <4>1. i \in 1 .. n - 1 /\ i + 1 \in 1 .. n
          BY <1>1, <3>1
        <4>2. w[i] = arr[i] /\ w[i + 1] = arr[i + 1]
          BY <1>4, <4>1
        <4>3. QED
          BY <2>1, <4>1, <4>2
      <3>2. CASE i = n
        <4>1. arr # <<>> /\ w[i] = filtered /\ w[i + 1] = f
          BY <1>1, <1>4, <2>1, <3>2
        <4>2. QED
          BY <4>1
      <3>3. QED
        BY <1>1, <3>1, <3>2
    <2>3. w[1] = FirstValue
      <3>1. CASE arr = <<>>
        <4>1. n = 0 /\ w[1] = f
          BY <1>4, <3>1
        <4>2. QED
          BY <3>1, <4>1 DEF FirstValue
      <3>2. CASE arr # <<>>
        <4>1. 1 \in 1 .. n
          BY <1>1, <3>2
        <4>2. QED
          BY <1>4, <3>2, <4>1 DEF FirstValue
      <3>3. QED
        BY <3>1, <3>2
    <2>4. QED
      BY <2>2, <2>3
  <1> HIDE DEF f, w, n
  <1> DEFINE Hard1 == badReads = 0 /\ level <= Hard /\ before >= 0
  <1>7. ASSUME Hard1, ~detected'
        PROVE  /\ steady < n => filtered - level >= Least[steady + 1]
               /\ steady >= n /\ steady < n + 10 =>
                    /\ w[1] - level >= 25
                    /\ 5 * (w[1] - level) <= 4 * (MaxAx - level)
               /\ steady >= n + 10 =>
                    /\ w[1] - level >= 22
                    /\ 100 * (w[1] - level) <= 9 * (MaxAx - level)
               /\ steady < n + 20 /\ steady' = steady + 1
    <2>1. ~detected
      BY <1>2a, <1>7
    <2>2. /\ steady < n => filtered - level >= Least[steady + 1]
          /\ steady >= n /\ steady < n + 10 =>
                    /\ FirstValue - level >= 25
                    /\ 5 * (FirstValue - level) <= 4 * (MaxAx - level)
          /\ steady >= n + 10 =>
                    /\ FirstValue - level >= 22
                    /\ 100 * (FirstValue - level) <= 9 * (MaxAx - level)
          /\ steady < n + 20
      BY <1>7, <2>1 DEF StepInv, Window, n
    <2>3. steady >= n => w[1] = FirstValue
      BY <1>6, <1>7
    <2>4. steady >= n + 10 => steady >= n
      BY <1>1
    <2>5. steady' = steady + 1
      BY <1>1, <1>2, <2>2
    <2>6. QED
      BY <2>2, <2>3, <2>4, <2>5
  <1>8. ASSUME Hard1, ~detected', steady < n
        PROVE  f - level >= Least[steady + 2] /\ f - level >= 32
    <2>1. steady \in 0 .. 8
      BY <1>1, <1>8
    <2>2. filtered - level >= Least[steady + 1]
      BY <1>7, <1>8
    <2>3. Decays(filtered - level, f - level)
      BY <1>1, FilterDecays DEF f
    <2>4. filtered - level \in Int /\ f - level \in Int
      BY <1>1, <1>3
    <2>5. QED
      BY <2>1, <2>2, <2>3, <2>4, LeastFollows
  <1>9. CASE Len(w) >= Window
    <2>1. n = 9 /\ Len(w) = 10
      BY <1>1, <1>5, <1>9 DEF Window
    <2>2. /\ arr' = <<>> /\ Len(arr') = 0
          /\ braking' = IsBraking(w) /\ FirstValue' = Filter(level, f)
      BY <1>2, <1>9 DEF FirstValue
    <2>3. Following'
      BY <2>2 DEF Following
    <2>4. ASSUME Hard1, ~detected'
          PROVE  /\ steady' < 10 =>
                      /\ FirstValue' - level' >= 25
                      /\ 5 * (FirstValue' - level') <= 4 * (MaxAx - level')
                 /\ steady' >= 10 =>
                      /\ FirstValue' - level' >= 22
                      /\ 100 * (FirstValue' - level') <= 9 * (MaxAx - level')
                 /\ steady' < 20
      <3>1. ~IsBraking(w)
        BY <1>2a, <2>2, <2>4
      <3>2. steady' = steady + 1
        BY <1>7, <2>4
      <3>3. CASE steady < n
        <4>1. f - level >= 32 /\ f - level >= 0
          BY <1>1, <1>3, <1>8, <2>4, <3>3
        <4>2. /\ Filter(level, f) - level >= 25
              /\ 5 * (Filter(level, f) - level) <= 4 * (MaxAx - level)
          BY <1>1, <1>3, <4>1, NextDifference
        <4>3. steady' < 10
          BY <1>1, <2>1, <3>2, <3>3
        <4>4. QED
          BY <1>1, <1>2, <2>2, <3>2, <3>3, <4>2, <4>3, <2>1
      <3>4. CASE steady >= n
        <4>1. /\ level <= -250 /\ MaxAx - level \in Int /\ MaxAx - level >= 2250
          BY <1>1, <2>4, AlgorithmAssumption DEF AlgorithmAssumption, Ranges, MaxAx
        <4>2. w[1] - level >= 22 /\ \A i \in 1 .. Window : w[i] \in Int
          <5>1. \A i \in 1 .. Window : w[i] \in Int
            BY <1>4, <2>1, ElementOfSeq DEF Window
          <5>2. w[1] \in Int
            BY <5>1 DEF Window
          <5>3. QED
            BY <1>1, <1>7, <2>4, <3>4, <5>1, <5>2
        <4>3. \A i \in 1 .. Window - 1 : w[i + 1] = Filter(level, w[i])
          BY <1>6, <2>1, <2>4, <3>4 DEF Window
        <4>4. /\ Falls(w) \in Nat /\ Falls(w) >= 4 /\ Sum(w) \in Int
              /\ w[10] = f
              /\ Sum(w) > 10 * level + 1000 => f - level >= 28
              /\ 100 * (w[1] - level) <= 9 * (MaxAx - level) =>
                   Sum(w) <= 10 * level + 10 * (MaxAx - level) - 21500
              /\ 5 * (w[1] - level) <= 4 * (MaxAx - level) =>
                   100 * (f - level) <= 11 * (MaxAx - level)
          <5>1. w[10] = f
            BY <1>4, <2>1
          <5>2. /\ Falls(w) \in Nat /\ Falls(w) >= 4 /\ Sum(w) \in Int
                /\ Sum(w) > 10 * level + 1000 => w[10] - level >= 28
                /\ \A m \in Int : m >= 2250 /\ 100 * (w[1] - level) <= 9 * m =>
                     Sum(w) <= 10 * level + 10 * m - 21500
                /\ \A m \in Int : m >= 2250 /\ 5 * (w[1] - level) <= 4 * m =>
                     100 * (w[10] - level) <= 11 * m
            <6>1. level \in Int
              BY <1>1
            <6>2. QED
              BY <4>2, <4>3, <6>1, WholeWindow
          <5>3. QED
            BY <4>1, <5>1, <5>2
        <4>5. Sum(w) > -1500
          BY <3>1, <4>4, LowIsBraking
        <4>6. CASE steady < n + 10
          <5>1. f - level >= 28 /\ 100 * (f - level) <= 11 * (MaxAx - level)
            BY <1>1, <1>7, <2>4, <3>4, <4>1, <4>4, <4>5, <4>6
          <5>2. /\ Filter(level, f) - level >= 22
                /\ 100 * (Filter(level, f) - level) <= 9 * (MaxAx - level)
            BY <1>1, <1>3, <5>1, NextDifference
          <5>3. ~(steady' < 10) /\ steady' < 20
            BY <1>1, <2>1, <3>2, <3>4, <4>6
          <5>4. QED
            BY <1>2, <2>2, <5>2, <5>3
        <4>7. CASE steady >= n + 10
          <5>1. 100 * (w[1] - level) <= 9 * (MaxAx - level)
            BY <1>7, <2>4, <4>7
          <5>2. Sum(w) <= 10 * level + 10 * (MaxAx - level) - 21500
            BY <4>4, <5>1
          <5>3. QED
            BY <1>1, <4>4, <4>5, <5>2 DEF MaxAx
        <4>8. QED
          BY <1>1, <4>6, <4>7
      <3>5. QED
        BY <1>1, <3>3, <3>4
    <2>5. ~(steady' < 0) /\ steady' \in Nat
      BY <1>1, <1>2
    <2>6. filtered' <= MaxAx /\ level' <= MaxAx
      BY <1>1, <1>2, <1>3
    <2>7. QED
      BY <1>2, <2>2, <2>3, <2>4, <2>5, <2>6 DEF StepInv, Window
  <1>10. CASE Len(w) < Window
    <2>1. arr' = w /\ Len(arr') = n + 1 /\ n + 1 <= 9
      BY <1>1, <1>2, <1>5, <1>10 DEF Window
    <2>2. FirstValue' = w[1]
      BY <1>5, <2>1 DEF FirstValue
    <2>3. steady' >= n + 1 => steady >= n
      BY <1>1, <1>2
    <2>4. Following'
      <3> SUFFICES ASSUME badReads' = 0, steady' >= Len(arr')
                   PROVE  /\ arr'[Len(arr')] = filtered'
                          /\ \A i \in 1 .. Len(arr') - 1 :
                               arr'[i + 1] = Filter(level', arr'[i])
        BY DEF Following
      <3>1. badReads = 0 /\ steady >= n
        BY <1>2, <2>1, <2>3
      <3>2. \A i \in 1 .. n : w[i + 1] = Filter(level, w[i])
        BY <1>6, <3>1
      <3>3. 1 .. Len(arr') - 1 = 1 .. n
        BY <1>1, <2>1
      <3>4. QED
        BY <1>2, <1>4, <2>1, <3>2, <3>3
    <2>5. ASSUME Hard1, ~detected'
          PROVE  /\ steady' < n + 1 => filtered' - level' >= Least[steady' + 1]
                 /\ steady' >= n + 1 /\ steady' < n + 1 + 10 =>
                      /\ FirstValue' - level' >= 25
                      /\ 5 * (FirstValue' - level') <= 4 * (MaxAx - level')
                 /\ steady' >= n + 1 + 10 =>
                      /\ FirstValue' - level' >= 22
                      /\ 100 * (FirstValue' - level') <= 9 * (MaxAx - level')
                 /\ steady' < n + 1 + 20
      <3>1. steady' = steady + 1 /\ steady < n + 20
        BY <1>7, <2>5
      <3>2. /\ steady' < n + 1 => steady < n
            /\ steady' < n + 1 + 10 => steady < n + 10
            /\ steady' >= n + 1 + 10 => steady >= n + 10
            /\ steady' < n + 1 + 20
        BY <1>1, <3>1
      <3>3. steady' + 1 = steady + 2
        BY <1>1, <3>1
      <3>4. steady' < n + 1 => filtered' - level' >= Least[steady' + 1]
        BY <1>2, <1>8, <2>5, <3>2, <3>3
      <3>5. QED
        BY <1>2, <1>7, <2>2, <2>3, <2>5, <3>2, <3>4
    <2>6. filtered' <= MaxAx /\ level' <= MaxAx
      BY <1>1, <1>2, <1>3
    <2>7. QED
      BY <1>2, <2>1, <2>4, <2>5, <2>6 DEF StepInv, Window
  <1>11. QED
    BY <1>1, <1>5, <1>9, <1>10 DEF Window

\* While every read works, a deceleration from Hard on is on its way to a
\* verdict of braking.
THEOREM StepInvariance ==
  ASSUME Ranges
  PROVE  Spec => []StepInv
  <1>1. AlgorithmInv /\ RideInv /\ StepInv /\ [Next]_vars => StepInv'
    <2>1. StepInv /\ UNCHANGED vars => StepInv'
      BY DEF vars, detector, StepInv, Following, FirstValue
    <2>2. QED
      BY <2>1, KeepOnInStep, ChangeInStep, ReadFailsInStep DEF Next
  <1>2. QED
    BY InitStep, AlgorithmInvariance, RideInvariance, <1>1, PTL DEF Spec

\* detect_brake_1 notices a rider who was not braking and now brakes with a
\* quarter of g or more, within three windows and wherever in a window it
\* begins, for every such deceleration that the sensor can measure.
THEOREM StepsAreDetected ==
  ASSUME Ranges
  PROVE  Spec => []StepIsDetected
  <1>1. AlgorithmInv /\ RideInv /\ StepInv => StepIsDetected
    <2> SUFFICES ASSUME AlgorithmInv, RideInv, StepInv, level <= Hard,
                        before >= 0, steady >= 3 * Window - 1, badReads = 0,
                        ~detected
                 PROVE  FALSE
      BY DEF StepIsDetected
    <2>1. steady \in Nat /\ Len(arr) \in Nat /\ Len(arr) <= 9
      BY DEF AlgorithmInv, RideInv, Window
    <2>2. steady < Len(arr) + 20 /\ steady >= 29
      BY DEF StepInv, Window
    <2>3. QED
      BY <2>1, <2>2
  <1>2. QED
    BY <1>1, AlgorithmInvariance, RideInvariance, StepInvariance, PTL
=============================================================================
