-------------------------- MODULE BrakeReadProofs --------------------------
(***************************************************************************)
(* ReleaseEndsBraking with a failed read: what one sample that says        *)
(* anything up to 2 g can do to a window of a ride.  The average of such a *)
(* window comes within two per cent of the threshold, so its values are    *)
(* followed one by one.                                                    *)
(***************************************************************************)
EXTENDS BrakeAlgorithmProofs

\* The ranges in which it holds: the code's threshold or a lower one, the
\* code's count or a higher one, and accelerations that the sensor can measure.
RideRanges ==
  /\ Threshold <= -148 /\ DecelMin >= 4
  /\ \A ax \in Levels \cup BadReads : ax >= -MaxAx

\* What the filter may still remember, at least, of the time before a ride,
\* after so many samples of it; and how a failed read has faded after so many.
Memory == <<-2000, -1600, -1280, -1024, -820, -656,
            -525, -420, -336, -269, -216, -173>>
Rebound == <<-400, -320, -256, -205, -164, -132, -106, -85, -68, -55>>

\* The windows of a ride with one failed read, which began when ten samples of
\* it were over: it falls once; or not below zero until the read, from where it
\* rises again; or it has only what the filter still remembers below zero.
OnceFallen(w) ==
    \E q \in 0 .. Window : \A i \in 1 .. Len(w) - 1 : i = q \/ w[i] <= w[i + 1]

FallenBelow(w) ==
    \E p \in 1 .. Len(w) :
        /\ \A i \in 1 .. p - 1 : w[i] >= 0
        /\ \A i \in p .. Len(w) : w[i] >= Rebound[i - p + 1]
        /\ \A i \in p .. Len(w) - 1 : w[i] <= w[i + 1]

Faded(w) == \A i \in 1 .. Len(w) : w[i] >= IF i = 1 THEN -173 ELSE -139

Disturbed(w, f) ==
    \/ f <= level /\ (OnceFallen(w) \/ FallenBelow(w))
    \/ f >= level /\ Faded(w)

\* The inductive invariant of ReleaseEndsBraking with a failed read, for
\* accelerations down to -MaxAx.
ReadInv ==
    /\ filtered >= -MaxAx /\ level >= -MaxAx
    /\ badReads = 0 /\ level >= 0 =>
        /\ filtered >= Memory[LowestOf(steady, 11) + 1]
        /\ steady >= Len(arr) + Window => Faded(arr)
    /\ badReads = 1 /\ level >= 0 /\ steady >= Len(arr) + Window =>
        /\ arr # <<>> => arr[Len(arr)] = filtered
        /\ Disturbed(arr, filtered)
        /\ steady >= Len(arr) + 2 * Window => ~braking

\* One step of the filter, as inequalities.
LEMMA FilterBounds ==
  ASSUME NEW ax \in Int, NEW f \in Int
  PROVE  /\ Filter(ax, f) \in Int
         /\ 5 * Filter(ax, f) <= ax + 4 * f
         /\ 5 * Filter(ax, f) >= ax + 4 * f - 4
  <1> DEFINE s == ax + 4 * f
  <1>1. s \in Int
    OBVIOUS
  <1> HIDE DEF s
  <1>2. s \div 5 \in Int /\ 5 * (s \div 5) <= s /\ 5 * (s \div 5) >= s - 4
    BY <1>1
  <1>3. Filter(ax, f) = s \div 5
    BY DEF Filter, s
  <1>4. QED
    BY <1>2, <1>3 DEF s

\* What the filter remembers, one sample later.
LEMMA MemoryFades ==
  ASSUME NEW n \in 0 .. 11, NEW f \in Int, NEW g \in Int,
         f >= Memory[n + 1], 5 * g >= 4 * f - 4
  PROVE  /\ n < 11 => g >= Memory[n + 2]
         /\ g >= Memory[LowestOf(n + 1, 11) + 1]
         /\ n >= 10 => g >= -173
         /\ n >= 11 => g >= -139
  <1>1. \/ n = 0 /\ f >= -2000 /\ Memory[n + 2] = -1600
        \/ n = 1 /\ f >= -1600 /\ Memory[n + 2] = -1280
        \/ n = 2 /\ f >= -1280 /\ Memory[n + 2] = -1024
        \/ n = 3 /\ f >= -1024 /\ Memory[n + 2] = -820
        \/ n = 4 /\ f >= -820 /\ Memory[n + 2] = -656
        \/ n = 5 /\ f >= -656 /\ Memory[n + 2] = -525
        \/ n = 6 /\ f >= -525 /\ Memory[n + 2] = -420
        \/ n = 7 /\ f >= -420 /\ Memory[n + 2] = -336
        \/ n = 8 /\ f >= -336 /\ Memory[n + 2] = -269
        \/ n = 9 /\ f >= -269 /\ Memory[n + 2] = -216
        \/ n = 10 /\ f >= -216 /\ Memory[n + 2] = -173
        \/ n = 11 /\ f >= -173 /\ Memory[12] = -173
    BY DEF Memory
  <1>2. /\ n < 11 => g >= Memory[n + 2]
        /\ n >= 10 => g >= -173
        /\ n >= 11 => g >= -139
    BY <1>1
  <1>3. LowestOf(n + 1, 11) = IF n < 10 THEN n + 1 ELSE 11
    BY DEF LowestOf
  <1>4. g >= Memory[LowestOf(n + 1, 11) + 1]
    <2>1. CASE n < 10
      <3>1. LowestOf(n + 1, 11) + 1 = n + 2
        BY <1>3, <2>1
      <3>2. QED
        BY <1>2, <2>1, <3>1
    <2>2. CASE n >= 10
      <3>1. LowestOf(n + 1, 11) + 1 = 12 /\ Memory[12] = -173
        BY <1>3, <2>2 DEF Memory
      <3>2. QED
        BY <1>2, <2>2, <3>1
    <2>3. QED
      BY <2>1, <2>2
  <1>5. QED
    BY <1>2, <1>4

\* The rebound, one sample later.
LEMMA ReboundFades ==
  ASSUME NEW j \in 1 .. 9, NEW f \in Int, NEW g \in Int,
         f >= Rebound[j], 5 * g >= 4 * f - 4
  PROVE  g >= Rebound[j + 1]
  <1>1. \/ j = 1 /\ f >= -400 /\ Rebound[j + 1] = -320
        \/ j = 2 /\ f >= -320 /\ Rebound[j + 1] = -256
        \/ j = 3 /\ f >= -256 /\ Rebound[j + 1] = -205
        \/ j = 4 /\ f >= -205 /\ Rebound[j + 1] = -164
        \/ j = 5 /\ f >= -164 /\ Rebound[j + 1] = -132
        \/ j = 6 /\ f >= -132 /\ Rebound[j + 1] = -106
        \/ j = 7 /\ f >= -106 /\ Rebound[j + 1] = -85
        \/ j = 8 /\ f >= -85 /\ Rebound[j + 1] = -68
        \/ j = 9 /\ f >= -68 /\ Rebound[j + 1] = -55
    BY DEF Rebound
  <1>2. QED
    BY <1>1

-----------------------------------------------------------------------------
(* The verdicts on such windows.                                           *)

\* A sum of ten above the threshold's tenfold is not low.
LEMMA HighSum ==
  ASSUME RideRanges, NEW w, Sum(w) \in Int, Sum(w) > -1480
  PROVE  ~IsBraking(w)
  <1>1. Threshold \in Int /\ Threshold <= -148
    BY AlgorithmAssumption DEF AlgorithmAssumption, RideRanges
  <1>2. ~(Sum(w) <= 10 * Threshold)
    BY <1>1
  <1>3. QED
    BY <1>2 DEF IsBraking, Low, Window

\* Few falls are not enough of them.
LEMMA FewFalls ==
  ASSUME RideRanges, NEW w, Falls(w) \in Nat, Falls(w) <= 3
  PROVE  ~IsBraking(w)
  BY AlgorithmAssumption DEF AlgorithmAssumption, RideRanges, IsBraking

LEMMA OnceIsFew ==
  ASSUME RideRanges, NEW w, Len(w) = Window, \A i \in 1 .. Window : w[i] \in Int,
         OnceFallen(w)
  PROVE  ~IsBraking(w)
  <1> DEFINE S == {i \in 1 .. Window - 1 : w[i + 1] < w[i]}
  <1>1. PICK q \in 0 .. Window :
          \A i \in 1 .. Window - 1 : i = q \/ w[i] <= w[i + 1]
    BY DEF OnceFallen
  <1>3. S \in SUBSET {q}
    <2> SUFFICES ASSUME NEW i \in 1 .. Window - 1, w[i + 1] < w[i]
                 PROVE  i = q
      OBVIOUS
    <2>1. i \in 1 .. Window /\ i + 1 \in 1 .. Window
      BY DEF Window
    <2>2. w[i] \in Int /\ w[i + 1] \in Int
      BY <2>1
    <2>3. QED
      BY <1>1, <2>2
  <1> HIDE DEF S
  <1>4. IsFiniteSet({q}) /\ Cardinality({q}) = 1
    BY FS_Singleton
  <1>5. Cardinality(S) \in Nat /\ Cardinality(S) <= 1
    BY <1>3, <1>4, FS_Subset, FS_CardinalityType
  <1>6. Falls(w) \in Nat /\ Falls(w) <= 3
    BY <1>5 DEF Falls, S
  <1>7. QED
    BY <1>6, FewFalls

LEMMA FadedIsHigh ==
  ASSUME RideRanges, NEW w, \A i \in 1 .. 10 : w[i] \in Int,
         \A i \in 1 .. 10 : w[i] >= IF i = 1 THEN -173 ELSE -139
  PROVE  ~IsBraking(w)
  <1>1. /\ w[1] \in Int /\ w[1] >= -173 /\ w[2] \in Int /\ w[2] >= -139
        /\ w[3] \in Int /\ w[3] >= -139 /\ w[4] \in Int /\ w[4] >= -139
        /\ w[5] \in Int /\ w[5] >= -139 /\ w[6] \in Int /\ w[6] >= -139
        /\ w[7] \in Int /\ w[7] >= -139 /\ w[8] \in Int /\ w[8] >= -139
        /\ w[9] \in Int /\ w[9] >= -139 /\ w[10] \in Int /\ w[10] >= -139
    OBVIOUS
  <1>2. Sum(w) \in Int /\ Sum(w) > -1480
    BY <1>1 DEF Sum
  <1>3. QED
    BY <1>2, HighSum

LEMMA LateFallIsHigh ==
  ASSUME RideRanges, NEW w, \A i \in 1 .. 10 : w[i] \in Int, NEW p \in 5 .. 10,
         \A i \in 1 .. p - 1 : w[i] >= 0,
         \A i \in p .. 10 : w[i] >= Rebound[i - p + 1]
  PROVE  ~IsBraking(w)
  <1>1. /\ Rebound[1] = -400 /\ Rebound[2] = -320 /\ Rebound[3] = -256
        /\ Rebound[4] = -205 /\ Rebound[5] = -164 /\ Rebound[6] = -132
    BY DEF Rebound
  <1>2. \A i \in 1 .. 10 : i < p => w[i] >= 0
    OBVIOUS
  <1>3. \A j \in 1 .. 6 : p + j - 1 <= 10 => w[p + j - 1] >= Rebound[j]
    <2> SUFFICES ASSUME NEW j \in 1 .. 6, p + j - 1 <= 10
                 PROVE  w[p + j - 1] >= Rebound[j]
      OBVIOUS
    <2>1. p + j - 1 \in p .. 10 /\ (p + j - 1) - p + 1 = j
      OBVIOUS
    <2>2. QED
      BY <2>1
  <1>4. Sum(w) \in Int /\ Sum(w) > -1480
    <2>1. CASE p = 5
      <3>1. /\ w[1] \in Int /\ w[1] >= 0 /\ w[2] \in Int /\ w[2] >= 0
            /\ w[3] \in Int /\ w[3] >= 0 /\ w[4] \in Int /\ w[4] >= 0
            /\ w[5] \in Int /\ w[5] >= -400 /\ w[6] \in Int /\ w[6] >= -320
            /\ w[7] \in Int /\ w[7] >= -256 /\ w[8] \in Int /\ w[8] >= -205
            /\ w[9] \in Int /\ w[9] >= -164 /\ w[10] \in Int /\ w[10] >= -132
        BY <1>1, <1>2, <1>3, <2>1
      <3>2. QED
        BY <3>1 DEF Sum
    <2>2. CASE p = 6
      <3>1. /\ w[1] \in Int /\ w[1] >= 0 /\ w[2] \in Int /\ w[2] >= 0
            /\ w[3] \in Int /\ w[3] >= 0 /\ w[4] \in Int /\ w[4] >= 0
            /\ w[5] \in Int /\ w[5] >= 0 /\ w[6] \in Int /\ w[6] >= -400
            /\ w[7] \in Int /\ w[7] >= -320 /\ w[8] \in Int /\ w[8] >= -256
            /\ w[9] \in Int /\ w[9] >= -205 /\ w[10] \in Int /\ w[10] >= -164
        BY <1>1, <1>2, <1>3, <2>2
      <3>2. QED
        BY <3>1 DEF Sum
    <2>3. CASE p = 7
      <3>1. /\ w[1] \in Int /\ w[1] >= 0 /\ w[2] \in Int /\ w[2] >= 0
            /\ w[3] \in Int /\ w[3] >= 0 /\ w[4] \in Int /\ w[4] >= 0
            /\ w[5] \in Int /\ w[5] >= 0 /\ w[6] \in Int /\ w[6] >= 0
            /\ w[7] \in Int /\ w[7] >= -400 /\ w[8] \in Int /\ w[8] >= -320
            /\ w[9] \in Int /\ w[9] >= -256 /\ w[10] \in Int /\ w[10] >= -205
        BY <1>1, <1>2, <1>3, <2>3
      <3>2. QED
        BY <3>1 DEF Sum
    <2>4. CASE p = 8
      <3>1. /\ w[1] \in Int /\ w[1] >= 0 /\ w[2] \in Int /\ w[2] >= 0
            /\ w[3] \in Int /\ w[3] >= 0 /\ w[4] \in Int /\ w[4] >= 0
            /\ w[5] \in Int /\ w[5] >= 0 /\ w[6] \in Int /\ w[6] >= 0
            /\ w[7] \in Int /\ w[7] >= 0 /\ w[8] \in Int /\ w[8] >= -400
            /\ w[9] \in Int /\ w[9] >= -320 /\ w[10] \in Int /\ w[10] >= -256
        BY <1>1, <1>2, <1>3, <2>4
      <3>2. QED
        BY <3>1 DEF Sum
    <2>5. CASE p = 9
      <3>1. /\ w[1] \in Int /\ w[1] >= 0 /\ w[2] \in Int /\ w[2] >= 0
            /\ w[3] \in Int /\ w[3] >= 0 /\ w[4] \in Int /\ w[4] >= 0
            /\ w[5] \in Int /\ w[5] >= 0 /\ w[6] \in Int /\ w[6] >= 0
            /\ w[7] \in Int /\ w[7] >= 0 /\ w[8] \in Int /\ w[8] >= 0
            /\ w[9] \in Int /\ w[9] >= -400 /\ w[10] \in Int /\ w[10] >= -320
        BY <1>1, <1>2, <1>3, <2>5
      <3>2. QED
        BY <3>1 DEF Sum
    <2>6. CASE p = 10
      <3>1. /\ w[1] \in Int /\ w[1] >= 0 /\ w[2] \in Int /\ w[2] >= 0
            /\ w[3] \in Int /\ w[3] >= 0 /\ w[4] \in Int /\ w[4] >= 0
            /\ w[5] \in Int /\ w[5] >= 0 /\ w[6] \in Int /\ w[6] >= 0
            /\ w[7] \in Int /\ w[7] >= 0 /\ w[8] \in Int /\ w[8] >= 0
            /\ w[9] \in Int /\ w[9] >= 0 /\ w[10] \in Int /\ w[10] >= -400
        BY <1>1, <1>2, <1>3, <2>6
      <3>2. QED
        BY <3>1 DEF Sum
    <2>7. QED
      BY <2>1, <2>2, <2>3, <2>4, <2>5, <2>6
  <1>5. QED
    BY <1>4, HighSum

LEMMA EarlyFallIsFew ==
  ASSUME RideRanges, NEW w, \A i \in 1 .. 10 : w[i] \in Int,
         \A i \in 4 .. 9 : w[i] <= w[i + 1]
  PROVE  ~IsBraking(w)
  <1> DEFINE S == {i \in 1 .. Window - 1 : w[i + 1] < w[i]}
             T == 1 .. 3
  <1>1. S \in SUBSET T
    <2> SUFFICES ASSUME NEW i \in 1 .. 9, w[i + 1] < w[i]
                 PROVE  i \in 1 .. 3
      BY DEF Window
    <2>1. i \in 1 .. 10 /\ i + 1 \in 1 .. 10
      OBVIOUS
    <2>2. w[i] \in Int /\ w[i + 1] \in Int
      BY <2>1
    <2>3. ~(i \in 4 .. 9)
      BY <2>2
    <2>4. QED
      BY <2>3
  <1>2. IsFiniteSet(T) /\ Cardinality(T) = 3
    <2>1. 3 \in Nat
      OBVIOUS
    <2>2. QED
      BY <2>1, Interval, Zenon
  <1> HIDE DEF S, T
  <1>3. Cardinality(S) \in Nat /\ Cardinality(S) <= 3
    BY <1>1, <1>2, FS_Subset, FS_CardinalityType
  <1>4. Falls(w) \in Nat /\ Falls(w) <= 3
    BY <1>3 DEF Falls, S
  <1>5. QED
    BY <1>4, FewFalls

LEMMA FallenIsNotBraking ==
  ASSUME RideRanges, NEW w, \A i \in 1 .. 10 : w[i] \in Int, NEW p \in 1 .. 10,
         \A i \in 1 .. p - 1 : w[i] >= 0,
         \A i \in p .. 10 : w[i] >= Rebound[i - p + 1],
         \A i \in p .. 9 : w[i] <= w[i + 1]
  PROVE  ~IsBraking(w)
  <1>1. CASE p <= 4
    <2>1. ASSUME NEW i \in 4 .. 9 PROVE w[i] <= w[i + 1]
      <3>1. i \in p .. 9
        BY <1>1
      <3>2. QED
        BY <3>1
    <2>2. QED
      BY <2>1, EarlyFallIsFew
  <1>2. CASE p >= 5
    <2>1. p \in 5 .. 10
      BY <1>2
    <2>2. QED
      BY <2>1, LateFallIsHigh
  <1>3. QED
    BY <1>1, <1>2

\* None of the windows of a ride with a failed read is braking.
LEMMA FailedReadIsNotBraking ==
  ASSUME RideRanges, NEW w \in Seq(Int), Len(w) = Window,
         OnceFallen(w) \/ FallenBelow(w) \/ Faded(w)
  PROVE  ~IsBraking(w)
  <1>1. \A i \in 1 .. 10 : w[i] \in Int
    BY ElementOfSeq DEF Window
  <1>2. CASE OnceFallen(w)
    BY <1>1, <1>2, OnceIsFew DEF Window
  <1>3. CASE FallenBelow(w)
    <2>0. PICK p \in 1 .. Len(w) :
            /\ \A i \in 1 .. p - 1 : w[i] >= 0
            /\ \A i \in p .. Len(w) : w[i] >= Rebound[i - p + 1]
            /\ \A i \in p .. Len(w) - 1 : w[i] <= w[i + 1]
      BY <1>3, Zenon DEF FallenBelow
    <2>1. /\ p \in 1 .. 10
          /\ \A i \in 1 .. p - 1 : w[i] >= 0
          /\ \A i \in p .. 10 : w[i] >= Rebound[i - p + 1]
          /\ \A i \in p .. 9 : w[i] <= w[i + 1]
      <3>1. Len(w) = 10 /\ Len(w) - 1 = 9
        BY DEF Window
      <3>2. QED
        BY <2>0, <3>1
    <2>2. QED
      BY <1>1, <2>1, FallenIsNotBraking
  <1>4. CASE Faded(w)
    <2>1. \A i \in 1 .. 10 : w[i] >= IF i = 1 THEN -173 ELSE -139
      BY <1>4 DEF Faded, Window
    <2>2. QED
      BY <1>1, <2>1, FadedIsHigh
  <1>5. QED
    BY <1>2, <1>3, <1>4

-----------------------------------------------------------------------------
(* How such a window grows.                                                *)

\* A value that is not below the last one.
LEMMA OnceFallenGrows ==
  ASSUME NEW w \in Seq(Int), NEW f \in Int, Len(w) < Window, OnceFallen(w),
         w # <<>> => w[Len(w)] <= f
  PROVE  OnceFallen(Append(w, f))
  <1> DEFINE v == Append(w, f)
             n == Len(w)
  <1>1. /\ n \in Nat /\ v \in Seq(Int) /\ Len(v) = n + 1 /\ v[n + 1] = f
        /\ \A i \in 1 .. n : v[i] = w[i]
    OBVIOUS
  <1>2. PICK q \in 0 .. Window :
          \A i \in 1 .. n - 1 : i = q \/ w[i] <= w[i + 1]
    BY DEF OnceFallen
  <1> HIDE DEF v
  <1>3. ASSUME NEW i \in 1 .. n PROVE i = q \/ v[i] <= v[i + 1]
    <2>1. CASE i < n
      <3>1. i \in 1 .. n - 1 /\ i \in 1 .. n /\ i + 1 \in 1 .. n
        BY <1>1, <2>1
      <3>2. v[i] = w[i] /\ v[i + 1] = w[i + 1]
        BY <1>1, <3>1
      <3>3. QED
        BY <1>2, <3>1, <3>2
    <2>2. CASE i = n
      <3>1. w # <<>> /\ v[i] = w[n] /\ v[i + 1] = f
        BY <1>1, <2>2
      <3>2. QED
        BY <3>1
    <2>3. QED
      BY <1>1, <2>1, <2>2
  <1>4. Len(v) - 1 = n
    BY <1>1
  <1>5. OnceFallen(v)
    BY <1>3, <1>4 DEF OnceFallen
  <1>6. QED
    BY <1>5 DEF v

\* The first fall of a window that has risen so far, or has not begun.
LEMMA FallsOnce ==
  ASSUME NEW w \in Seq(Int), NEW f \in Int, Len(w) < Window,
         \A i \in 1 .. Len(w) - 1 : w[i] <= w[i + 1]
  PROVE  OnceFallen(Append(w, f))
  <1> DEFINE v == Append(w, f)
             n == Len(w)
  <1>1. n \in Nat /\ Len(v) = n + 1 /\ \A i \in 1 .. n : v[i] = w[i]
    OBVIOUS
  <1>1a. n \in 0 .. Window
    <2>1. n <= 9
      BY <1>1 DEF Window
    <2> HIDE DEF n
    <2>2. QED
      BY <1>1, <2>1 DEF Window
  <1> HIDE DEF v
  <1>2. ASSUME NEW i \in 1 .. Len(v) - 1 PROVE i = n \/ v[i] <= v[i + 1]
    <2>1. CASE i < n
      <3>1. i \in 1 .. n - 1 /\ i \in 1 .. n /\ i + 1 \in 1 .. n
        BY <1>1, <2>1
      <3>2. v[i] = w[i] /\ v[i + 1] = w[i + 1]
        BY <1>1, <3>1
      <3>3. QED
        BY <3>1, <3>2
    <2>2. QED
      BY <1>1, <2>1
  <1>3. OnceFallen(v)
    BY <1>1a, <1>2 DEF OnceFallen
  <1>4. QED
    BY <1>3 DEF v

\* A value below zero, after values that were not.
LEMMA FallsBelow ==
  ASSUME NEW w \in Seq(Int), NEW f \in Int, f >= -400,
         \A i \in 1 .. Len(w) : w[i] >= 0
  PROVE  FallenBelow(Append(w, f))
  <1> DEFINE v == Append(w, f)
             p == Len(w) + 1
  <1>1. /\ p \in Nat /\ p >= 1 /\ Len(v) = p /\ v[p] = f
        /\ \A i \in 1 .. p - 1 : v[i] = w[i] /\ w[i] >= 0
    OBVIOUS
  <1> HIDE DEF v, p
  <1>2. p \in 1 .. Len(v) /\ \A i \in 1 .. p - 1 : v[i] >= 0
    BY <1>1
  <1>3. \A i \in p .. Len(v) : v[i] >= Rebound[i - p + 1]
    <2>1. Rebound[1] = -400
      BY DEF Rebound
    <2>2. \A i \in p .. Len(v) : i = p /\ i - p + 1 = 1
      BY <1>1
    <2>3. QED
      BY <1>1, <2>1, <2>2
  <1>4. \A i \in p .. Len(v) - 1 : v[i] <= v[i + 1]
    BY <1>1
  <1>5. FallenBelow(v)
    BY <1>2, <1>3, <1>4 DEF FallenBelow
  <1>6. QED
    BY <1>5 DEF v

\* The filter comes back up.
LEMMA FallenBelowGrows ==
  ASSUME NEW w \in Seq(Int), NEW f \in Int, Len(w) < Window, FallenBelow(w),
         w[Len(w)] <= f, 5 * f >= 4 * w[Len(w)] - 4
  PROVE  FallenBelow(Append(w, f))
  <1> DEFINE v == Append(w, f)
             n == Len(w)
  <1>1. /\ n \in Nat /\ Len(v) = n + 1 /\ v[n + 1] = f
        /\ \A i \in 1 .. n : v[i] = w[i]
        /\ \A i \in 1 .. n : w[i] \in Int
        /\ w[n] <= f /\ 5 * f >= 4 * w[n] - 4
    OBVIOUS
  <1>1a. n <= 9
    BY <1>1 DEF Window
  <1>2. PICK p \in 1 .. n :
          /\ \A i \in 1 .. p - 1 : w[i] >= 0
          /\ \A i \in p .. n : w[i] >= Rebound[i - p + 1]
          /\ \A i \in p .. n - 1 : w[i] <= w[i + 1]
    BY Zenon DEF FallenBelow
  <1> HIDE DEF v, n
  <1>3. n \in 1 .. n /\ n \in p .. n
    BY <1>1, <1>2
  <1>3a. v[n] = w[n] /\ w[n] \in Int
    <2>1. n \in 1 .. n
      BY <1>3
    <2>2. \A i \in 1 .. n : v[i] = w[i]
      BY <1>1
    <2>3. \A i \in 1 .. n : w[i] \in Int
      BY <1>1
    <2>4. v[n] = w[n]
      BY <2>1, <2>2, Zenon
    <2>5. w[n] \in Int
      BY <2>1, <2>3, Zenon
    <2>6. QED
      BY <2>4, <2>5
  <1>3b. n \in Nat /\ p \in 1 .. n /\ Len(v) = n + 1
    BY <1>1, <1>2
  <1>4. p \in 1 .. Len(v) /\ \A i \in 1 .. p - 1 : v[i] >= 0
    <2>1. p \in 1 .. Len(v)
      BY <1>3b
    <2>2. \A i \in 1 .. p - 1 : i \in 1 .. n
      BY <1>3b
    <2>3. \A i \in 1 .. n : v[i] = w[i]
      BY <1>1
    <2>4. \A i \in 1 .. p - 1 : w[i] >= 0
      BY <1>2
    <2>5. \A i \in 1 .. p - 1 : v[i] >= 0
      BY <2>2, <2>3, <2>4, Zenon
    <2>6. QED
      BY <2>1, <2>5
  <1>5. ASSUME NEW i \in p .. Len(v) PROVE v[i] >= Rebound[i - p + 1]
    <2>1. CASE i <= n
      <3>1. i \in p .. n /\ i \in 1 .. n
        BY <1>1, <2>1
      <3>2. QED
        BY <1>1, <1>2, <3>1
    <2>2. CASE i = n + 1
      <3>1. n - p + 1 \in 1 .. 9
        BY <1>1, <1>1a, <1>3
      <3>1a. w[n] >= Rebound[n - p + 1]
        BY <1>2, <1>3
      <3>2. f >= Rebound[(n - p + 1) + 1]
        BY <1>1, <1>3a, <3>1, <3>1a, ReboundFades
      <3>3. i - p + 1 = (n - p + 1) + 1
        BY <1>1, <2>2
      <3>4. QED
        BY <1>1, <2>2, <3>2, <3>3
    <2>3. QED
      BY <1>1, <2>1, <2>2
  <1>6. ASSUME NEW i \in p .. Len(v) - 1 PROVE v[i] <= v[i + 1]
    <2>1. CASE i < n
      <3>1. i \in p .. n - 1 /\ i \in 1 .. n /\ i + 1 \in 1 .. n
        BY <1>1, <2>1
      <3>2. v[i] = w[i] /\ v[i + 1] = w[i + 1]
        BY <1>1, <3>1
      <3>3. QED
        BY <1>2, <3>1, <3>2
    <2>2. CASE i = n
      BY <1>1, <1>3a, <2>2
    <2>3. QED
      BY <1>1, <2>1, <2>2
  <1>7. FallenBelow(v)
    BY <1>4, <1>5, <1>6 DEF FallenBelow
  <1>8. QED
    BY <1>7 DEF v, n

\* One more value that is not low.
LEMMA FadedGrows ==
  ASSUME NEW w \in Seq(Int), NEW f \in Int, Faded(w),
         f >= IF w = <<>> THEN -173 ELSE -139
  PROVE  Faded(Append(w, f))
  <1> DEFINE v == Append(w, f)
             n == Len(w)
  <1>1. /\ n \in Nat /\ Len(v) = n + 1 /\ v[n + 1] = f
        /\ \A i \in 1 .. n : v[i] = w[i]
        /\ (w = <<>> <=> n = 0)
    OBVIOUS
  <1> HIDE DEF v
  <1>2. ASSUME NEW i \in 1 .. Len(v)
        PROVE  v[i] >= IF i = 1 THEN -173 ELSE -139
    <2>1. CASE i <= n
      <3>1. i \in 1 .. n /\ v[i] = w[i]
        BY <1>1, <2>1
      <3>2. QED
        BY <3>1 DEF Faded
    <2>2. CASE i = n + 1
      BY <1>1, <2>2
    <2>3. QED
      BY <1>1, <2>1, <2>2
  <1>3. Faded(v)
    BY <1>2 DEF Faded
  <1>4. QED
    BY <1>3 DEF v

-----------------------------------------------------------------------------
(* The invariant of a ride with a failed read.                             *)

LEMMA NothingYet == OnceFallen(<<>>) /\ Faded(<<>>)
  <1>1. Len(<<>>) = 0 /\ 0 \in 0 .. Window
    BY DEF Window
  <1>2. QED
    BY <1>1 DEF OnceFallen, Faded

LEMMA InitRead == Init => ReadInv
  <1> SUFFICES ASSUME Init PROVE ReadInv
    OBVIOUS
  <1>1. arr = <<>> /\ filtered = 0 /\ level = 0 /\ steady = 0 /\ badReads = 0
    BY DEF Init
  <1>2. Memory[LowestOf(steady, 11) + 1] = -2000
    <2>1. LowestOf(steady, 11) + 1 = 1 /\ Memory[1] = -2000
      BY <1>1 DEF LowestOf, Memory
    <2>2. QED
      BY <2>1
  <1>3. Faded(arr)
    BY <1>1, NothingYet
  <1>4. QED
    BY <1>1, <1>2, <1>3 DEF ReadInv, MaxAx

LEMMA ChangeInRead ==
  ASSUME RideRanges, AlgorithmInv, ReadInv, NEW ax \in Levels, Change(ax)
  PROVE  ReadInv'
  <1>1. /\ level' = ax /\ ax \in Int /\ ax >= -MaxAx /\ steady' = 0
        /\ UNCHANGED <<filtered, arr, badReads>>
    BY AlgorithmAssumption DEF AlgorithmAssumption, Change, detector, RideRanges
  <1>2. filtered \in Int /\ filtered >= -MaxAx /\ Len(arr) \in Nat
    BY DEF AlgorithmInv, ReadInv
  <1>3. Memory[LowestOf(steady', 11) + 1] = -2000
    <2>1. LowestOf(steady', 11) + 1 = 1 /\ Memory[1] = -2000
      BY <1>1 DEF LowestOf, Memory
    <2>2. QED
      BY <2>1
  <1>4. ~(steady' >= Len(arr') + Window)
    BY <1>1, <1>2 DEF Window
  <1>5. QED
    BY <1>1, <1>2, <1>3, <1>4 DEF ReadInv, MaxAx

\* What any sample does to the window, once the state of the new one is known.
LEMMA DisturbedStep ==
  ASSUME RideRanges, AlgorithmInv, RideInv, NEW f \in Int, filtered' = f,
         level' = level,
         steady' = IF steady < 3 * Window THEN steady + 1 ELSE steady,
         IF Len(Append(arr, f)) >= Window
           THEN arr' = <<>> /\ braking' = IsBraking(Append(arr, f))
           ELSE arr' = Append(arr, f) /\ braking' = braking,
         steady >= Len(arr) + Window => Disturbed(Append(arr, f), f),
         steady >= Len(arr) + 2 * Window => ~braking,
         steady' >= Len(arr') + Window
  PROVE  /\ arr' # <<>> => arr'[Len(arr')] = filtered'
         /\ Disturbed(arr, filtered)'
         /\ steady' >= Len(arr') + 2 * Window => ~braking'
  <1> DEFINE w == Append(arr, f)
  <1>1. /\ level \in Int /\ arr \in Seq(Int) /\ Len(arr) \in Nat
        /\ Len(arr) < Window /\ steady \in 0 .. 30
    BY DEF AlgorithmInv, RideInv, Window
  <1>2. /\ w \in Seq(Int) /\ Len(w) = Len(arr) + 1 /\ w[Len(w)] = f
    BY <1>1
  <1>3. Len(w) \in Nat
    BY <1>1, <1>2
  <1> HIDE DEF w
  <1>4. CASE Len(w) >= Window
    <2>1. Len(w) = Window /\ Len(arr) = 9
      BY <1>1, <1>2, <1>3, <1>4, LastSample
    <2>2. arr' = <<>> /\ braking' = IsBraking(w)
      BY <1>4 DEF w
    <2>3. OnceFallen(arr') /\ Faded(arr')
      BY <2>2, NothingYet
    <2>4. f <= level \/ f >= level
      BY <1>1
    <2>5. Len(arr') = 0
      BY <2>2
    <2>6. ASSUME steady' >= Len(arr') + 2 * Window PROVE ~braking'
      <3>1. steady >= Len(arr) + Window
        BY <1>1, <2>1, <2>5, <2>6 DEF Window
      <3>2. OnceFallen(w) \/ FallenBelow(w) \/ Faded(w)
        BY <3>1 DEF Disturbed, w
      <3>3. QED
        BY <1>2, <2>1, <2>2, <3>2, FailedReadIsNotBraking
    <2>7. QED
      BY <2>2, <2>3, <2>4, <2>6 DEF Disturbed
  <1>5. CASE Len(w) < Window
    <2>1. arr' = w /\ braking' = braking
      BY <1>3, <1>5 DEF w, Window
    <2>2. steady >= Len(arr) + Window
      BY <1>1, <1>2, <2>1 DEF Window
    <2>3. Disturbed(w, f)
      BY <2>2 DEF w
    <2>4. steady' >= Len(arr') + 2 * Window => steady >= Len(arr) + 2 * Window
      BY <1>1, <1>2, <1>5, <2>1 DEF Window
    <2>5. Disturbed(arr, filtered)'
      BY <2>1, <2>3 DEF Disturbed
    <2>6. QED
      BY <1>2, <2>1, <2>4, <2>5
  <1>6. QED
    BY <1>1, <1>3, <1>4, <1>5 DEF Window

\* The next sample of a ride after a failed read.
LEMMA DisturbedWindow ==
  ASSUME AlgorithmInv, ReadInv, badReads = 1, level >= 0,
         steady >= Len(arr) + Window
  PROVE  Disturbed(Append(arr, Filter(level, filtered)), Filter(level, filtered))
  <1> DEFINE f == Filter(level, filtered)
  <1>1. /\ level \in Int /\ filtered \in Int /\ arr \in Seq(Int)
        /\ Len(arr) \in Nat /\ Len(arr) < Window
    BY DEF AlgorithmInv
  <1>2. f \in Int /\ 5 * f <= level + 4 * filtered /\ 5 * f >= level + 4 * filtered - 4
    BY <1>1, FilterBounds
  <1> HIDE DEF f
  <1>3. /\ arr # <<>> => arr[Len(arr)] = filtered
        /\ Disturbed(arr, filtered)
    BY DEF ReadInv
  <1>4. CASE filtered <= level /\ OnceFallen(arr)
    <2>1. filtered <= f /\ f <= level
      BY <1>1, <1>2, <1>4
    <2>2. OnceFallen(Append(arr, f))
      BY <1>1, <1>2, <1>3, <1>4, <2>1, OnceFallenGrows
    <2>3. QED
      BY <2>1, <2>2 DEF Disturbed, f
  <1>5. CASE filtered <= level /\ FallenBelow(arr)
    <2>1. filtered <= f /\ f <= level /\ 5 * f >= 4 * filtered - 4
      BY <1>1, <1>2, <1>5
    <2>2. arr # <<>>
      BY <1>1, <1>5 DEF FallenBelow
    <2>3. arr[Len(arr)] <= f /\ 5 * f >= 4 * arr[Len(arr)] - 4
      BY <1>3, <2>1, <2>2
    <2>4. FallenBelow(Append(arr, f))
      BY <1>1, <1>2, <1>5, <2>3, FallenBelowGrows
    <2>5. QED
      BY <2>1, <2>4 DEF Disturbed, f
  <1>6. CASE filtered >= level /\ Faded(arr)
    <2>1. f >= level
      BY <1>1, <1>2, <1>6
    <2>2. f >= IF arr = <<>> THEN -173 ELSE -139
      BY <1>1, <1>2, <2>1
    <2>3. Faded(Append(arr, f))
      BY <1>1, <1>2, <1>6, <2>2, FadedGrows
    <2>4. QED
      BY <2>1, <2>3 DEF Disturbed, f
  <1>7. QED
    BY <1>3, <1>4, <1>5, <1>6 DEF Disturbed

\* The failed read itself.
LEMMA ReadDisturbs ==
  ASSUME AlgorithmInv, RideInv, ReadInv, badReads = 0, level >= 0,
         steady >= Len(arr) + Window, NEW ax \in Int, ax >= -MaxAx
  PROVE  Disturbed(Append(arr, Filter(ax, filtered)), Filter(ax, filtered))
  <1> DEFINE f == Filter(ax, filtered)
  <1>1. /\ level \in Int /\ filtered \in Int /\ arr \in Seq(Int)
        /\ Len(arr) \in Nat /\ Len(arr) < Window /\ steady \in 0 .. 30
    BY DEF AlgorithmInv, RideInv, Window
  <1>2. f \in Int /\ 5 * f >= ax + 4 * filtered - 4
    BY <1>1, FilterBounds
  <1>3. Faded(arr)
    BY DEF ReadInv
  <1>4. steady >= Len(arr)
    BY <1>1 DEF Window
  <1> HIDE DEF f
  <1>5. CASE f >= level
    <2>1. f >= IF arr = <<>> THEN -173 ELSE -139
      BY <1>1, <1>2, <1>5
    <2>2. Faded(Append(arr, f))
      BY <1>1, <1>2, <1>3, <2>1, FadedGrows
    <2>3. QED
      BY <1>5, <2>2 DEF Disturbed, f
  <1>6. CASE f < level /\ \A i \in 1 .. Len(arr) - 1 : arr[i] <= arr[i + 1]
    <2>1. OnceFallen(Append(arr, f))
      BY <1>1, <1>2, <1>6, FallsOnce
    <2>2. f <= level
      BY <1>1, <1>2, <1>6
    <2>3. QED
      BY <2>1, <2>2 DEF Disturbed, f
  <1>7. CASE f < level /\ filtered >= level /\ \A i \in 1 .. Len(arr) : arr[i] >= 0
    <2>1. f >= -400 /\ f <= level
      BY <1>1, <1>2, <1>7 DEF MaxAx
    <2>2. FallenBelow(Append(arr, f))
      BY <1>1, <1>2, <1>7, <2>1, FallsBelow
    <2>3. QED
      BY <2>1, <2>2 DEF Disturbed, f
  <1>8. QED
    <2>1. \/ \A i \in 1 .. Len(arr) - 1 : arr[i] <= arr[i + 1]
          \/ filtered >= level /\ \A i \in 1 .. Len(arr) : arr[i] >= 0
      BY <1>4 DEF RideInv, OneSided
    <2>2. f >= level \/ f < level
      BY <1>1, <1>2
    <2>3. QED
      BY <2>1, <2>2, <1>5, <1>6, <1>7

LEMMA KeepOnInRead ==
  ASSUME RideRanges, AlgorithmInv, RideInv, ReadInv, KeepOn
  PROVE  ReadInv'
  <1> DEFINE f == Filter(level, filtered)
             w == Append(arr, f)
             m == LowestOf(steady, 11)
  <1>1. /\ level \in Int /\ filtered \in Int /\ arr \in Seq(Int)
        /\ Len(arr) \in Nat /\ Len(arr) < Window
        /\ steady \in 0 .. 30 /\ badReads \in Nat
        /\ filtered >= -MaxAx /\ level >= -MaxAx
    BY DEF AlgorithmInv, RideInv, ReadInv, Window
  <1>2. /\ level' = level /\ badReads' = badReads /\ filtered' = f
        /\ steady' = IF steady < 3 * Window THEN steady + 1 ELSE steady
        /\ IF Len(w) >= Window
           THEN arr' = <<>> /\ braking' = IsBraking(w)
           ELSE arr' = w /\ braking' = braking
    BY DEF KeepOn, Sample, Receive, Stored
  <1>3. f \in Int /\ 5 * f <= level + 4 * filtered /\ 5 * f >= level + 4 * filtered - 4
    BY <1>1, FilterBounds
  <1>4. filtered' >= -MaxAx /\ level' >= -MaxAx
    BY <1>1, <1>2, <1>3 DEF MaxAx
  <1>5. m \in 0 .. 11 /\ (steady >= 10 => m >= 10) /\ (steady >= 11 => m >= 11)
        /\ LowestOf(steady', 11) = LowestOf(m + 1, 11)
    BY <1>1, <1>2 DEF LowestOf, Window
  <1>6. ASSUME badReads' = 0, level' >= 0
        PROVE  /\ filtered' >= Memory[LowestOf(steady', 11) + 1]
               /\ steady' >= Len(arr') + Window => Faded(arr')
    <2>1. badReads = 0 /\ level >= 0 /\ filtered >= Memory[m + 1]
      BY <1>2, <1>6 DEF ReadInv
    <2>2. 5 * f >= 4 * filtered - 4
      BY <1>1, <1>3, <2>1
    <2> HIDE DEF f, m
    <2>3. /\ f >= Memory[LowestOf(m + 1, 11) + 1]
          /\ m >= 10 => f >= -173
          /\ m >= 11 => f >= -139
      BY <1>1, <1>3, <1>5, <2>1, <2>2, MemoryFades
    <2>4. ASSUME steady' >= Len(arr') + Window PROVE Faded(arr')
      <3>1. CASE Len(w) >= Window
        <4>1. arr' = <<>>
          BY <1>2, <3>1
        <4>2. QED
          BY <4>1, NothingYet
      <3>2. CASE Len(w) < Window
        <4>1. Len(w) \in Nat /\ Len(w) = Len(arr) + 1
          BY <1>1, <1>3
        <4> HIDE DEF w
        <4>2. arr' = w /\ Len(arr') = Len(arr) + 1
          BY <1>2, <3>2, <4>1 DEF Window
        <4>3. steady >= Len(arr) + Window
          BY <1>1, <1>2, <2>4, <4>2 DEF Window
        <4>4. Faded(arr)
          BY <2>1, <4>3 DEF ReadInv
        <4>5. f >= IF arr = <<>> THEN -173 ELSE -139
          <5>1. CASE arr = <<>>
            <6>1. steady >= 10
              BY <1>1, <4>3 DEF Window
            <6>2. QED
              BY <1>5, <2>3, <5>1, <6>1
          <5>2. CASE arr # <<>>
            <6>1. Len(arr) > 0
              BY <1>1, <5>2
            <6>2. steady >= 11
              BY <1>1, <4>3, <6>1 DEF Window
            <6>3. QED
              BY <1>5, <2>3, <5>2, <6>2
          <5>3. QED
            BY <5>1, <5>2
        <4>6. QED
          BY <1>1, <1>3, <4>2, <4>4, <4>5, FadedGrows DEF w
      <3>3. QED
        <4>1. Len(w) \in Nat
          BY <1>1, <1>3
        <4>2. QED
          BY <3>1, <3>2, <4>1 DEF Window
    <2>5. QED
      BY <1>2, <1>5, <2>3, <2>4
  <1>7. ASSUME badReads' = 1, level' >= 0, steady' >= Len(arr') + Window
        PROVE  /\ arr' # <<>> => arr'[Len(arr')] = filtered'
               /\ Disturbed(arr, filtered)'
               /\ steady' >= Len(arr') + 2 * Window => ~braking'
    <2>1. badReads = 1 /\ level >= 0
      BY <1>2, <1>7
    <2>2. steady >= Len(arr) + Window => Disturbed(w, f)
      BY <2>1, DisturbedWindow
    <2>3. steady >= Len(arr) + 2 * Window => ~braking
      <3>1. steady >= Len(arr) + 2 * Window => steady >= Len(arr) + Window
        BY <1>1 DEF Window
      <3>2. QED
        BY <2>1, <3>1 DEF ReadInv
    <2> HIDE DEF f
    <2>4. QED
      BY <1>2, <1>3, <1>7, <2>2, <2>3, DisturbedStep
  <1>8. QED
    BY <1>4, <1>6, <1>7 DEF ReadInv

LEMMA ReadFailsInRead ==
  ASSUME RideRanges, AlgorithmInv, RideInv, ReadInv, NEW ax \in BadReads,
         ReadFails(ax)
  PROVE  ReadInv'
  <1> DEFINE f == Filter(ax, filtered)
             w == Append(arr, f)
  <1>1. /\ level \in Int /\ filtered \in Int /\ arr \in Seq(Int)
        /\ Len(arr) \in Nat /\ steady \in 0 .. 30 /\ badReads \in Nat
        /\ filtered >= -MaxAx /\ level >= -MaxAx
    BY DEF AlgorithmInv, RideInv, ReadInv, Window
  <1>2. /\ level' = level /\ badReads' = badReads + 1 /\ filtered' = f
        /\ steady' = IF steady < 3 * Window THEN steady + 1 ELSE steady
        /\ IF Len(w) >= Window
           THEN arr' = <<>> /\ braking' = IsBraking(w)
           ELSE arr' = w /\ braking' = braking
    BY DEF ReadFails, Sample, Receive, Stored
  <1>3. ax \in Int /\ ax >= -MaxAx
    BY AlgorithmAssumption DEF AlgorithmAssumption, RideRanges
  <1>4. f \in Int /\ 5 * f >= ax + 4 * filtered - 4
    BY <1>1, <1>3, FilterBounds
  <1>5. filtered' >= -MaxAx /\ level' >= -MaxAx
    BY <1>1, <1>2, <1>3, <1>4 DEF MaxAx
  <1>6. badReads' # 0
    BY <1>1, <1>2
  <1>7. ASSUME badReads' = 1, level' >= 0, steady' >= Len(arr') + Window
        PROVE  /\ arr' # <<>> => arr'[Len(arr')] = filtered'
               /\ Disturbed(arr, filtered)'
               /\ steady' >= Len(arr') + 2 * Window => ~braking'
    <2>1. badReads = 0 /\ level >= 0
      BY <1>1, <1>2, <1>7
    <2>2. steady >= Len(arr) + Window => Disturbed(w, f)
      BY <1>3, <2>1, ReadDisturbs
    <2>3. steady >= Len(arr) + 2 * Window => ~braking
      <3>1. steady >= Len(arr) + 2 * Window => steady >= Len(arr) + Window
        BY <1>1 DEF Window
      <3>2. QED
        BY <2>1, <3>1 DEF RideInv
    <2> HIDE DEF f
    <2>4. QED
      BY <1>2, <1>4, <1>7, <2>2, <2>3, DisturbedStep
  <1>8. QED
    BY <1>5, <1>6, <1>7 DEF ReadInv

THEOREM ReadInvariance ==
  ASSUME RideRanges
  PROVE  Spec => []ReadInv
  <1>1. AlgorithmInv /\ RideInv /\ ReadInv /\ [Next]_vars => ReadInv'
    <2>1. ReadInv /\ UNCHANGED vars => ReadInv'
      BY DEF vars, detector, ReadInv, Disturbed
    <2>2. QED
      BY <2>1, KeepOnInRead, ChangeInRead, ReadFailsInRead DEF Next
  <1>2. QED
    BY InitRead, AlgorithmInvariance, RideInvariance, <1>1, PTL DEF Spec

\* With a failed read, too, riding on ends the braking: no second whole window
\* is taken for braking by detect_brake_1, whatever the read gave and whenever
\* it was.
THEOREM BrakingAlwaysEnds ==
  ASSUME RideRanges
  PROVE  Spec => []ReleaseEndsBraking
  <1>1. AlgorithmInv /\ RideInv /\ ReadInv => ReleaseEndsBraking
    <2> SUFFICES ASSUME AlgorithmInv, RideInv, ReadInv, level >= 0,
                        badReads <= 1, steady >= (2 + badReads) * Window - 1
                 PROVE  ~braking
      BY DEF ReleaseEndsBraking
    <2>1. /\ steady \in Nat /\ Len(arr) \in Nat /\ Len(arr) <= 9
          /\ badReads \in Nat
      BY DEF AlgorithmInv, RideInv, Window
    <2>2. CASE badReads = 0
      <3>1. steady >= 19
        BY <2>1, <2>2 DEF Window
      <3>2. steady >= Len(arr) + Window
        BY <2>1, <3>1 DEF Window
      <3>3. QED
        BY <2>2, <3>2 DEF RideInv
    <2>3. CASE badReads = 1
      <3>1. steady >= 29
        BY <2>1, <2>3 DEF Window
      <3>2. steady >= Len(arr) + Window /\ steady >= Len(arr) + 2 * Window
        BY <2>1, <3>1 DEF Window
      <3>3. QED
        BY <2>3, <3>2 DEF ReadInv
    <2>4. QED
      BY <2>1, <2>2, <2>3
  <1>2. QED
    BY <1>1, AlgorithmInvariance, RideInvariance, ReadInvariance, PTL
=============================================================================
