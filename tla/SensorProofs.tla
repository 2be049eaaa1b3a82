----------------------------- MODULE SensorProofs -----------------------------
(***************************************************************************)
(* EdgesAreCounted for every width of the clock and every period of the    *)
(* sensor that leaves the handler's dead time behind.                      *)
(*                                                                         *)
(* The argument is HandlerInv: the unsigned difference of the handler is   *)
(* the time since the last interrupt it accepted, and that is the last     *)
(* edge or an interrupt that rang less than Debounce ticks after it.       *)
(***************************************************************************)
EXTENDS Sensor, TLAPS

USE DEF pollVars, handlerVars, chipVars

LEMMA Numbers ==
  /\ Wrap \in Nat \ {0} /\ Wrap \in Nat /\ Wrap > 0
  /\ Debounce \in Nat /\ Debounce > 0
  /\ PeriodTicks \in Nat /\ PeriodTicks > 0
  /\ 2 * Debounce <= PeriodTicks + 1 /\ PeriodTicks < Wrap
  BY SensorAssumption DEF SensorAssumption

-----------------------------------------------------------------------------
(* Arithmetic of a clock that goes round.                                  *)

LEMMA ModSmall ==
  ASSUME NEW w \in Nat \ {0}, NEW a \in Nat, a < w
  PROVE  a % w = a
  BY Z3

LEMMA ModNegative ==
  ASSUME NEW w \in Nat \ {0}, NEW a \in Int, a < 0, a + w >= 0
  PROVE  a % w = a + w
  BY Z3

\* The unsigned difference of two readings.
LEMMA Difference ==
  ASSUME NEW w \in Nat \ {0}, NEW c \in 0 .. w - 1, NEW l \in 0 .. w - 1
  PROVE  (c - l) % w = IF c >= l THEN c - l ELSE c - l + w
  <1>1. CASE c >= l
    <2>1. c - l \in Nat /\ c - l < w
      BY <1>1
    <2>2. QED
      BY <1>1, <2>1, ModSmall
  <1>2. CASE c < l
    <2>1. c - l \in Int /\ c - l < 0 /\ c - l + w >= 0
      BY <1>2
    <2>2. QED
      BY <1>2, <2>1, ModNegative
  <1>3. QED
    BY <1>1, <1>2

\* The next reading.
LEMMA NextReading ==
  ASSUME NEW w \in Nat \ {0}, NEW c \in 0 .. w - 1
  PROVE  (c + 1) % w = IF c + 1 = w THEN 0 ELSE c + 1
  <1>1. CASE c + 1 = w
    <2>1. w % w = 0
      BY Z3
    <2>2. QED
      BY <1>1, <2>1
  <1>2. CASE c + 1 < w
    <2>1. c + 1 \in Nat
      OBVIOUS
    <2>2. QED
      BY <1>2, <2>1, ModSmall
  <1>3. QED
    BY <1>1, <1>2

\* A tick adds one to the difference until it has gone round.
LEMMA ElapsedGrows ==
  ASSUME NEW c \in 0 .. Wrap - 1, NEW l \in 0 .. Wrap - 1,
         Elapsed(c, l) + 1 < Wrap
  PROVE  Elapsed((c + 1) % Wrap, l) = Elapsed(c, l) + 1
  <1> USE Numbers
  <1> DEFINE n == (c + 1) % Wrap
  <1>1. n = IF c + 1 = Wrap THEN 0 ELSE c + 1
    BY NextReading
  <1>2. n \in 0 .. Wrap - 1
    BY <1>1
  <1>3. Elapsed(c, l) = IF c >= l THEN c - l ELSE c - l + Wrap
    BY Difference DEF Elapsed
  <1> HIDE DEF n
  <1>4. Elapsed(n, l) = IF n >= l THEN n - l ELSE n - l + Wrap
    BY <1>2, Difference DEF Elapsed
  <1>5. Elapsed(n, l) = Elapsed(c, l) + 1
    BY <1>1, <1>2, <1>3, <1>4
  <1>6. QED
    BY <1>5 DEF n

LEMMA ElapsedNow ==
  ASSUME NEW c \in 0 .. Wrap - 1 PROVE Elapsed(c, c) = 0
  BY Numbers, Difference DEF Elapsed

-----------------------------------------------------------------------------
(* HandlerInv.                                                             *)

\* The inductive invariant of EdgesAreCounted: the handler's difference is the
\* age of the last interrupt until the clock has gone round, and between two
\* edges that interrupt is the edge itself, or one that rang after it.
HandlerInv ==
    /\ clock \in 0 .. Wrap - 1 /\ last \in 0 .. Wrap - 1 /\ age \in 0 .. Wrap
    /\ phase \in 0 .. 2 * PeriodTicks - 1
    /\ age < Wrap => Elapsed(clock, last) = age
    /\ due => phase = 0 /\ age >= Debounce
    /\ ~due /\ phase < PeriodTicks /\ age < Wrap =>
        age <= phase /\ phase < age + Debounce
    /\ phase >= PeriodTicks => age >= phase - PeriodTicks

LEMMA InitHandler == Init => HandlerInv
  <1> SUFFICES ASSUME Init PROVE HandlerInv
    OBVIOUS
  <1>1. /\ clock = 0 /\ last = 0 /\ age = 0 /\ phase = PeriodTicks
        /\ ~due
    BY DEF Init
  <1>2. Elapsed(0, 0) = 0
    BY Numbers, ElapsedNow
  <1>3. QED
    BY <1>1, <1>2, Numbers DEF HandlerInv

LEMMA TickStep == HandlerInv /\ Tick => HandlerInv'
  <1> SUFFICES ASSUME HandlerInv, Tick PROVE HandlerInv'
    OBVIOUS
  <1> USE Numbers
  <1>1. /\ clock \in 0 .. Wrap - 1 /\ last \in 0 .. Wrap - 1 /\ age \in 0 .. Wrap
        /\ phase \in 0 .. 2 * PeriodTicks - 1
    BY DEF HandlerInv
  <1>2. /\ ~due /\ clock' = (clock + 1) % Wrap /\ last' = last
        /\ age' = IF age < Wrap THEN age + 1 ELSE age
    BY DEF Tick
  <1>3. /\ ~Streaming => phase' = PeriodTicks /\ ~due'
        /\ Streaming /\ (phase + 1 = PeriodTicks \/ phase + 1 = 2 * PeriodTicks)
            => phase' = 0 /\ due'
        /\ Streaming /\ phase + 1 # PeriodTicks /\ phase + 1 # 2 * PeriodTicks
            => phase' = phase + 1 /\ ~due'
    <2>1. /\ ~Streaming => phase' = PeriodTicks
          /\ Streaming /\ (phase + 1 = PeriodTicks \/ phase + 1 = 2 * PeriodTicks)
              => phase' = 0
          /\ Streaming /\ phase + 1 # PeriodTicks /\ phase + 1 # 2 * PeriodTicks
              => phase' = phase + 1
      BY DEF Tick
    <2>2. due' <=> Streaming /\ phase' = 0
      BY Zenon DEF Tick
    <2>3. phase + 1 # 0
      BY <1>1
    <2>4. QED
      BY <2>1, <2>2, <2>3
  <1>4. clock' \in 0 .. Wrap - 1
    BY <1>1, <1>2, NextReading
  <1>5. age' \in 0 .. Wrap /\ phase' \in 0 .. 2 * PeriodTicks - 1
    BY <1>1, <1>2, <1>3
  <1>6. age' < Wrap => Elapsed(clock', last') = age'
    <2> SUFFICES ASSUME age' < Wrap PROVE Elapsed(clock', last') = age'
      OBVIOUS
    <2>1. age < Wrap /\ age' = age + 1 /\ Elapsed(clock, last) = age
      BY <1>1, <1>2 DEF HandlerInv
    <2>2. QED
      BY <1>1, <1>2, <2>1, ElapsedGrows
  <1>7. /\ phase < PeriodTicks /\ age < Wrap => age <= phase /\ phase < age + Debounce
        /\ phase >= PeriodTicks => age >= phase - PeriodTicks
    BY <1>2 DEF HandlerInv
  <1>8. due' => phase' = 0 /\ age' >= Debounce
    <2> SUFFICES ASSUME due' PROVE age' >= Debounce
      BY <1>3
    <2>1. phase + 1 = PeriodTicks \/ phase + 1 = 2 * PeriodTicks
      BY <1>1, <1>3
    <2>2. CASE age = Wrap
      BY <1>2, <2>2
    <2>3. CASE age < Wrap /\ phase + 1 = PeriodTicks
      <3>1. phase < age + Debounce /\ age' = age + 1
        BY <1>1, <1>2, <1>7, <2>3
      <3>2. QED
        BY <1>1, <2>3, <3>1
    <2>4. CASE age < Wrap /\ phase + 1 = 2 * PeriodTicks
      <3>1. age >= phase - PeriodTicks /\ age' = age + 1
        BY <1>1, <1>2, <1>7, <2>4
      <3>2. QED
        BY <1>1, <2>4, <3>1
    <2>5. QED
      BY <1>1, <2>1, <2>2, <2>3, <2>4
  <1>9. ~due' /\ phase' < PeriodTicks /\ age' < Wrap
            => age' <= phase' /\ phase' < age' + Debounce
    <2> SUFFICES ASSUME ~due', phase' < PeriodTicks, age' < Wrap
                 PROVE  age' <= phase' /\ phase' < age' + Debounce
      OBVIOUS
    <2>1. Streaming /\ phase' = phase + 1 /\ phase < PeriodTicks
      BY <1>1, <1>3
    <2>2. age < Wrap /\ age' = age + 1
      BY <1>1, <1>2
    <2>3. QED
      BY <1>1, <1>7, <2>1, <2>2
  <1>10. phase' >= PeriodTicks => age' >= phase' - PeriodTicks
    BY <1>1, <1>2, <1>3, <1>7
  <1>11. QED
    BY <1>1, <1>2, <1>4, <1>5, <1>6, <1>8, <1>9, <1>10 DEF HandlerInv

\* What an interrupt does to the handler's state: nothing, or it is the last
\* one that was accepted.
LEMMA HandleCases ==
  ASSUME HandlerInv, Handle
  PROVE  /\ clock' = clock /\ phase' = phase
         /\ \/ Elapsed(clock, last) >= Debounce /\ last' = clock /\ age' = 0
            \/ /\ ~(Elapsed(clock, last) >= Debounce)
               /\ UNCHANGED <<rdySem, last, age>>
         /\ Elapsed(clock', clock) = 0
  <1>1. clock \in 0 .. Wrap - 1
    BY DEF HandlerInv
  <1>2. Elapsed(clock, clock) = 0
    BY <1>1, ElapsedNow
  <1>3. QED
    BY <1>2 DEF Handle, HandleIf

LEMMA EdgeStep == HandlerInv /\ Edge => HandlerInv'
  <1> SUFFICES ASSUME HandlerInv, Edge PROVE HandlerInv'
    OBVIOUS
  <1> USE Numbers
  <1>1. due /\ phase = 0 /\ age >= Debounce /\ ~due'
    BY DEF HandlerInv, Edge
  <1>2. age < Wrap => Elapsed(clock, last) >= Debounce
    BY <1>1 DEF HandlerInv
  <1>3. ~due'
    BY DEF Edge
  <1>4. CASE last' = clock /\ age' = 0
    BY <1>1, <1>3, <1>4, HandleCases DEF Edge, HandlerInv
  <1>5. CASE UNCHANGED <<last, age>> /\ ~(Elapsed(clock, last) >= Debounce)
    BY <1>1, <1>2, <1>3, <1>5, HandleCases DEF Edge, HandlerInv
  <1>6. QED
    BY <1>4, <1>5, HandleCases DEF Edge

LEMMA RingStep == HandlerInv /\ Ring => HandlerInv'
  <1> SUFFICES ASSUME HandlerInv, Ring PROVE HandlerInv'
    OBVIOUS
  <1> USE Numbers
  <1>1. ~due /\ due' = due /\ phase \in Nat /\ phase < Debounce
    BY DEF HandlerInv, Ring
  <1>2. CASE last' = clock /\ age' = 0
    BY <1>1, <1>2, HandleCases DEF Ring, HandlerInv
  <1>3. CASE UNCHANGED <<last, age>>
    BY <1>1, <1>3, HandleCases DEF Ring, HandlerInv
  <1>4. QED
    BY <1>2, <1>3, HandleCases DEF Ring

LEMMA ChipStep == HandlerInv /\ ChipResets => HandlerInv'
  <1> SUFFICES ASSUME HandlerInv, ChipResets PROVE HandlerInv'
    OBVIOUS
  <1>1. /\ UNCHANGED <<clock, last, age>>
        /\ phase' = PeriodTicks /\ ~due'
    BY DEF ChipResets
  <1>2. QED
    BY <1>1, Numbers DEF HandlerInv

LEMMA PollStep == HandlerInv /\ (Poll \/ UNCHANGED vars) => HandlerInv'
  <1> SUFFICES ASSUME HandlerInv, Poll \/ UNCHANGED vars PROVE HandlerInv'
    OBVIOUS
  <1>1. UNCHANGED <<clock, last, age, phase, due>>
    BY DEF Poll, TakeReady, TimeOut, TimeOutTo, ReadChipId, WriteReg,
           InitReturns, ReadData, vars
  <1>2. QED
    BY <1>1 DEF HandlerInv

LEMMA NextHandler == HandlerInv /\ [Next]_vars => HandlerInv'
  BY TickStep, EdgeStep, RingStep, ChipStep, PollStep DEF Next

-----------------------------------------------------------------------------
\* In every state the handler's unsigned difference is the time since the last
\* interrupt it accepted, until the clock has gone round (bmi_spi.c).
THEOREM HandlerInvariance == Spec => []HandlerInv
  BY InitHandler, NextHandler, PTL DEF Spec

\* Every edge is accepted and every interrupt that rings refused, however
\* often the 32 bits of the clock have wrapped around and whatever was accepted
\* or refused before (gpio_handshake_isr_handler).
THEOREM EdgesCounted == Spec => EdgesAreCounted
  <1>1. HandlerInv /\ [Next]_vars =>
            [age < Wrap => (Edge => age' = 0) /\ (Ring => age' # 0)]_vars
    <2> SUFFICES ASSUME HandlerInv, age < Wrap, vars' # vars
                 PROVE  (Edge => age' = 0) /\ (Ring => age' # 0)
      OBVIOUS
    <2>1. ASSUME Edge PROVE age' = 0
      <3>1. Elapsed(clock, last) = age /\ age >= Debounce
        BY <2>1 DEF HandlerInv, Edge
      <3>2. QED
        BY <2>1, <3>1, HandleCases DEF Edge
    <2>2. ASSUME Ring PROVE FALSE
      <3>1. /\ Elapsed(clock, last) = age /\ age \in Nat
            /\ phase \in Nat /\ age <= phase /\ phase < Debounce
        BY <2>2, Numbers DEF HandlerInv, Ring
      <3>2. ~(Elapsed(clock, last) >= Debounce)
        BY <3>1, Numbers
      <3>3. UNCHANGED vars
        BY <2>2, <3>2 DEF Ring, Handle, HandleIf, vars
      <3>4. QED
        BY <3>3
    <2>3. QED
      BY <2>1, <2>2
  <1>2. QED
    BY <1>1, HandlerInvariance, PTL DEF Spec, EdgesAreCounted

=============================================================================
