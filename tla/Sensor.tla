-------------------------------- MODULE Sensor --------------------------------
(***************************************************************************)
(* The accelerometer and how bmi_spi.c keeps it going: bmi160_init writes  *)
(* its registers and ignores every result, gpio_handshake_isr_handler      *)
(* refuses interrupts that follow each other too closely, and poll_sensor, *)
(* when no interrupt has come for a second, runs bmi160_init again.        *)
(*                                                                         *)
(* The chip, which may lose its registers at any time, is external.  Time  *)
(* is counted in ticks; the clock of the handler is 32 bits wide and wraps *)
(* around, here after Wrap ticks.                                          *)
(***************************************************************************)
EXTENDS Integers, Sequences

CONSTANTS
    Wrap,        \* 2^32 microseconds
    Debounce,    \* the 1000 microseconds of the handler
    PeriodTicks, \* between two data-ready edges
    Timeout,     \* of the wait for rdySem
    MaxFaults    \* bound on failed transfers and resets of the chip

ASSUME SensorAssumption ==
    /\ {Wrap, Debounce, PeriodTicks, Timeout, MaxFaults} \subseteq Nat \ {0}
    \* An edge is never too close even to an interrupt accepted while the line
    \* was still ringing from the edge before; the code has 1000 and 5000.
    /\ 2 * Debounce <= PeriodTicks + 1 /\ PeriodTicks < Wrap

\* What bmi160_init writes, in order.
Writes == <<"INT_OUT", "INT_EN", "INT_MAP", "ACC_CONF", "GYR_CONF", "LATCH",
            "ACC_MODE", "GYR_MODE">>

VARIABLES
    poll,       \* where poll_sensor, or bmi_spi_init before it, stands
    step,       \* how far bmi160_init is: 0 is the chip id
    booting,    \* it is the call of bmi_spi_init
    rdySem,
    waited,     \* ticks of the wait for rdySem
    clock,      \* esp_timer_get_time() as uint32_t
    last,       \* lasthandshaketime_us
    age,        \* observed: ticks since the handler accepted an interrupt or
                \* the boot, counted up to Wrap
    registers,  \* the writes that are in effect in the chip
    phase,      \* ticks since the last edge; from PeriodTicks on: before
                \* the first one
    due,        \* an edge is there and the handler has not run
    faults

pollVars == <<poll, step, booting>>
handlerVars == <<rdySem, last, age>>
chipVars == <<registers, phase, due>>
vars == <<pollVars, handlerVars, chipVars, waited, clock, faults>>

Init ==
    /\ poll = "init" /\ step = 0 /\ booting = TRUE
    /\ rdySem = FALSE /\ waited = 0
    /\ clock = 0 /\ last = 0 /\ age = 0
    /\ registers = {} /\ phase = PeriodTicks /\ due = FALSE
    /\ faults = 0

-----------------------------------------------------------------------------
(* The chip and time.                                                      *)

\* Data-ready edges come once they are enabled, routed to the pin, and one of
\* the two sensors is awake.
Streams(regs) ==
    /\ {"INT_OUT", "INT_EN", "INT_MAP"} \subseteq regs
    /\ {"ACC_MODE", "GYR_MODE"} \cap regs # {}

Streaming == Streams(registers)

\* A tick; the handler runs at once, before the next one.
Tick ==
    /\ ~due
    /\ clock' = (clock + 1) % Wrap
    /\ age' = IF age < Wrap THEN age + 1 ELSE age
    /\ waited' = IF poll = "wait" /\ waited < Timeout THEN waited + 1 ELSE waited
    /\ phase' = IF ~Streaming THEN PeriodTicks
                ELSE IF phase + 1 \in {PeriodTicks, 2 * PeriodTicks} THEN 0
                ELSE phase + 1
    /\ due' = (Streaming /\ phase' = 0)
    /\ UNCHANGED <<pollVars, rdySem, last, registers, faults>>

\* The chip loses its power for a moment.
ChipResets ==
    /\ faults < MaxFaults
    /\ faults' = faults + 1
    /\ registers' = {} /\ phase' = PeriodTicks /\ due' = FALSE
    /\ UNCHANGED <<pollVars, handlerVars, waited, clock>>

-----------------------------------------------------------------------------
(* gpio_handshake_isr_handler.                                             *)

\* The interrupt is refused, or accepted and rdySem given.
HandleIf(accepted) ==
    /\ IF accepted
       THEN rdySem' = TRUE /\ last' = clock /\ age' = 0
       ELSE UNCHANGED <<rdySem, last, age>>
    /\ UNCHANGED <<pollVars, registers, phase, waited, clock, faults>>

\* Mutant of Handle: the clock is compared as if it never wrapped.
HandleUnwrapped == HandleIf(clock - last >= Debounce)

\* uint32_t diff = currtime_us - lasthandshaketime_us
Elapsed(now, then) == (now - then) % Wrap

Handle == HandleIf(Elapsed(clock, last) >= Debounce)

Edge == due /\ Handle /\ due' = FALSE

\* "due to interference or ringing or something, we get two irqs".
Ring ==
    /\ Streaming /\ phase < Debounce /\ ~due
    /\ Handle
    /\ UNCHANGED due

-----------------------------------------------------------------------------
(* poll_sensor and bmi160_init.                                            *)

TakeReady ==
    /\ poll = "wait" /\ rdySem
    /\ rdySem' = FALSE
    /\ poll' = "read"
    /\ UNCHANGED <<step, booting, last, age, chipVars, waited, clock, faults>>

\* No interrupt in time.
TimeOutTo(next) ==
    /\ poll = "wait" /\ ~rdySem /\ waited >= Timeout
    /\ poll' = next /\ step' = 0
    /\ UNCHANGED <<booting, handlerVars, chipVars, waited, clock, faults>>

\* Mutant of TimeOut: the chip is read without being set up again.
TimeOutReads == TimeOutTo("read")

TimeOut == TimeOutTo("init")

\* A transfer fails; nothing but a missing chip id is noticed.
Fails == faults < MaxFaults /\ faults' = faults + 1

ReadChipId ==
    /\ poll = "init" /\ step = 0
    /\ \/ step' = 1 /\ UNCHANGED faults
       \/ step' = Len(Writes) + 1 /\ Fails
    /\ UNCHANGED <<poll, booting, handlerVars, chipVars, waited, clock>>

WriteReg ==
    /\ poll = "init" /\ step \in 1 .. Len(Writes)
    /\ step' = step + 1
    /\ \/ registers' = registers \cup {Writes[step]} /\ UNCHANGED faults
       \/ UNCHANGED registers /\ Fails
    /\ UNCHANGED <<poll, booting, handlerVars, phase, due, waited, clock>>

\* bmi160_init returns: poll_sensor reads on, or begins with a give.
InitReturns ==
    /\ poll = "init" /\ step = Len(Writes) + 1
    /\ poll' = IF booting THEN "wait" ELSE "read"
    /\ rdySem' = (booting \/ rdySem)
    /\ booting' = FALSE
    /\ step' = 0 /\ waited' = 0
    /\ UNCHANGED <<last, age, chipVars, clock, faults>>

\* bmi160_read_data, both queues, and the next wait.
ReadData ==
    /\ poll = "read"
    /\ poll' = "wait"
    /\ waited' = 0
    /\ UNCHANGED <<step, booting, handlerVars, chipVars, clock, faults>>

-----------------------------------------------------------------------------
Poll == TakeReady \/ TimeOut \/ ReadChipId \/ WriteReg \/ InitReturns \/ ReadData

Next == Tick \/ Edge \/ Ring \/ ChipResets \/ Poll

Spec == Init /\ [][Next]_vars

\* Time passes, the handler and poll_sensor, of the highest priority, run.
FairSpec == Spec /\ WF_vars(Tick) /\ WF_vars(Edge) /\ WF_vars(Poll)

-----------------------------------------------------------------------------
\* Every data-ready edge is one give of rdySem, and a ringing line none: the
\* difference of the clocks is right when the 32 bits have wrapped, and an
\* interrupt that was refused does not put off the next.  (An edge after a
\* silence of more than 71 minutes may be refused, which nobody promises not
\* to.)
EdgesAreCounted ==
    [][age < Wrap => (Edge => age' = 0) /\ (Ring => age' # 0)]_vars

\* A sensor that has stopped, was not there at the boot or was only half set
\* up sends data again some time after the last fault.
StreamsAgain == ~Streaming ~> Streaming
=============================================================================
