---------------------------- MODULE LampRegister ----------------------------
(***************************************************************************)
(* What the lamp channel of main/i2c.c promises, and nothing of how.  The  *)
(* lamp shows one byte.  A task asks for a byte and has at most one        *)
(* request outstanding.  Some time later the request either reaches the    *)
(* lamp as it was made, in one step, or is lost: there is never a byte on  *)
(* the lamp that no task was waiting to have shown.                        *)
(***************************************************************************)

CONSTANTS
    Tasks,   \* the tasks that call send_*_signal
    Bytes,   \* the commands the lamp controller understands
    NoByte   \* "nothing": no request outstanding

VARIABLES
    lamp,    \* the byte the lamp controller acts on
    pending  \* pending[t]: the byte t is waiting to have shown, or NoByte

vars == <<lamp, pending>>

\* After power-up nothing is requested; the lamp shows what it did before.
Init ==
    /\ lamp \in Bytes \cup {NoByte}
    /\ pending = [t \in Tasks |-> NoByte]

Request(t, b) ==
    /\ pending[t] = NoByte
    /\ pending' = [pending EXCEPT ![t] = b]
    /\ UNCHANGED lamp

\* The request takes effect atomically.
Serve(t) ==
    /\ pending[t] # NoByte
    /\ lamp' = pending[t]
    /\ pending' = [pending EXCEPT ![t] = NoByte]

\* The bus fails, or the task is deleted before its byte is sent.
Lose(t) ==
    /\ pending[t] # NoByte
    /\ pending' = [pending EXCEPT ![t] = NoByte]
    /\ UNCHANGED lamp

\* The microcontroller restarts; the lamp controller does not.
Restart ==
    /\ pending' = [t \in Tasks |-> NoByte]
    /\ UNCHANGED lamp

Next ==
    \/ \E t \in Tasks, b \in Bytes : Request(t, b)
    \/ \E t \in Tasks : Serve(t)
    \/ \E t \in Tasks : Lose(t)
    \/ Restart

Spec == Init /\ [][Next]_vars
=============================================================================
