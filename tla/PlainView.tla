------------------------------ MODULE PlainView ------------------------------
(***************************************************************************)
(* What DecryptedVolume promises its caller: a Read + Seek view of the     *)
(* plaintext in which every call is one atomic step.  A call either        *)
(* succeeds with exactly the plaintext of the addresses it asked for, or   *)
(* fails and leaves the position alone.                                    *)
(***************************************************************************)
EXTENDS VolumeView

CONSTANT Lens  \* the buffer lengths a caller passes

VARIABLES vol, position, ret

vars == <<vol, position, ret>>

\* The outcome of a call: the operation, whether it returned Ok, the address
\* it read from (the new position, for a seek) and the bytes it delivered.
Result(call, ok, at, data) == [call |-> call, ok |-> ok, at |-> at, data |-> data]
NoBytes == [i \in {} |-> Zero]
NoResult == Result("none", FALSE, 0, NoBytes)

Init == vol \in Volume /\ position = 0 /\ ret = NoResult

\* n bytes of plaintext from address `at` are delivered by `call`.
Delivers(call, at, n) ==
    /\ ret' = Result(call, TRUE, at, ret'.data)
    /\ DOMAIN ret'.data = 0..(n - 1)
    /\ Fits(vol, at, n) => ret'.data = PlainBytes(vol, at, n)

ReadAt == \E at \in Word, n \in Lens : Delivers("read_at", at, n) /\ position' = position

Read == \E n \in 0..vol.total_size :
            /\ n = 0 \/ position + n =< vol.total_size
            /\ Delivers("read", position, n)
            /\ position' = position + n

Seek == /\ position' \in Word
        /\ ret' = Result("seek", TRUE, position', NoBytes)

Fail == /\ \E call \in {"read_at", "read", "seek"}, at \in Word :
               ret' = Result(call, FALSE, at, NoBytes)
        /\ position' = position

\* A new call is under way: the previous result is gone.
Pending == ret' = NoResult /\ position' = position

Next == UNCHANGED vol /\ (ReadAt \/ Read \/ Seek \/ Fail \/ Pending)

Spec == Init /\ [][Next]_vars
=============================================================================
