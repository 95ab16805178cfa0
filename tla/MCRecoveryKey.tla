---------------------------- MODULE MCRecoveryKey ----------------------------
(* Passwords of up to four groups where three are wanted. *)
EXTENDS RecoveryKey

Digits(v) == [digits |-> TRUE, value |-> v]
Groups == {Digits(0), Digits(11), Digits(720885), Digits(720896), Digits(999999), Digits(12),
           [digits |-> FALSE, value |-> 0]}
MCPasswords == UNION {[1..n -> Groups] : n \in 1..4}
=============================================================================
