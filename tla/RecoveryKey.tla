----------------------------- MODULE RecoveryKey -----------------------------
(***************************************************************************)
(* recovery_key_hash up to the digest: the groups of a recovery password   *)
(* are checked one after the other and written into the key as 16-bit      *)
(* words.  A group is whether it is six digits and, if so, its value.      *)
(* A name with a suffix, as in Finish_AnyCount, is a plausible mistake in  *)
(* the operator before the underscore; the specification does not use it.  *)
(***************************************************************************)
EXTENDS Integers, Sequences

CONSTANTS
    GroupCount,  \* 8
    MaxValue,    \* 999999, the largest value of six digits
    MaxWord,     \* u16::MAX
    Passwords    \* the passwords considered, as what split('-') yields

Group == [digits : BOOLEAN, value : 0..MaxValue]

ASSUME RecoveryAssumption ==
    /\ GroupCount \in Nat \ {0} /\ MaxValue \in Nat /\ MaxWord \in Nat
    /\ Passwords \subseteq Seq(Group)

VARIABLES
    password,
    i,       \* the groups accepted so far
    key,     \* the words written so far; the rest is 0
    result   \* "pending", "Ok" or the reason the password is refused

vars == <<password, i, key, result>>

Init == /\ password \in Passwords
        /\ i = 0
        /\ key = [j \in 0..(GroupCount - 1) |-> 0]
        /\ result = "pending"

Refuse(reason) == result' = reason /\ UNCHANGED <<password, i, key>>

Verdict_NoRange(g) ==
    IF ~g.digits THEN "digits" ELSE IF g.value % 11 # 0 THEN "checksum" ELSE "good"

\* The checks of one group, in order.
Verdict(g) ==
    IF ~g.digits THEN "digits"
    ELSE IF g.value % 11 # 0 THEN "checksum"
    ELSE IF g.value \div 11 > MaxWord THEN "range"
    ELSE "good"

\* `word as u16`
AsWord(word) == word % (MaxWord + 1)

AcceptGroup_NoLimit ==
    /\ result = "pending" /\ i < Len(password)
    /\ Verdict(password[i + 1]) = "good"
    /\ key' = [key EXCEPT ![i] = AsWord(password[i + 1].value \div 11)]
    /\ i' = i + 1
    /\ UNCHANGED <<password, result>>

AcceptGroup ==
    /\ result = "pending" /\ i < Len(password)
    /\ i < GroupCount
    /\ Verdict(password[i + 1]) = "good"
    /\ key' = [key EXCEPT ![i] = AsWord(password[i + 1].value \div 11)]
    /\ i' = i + 1
    /\ UNCHANGED <<password, result>>

RefuseGroup ==
    /\ result = "pending" /\ i < Len(password)
    /\ i < GroupCount
    /\ Verdict(password[i + 1]) # "good"
    /\ Refuse(Verdict(password[i + 1]))

\* The ninth group, whatever it is.
RefuseExtra ==
    /\ result = "pending" /\ i < Len(password)
    /\ i >= GroupCount
    /\ Refuse("count")

Finish_AnyCount ==
    /\ result = "pending" /\ i = Len(password)
    /\ Refuse("Ok")

Finish ==
    /\ result = "pending" /\ i = Len(password)
    /\ Refuse(IF i = GroupCount THEN "Ok" ELSE "count")

Next == AcceptGroup \/ RefuseGroup \/ RefuseExtra \/ Finish

Spec == Init /\ [][Next]_vars

-----------------------------------------------------------------------------
\* The documented form: eight groups of six digits, each a multiple of 11 whose
\* quotient fits in 16 bits.
GoodGroup(g) == g.digits /\ \E word \in 0..MaxWord : g.value = 11 * word

\* Words fit in 16 bits, and key[i * 2..i * 2 + 2] is never out of the key.
TypeOK ==
    /\ i \in 0..Len(password) /\ i =< GroupCount
    /\ \A j \in 0..(GroupCount - 1) : key[j] \in 0..MaxWord
    /\ result \in {"pending", "Ok", "count", "digits", "checksum", "range"}

\* recovery_key_hash accepts a password exactly if it has the documented form.
AcceptsExactlyTheForm ==
    result # "pending" =>
        (result = "Ok" <=> /\ Len(password) = GroupCount
                           /\ \A j \in 1..Len(password) : GoodGroup(password[j]))

\* The key recovery_key_hash builds from an accepted password determines the
\* password: the words are its groups divided
\* by 11, each in its place, so no two passwords share a key.
KeyDeterminesPassword ==
    result = "Ok" => \A j \in 1..GroupCount : password[j].value = 11 * key[j - 1]
=============================================================================
