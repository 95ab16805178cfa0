-------------------------- MODULE RecoveryKeyProofs --------------------------
(***************************************************************************)
(* recovery_key_hash accepts the documented form and nothing else, for any *)
(* number of groups and all passwords.                                     *)
(***************************************************************************)
EXTENDS RecoveryKey, TLAPS

Errors == {"count", "digits", "checksum", "range"}

\* The groups passed are good and their words in place; a refusal has a cause.
Inv ==
    /\ password \in Seq(Group)
    /\ i \in 0..Len(password) /\ i =< GroupCount
    /\ key \in [0..(GroupCount - 1) -> 0..MaxWord]
    /\ \A j \in 1..i : GoodGroup(password[j]) /\ password[j].value = 11 * key[j - 1]
    /\ result \in {"pending", "Ok"} \cup Errors
    /\ result = "Ok" => i = Len(password) /\ i = GroupCount
    /\ result \in Errors => \/ Len(password) # GroupCount
                            \/ \E j \in 1..Len(password) : ~GoodGroup(password[j])

\* Division by 11.
LEMMA DivMod ==
    ASSUME NEW a \in Nat
    PROVE  a = 11 * (a \div 11) + (a % 11) /\ (a % 11) \in 0..10 /\ (a \div 11) \in Nat
<1>1. (a % 11) \in 0..10
  OBVIOUS
<1>2. (a \div 11) \in Nat
  OBVIOUS
<1>3. a = 11 * (a \div 11) + (a % 11)
  OBVIOUS
<1>4. QED
  BY <1>1, <1>2, <1>3

\* The checks of a group are the documented form of a group.
LEMMA VerdictIsGood ==
    ASSUME NEW g \in Group
    PROVE  /\ Verdict(g) = "good" <=> GoodGroup(g)
           /\ Verdict(g) = "good" => /\ (g.value \div 11) \in 0..MaxWord
                                     /\ g.value = 11 * (g.value \div 11)
           /\ Verdict(g) # "good" => Verdict(g) \in Errors
<1>1. g.value \in 0..MaxValue /\ g.digits \in BOOLEAN
  BY DEF Group
<1> USE RecoveryAssumption
<1>2. /\ g.value = 11 * (g.value \div 11) + (g.value % 11)
      /\ (g.value % 11) \in 0..10 /\ (g.value \div 11) \in Nat
  <2>1. g.value \in Nat
    BY <1>1
  <2>2. QED
    BY <2>1, DivMod
<1>3. ASSUME Verdict(g) = "good"
      PROVE  /\ g.digits /\ (g.value \div 11) \in 0..MaxWord
             /\ g.value = 11 * (g.value \div 11)
  BY <1>2, <1>3 DEF Verdict
<1>4. ASSUME GoodGroup(g) PROVE Verdict(g) = "good"
  <2>1. PICK word \in 0..MaxWord : g.value = 11 * word
    BY <1>4 DEF GoodGroup
  <2>2. g.value % 11 = 0 /\ g.value \div 11 = word
    BY <1>1, <2>1
  <2>3. g.digits
    BY <1>4 DEF GoodGroup
  <2>4. QED
    BY <2>2, <2>3 DEF Verdict
<1>5. Verdict(g) = "good" => GoodGroup(g)
  BY <1>3 DEF GoodGroup
<1>6. Verdict(g) # "good" => Verdict(g) \in Errors
  BY DEF Verdict, Errors
<1>7. QED
  BY <1>3, <1>4, <1>5, <1>6

\* `as u16` leaves a word that passed the range check alone.
LEMMA WordFits ==
    ASSUME NEW word \in 0..MaxWord
    PROVE  AsWord(word) = word
BY RecoveryAssumption DEF AsWord

\* Nothing has been looked at in the initial states.
LEMMA InitInv == Init => Inv
<1>1. SUFFICES ASSUME Init PROVE Inv
  OBVIOUS
<1>2. password \in Seq(Group) /\ Len(password) \in Nat
  BY <1>1, RecoveryAssumption DEF Init
<1>3. key \in [0..(GroupCount - 1) -> 0..MaxWord]
  BY <1>1, RecoveryAssumption DEF Init
<1>4. QED
  BY <1>1, <1>2, <1>3, RecoveryAssumption DEF Init, Inv, Errors

\* Each group is checked before it is written.
LEMMA NextInv == Inv /\ [Next]_vars => Inv'
<1>1. SUFFICES ASSUME Inv, [Next]_vars PROVE Inv'
  OBVIOUS
<1>2. /\ password \in Seq(Group) /\ i \in Nat /\ Len(password) \in Nat /\ GroupCount \in Nat
      /\ \A j \in 1..Len(password) : password[j] \in Group
  BY <1>1, RecoveryAssumption DEF Inv
<1>3. CASE AcceptGroup
  <2> DEFINE g == password[i + 1]
  <2>1. i + 1 \in 1..Len(password) /\ i \in 0..(GroupCount - 1) /\ g \in Group
    BY <1>2, <1>3 DEF AcceptGroup
  <2>2. GoodGroup(g) /\ (g.value \div 11) \in 0..MaxWord /\ g.value = 11 * (g.value \div 11)
    BY <1>3, <2>1, VerdictIsGood DEF AcceptGroup
  <2>3. /\ key' = [key EXCEPT ![i] = AsWord(g.value \div 11)] /\ i' = i + 1
        /\ password' = password /\ result' = result /\ result = "pending"
    BY <1>3 DEF AcceptGroup
  <2> DEFINE w == g.value \div 11
  <2>4. g.value = 11 * w /\ w \in 0..MaxWord /\ key' = [key EXCEPT ![i] = w]
    BY <2>2, <2>3, WordFits
  <2> HIDE DEF w
  <2>5. key' \in [0..(GroupCount - 1) -> 0..MaxWord]
    BY <1>1, <2>1, <2>4 DEF Inv
  <2>6. ASSUME NEW j \in 1..(i + 1)
        PROVE  GoodGroup(password[j]) /\ password[j].value = 11 * key'[j - 1]
    <3>1. CASE j = i + 1
      <4>1. key'[j - 1] = w
        BY <1>1, <1>2, <2>1, <2>4, <3>1 DEF Inv
      <4>2. QED
        BY <2>2, <2>4, <3>1, <4>1
    <3>2. CASE j \in 1..i
      <4>1. j - 1 # i /\ j - 1 \in 0..(GroupCount - 1)
        BY <1>2, <2>1, <3>2
      <4>2. key'[j - 1] = key[j - 1]
        BY <1>1, <2>4, <4>1 DEF Inv
      <4>3. QED
        BY <1>1, <3>2, <4>2 DEF Inv
    <3>3. QED
      BY <1>2, <3>1, <3>2
  <2>7. i' \in 0..Len(password) /\ i' =< GroupCount
    BY <1>2, <2>1, <2>3
  <2>8. QED
    BY <1>1, <2>3, <2>5, <2>6, <2>7 DEF Inv, Errors
<1>4. CASE RefuseGroup
  <2>1. i + 1 \in 1..Len(password) /\ password[i + 1] \in Group
    BY <1>2, <1>4 DEF RefuseGroup
  <2>2. ~GoodGroup(password[i + 1]) /\ Verdict(password[i + 1]) \in Errors
    BY <1>4, <2>1, VerdictIsGood DEF RefuseGroup
  <2>3. result' \in Errors /\ UNCHANGED <<password, i, key>>
    BY <1>4, <2>2 DEF RefuseGroup, Refuse
  <2>4. QED
    BY <1>1, <2>1, <2>2, <2>3 DEF Inv, Errors
<1>5. CASE RefuseExtra
  <2>1. Len(password) # GroupCount
    BY <1>2, <1>5 DEF RefuseExtra
  <2>2. QED
    BY <1>1, <1>5, <2>1 DEF RefuseExtra, Refuse, Inv, Errors
<1>6. CASE Finish
  BY <1>1, <1>6 DEF Finish, Refuse, Inv, Errors
<1>7. CASE UNCHANGED vars
  BY <1>1, <1>7 DEF vars, Inv
<1>8. QED
  BY <1>1, <1>3, <1>4, <1>5, <1>6, <1>7 DEF Next

\* The invariant holds throughout every behaviour.
THEOREM Invariance == Spec => []Inv
BY InitInv, NextInv, PTL DEF Spec

\* recovery_key_hash succeeds exactly on passwords of the documented form.
THEOREM AcceptsExactly == Spec => []AcceptsExactlyTheForm
<1>1. Inv => AcceptsExactlyTheForm
  BY DEF Inv, AcceptsExactlyTheForm, Errors
<1>2. QED
  BY <1>1, Invariance, PTL

\* Different accepted passwords have different keys.
THEOREM KeyDetermines == Spec => []KeyDeterminesPassword
<1>1. Inv => KeyDeterminesPassword
  BY DEF Inv, KeyDeterminesPassword
<1>2. QED
  BY <1>1, Invariance, PTL

\* Words fit in 16 bits and are written inside the key.
THEOREM TypeCorrect == Spec => []TypeOK
<1>1. Inv => TypeOK
  BY DEF Inv, TypeOK, Errors
<1>2. QED
  BY <1>1, Invariance, PTL
=============================================================================
