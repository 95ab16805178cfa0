-------------------------- MODULE EntryParserProofs --------------------------
(***************************************************************************)
(* parse_sequence is right on every buffer: for all lengths, sizes and     *)
(* slices, the entries it returns tile the slice and none is dropped.      *)
(***************************************************************************)
EXTENDS EntryParser, SequenceTheorems, TLAPS

EntryType == [at : Nat, size : Nat, data : Int]

Inv ==
    /\ len \in Nat
    /\ size \in [0..(len - 1) -> Nat]
    /\ start \in 0..len /\ stop \in 0..len /\ pos \in start..stop
    /\ out \in Seq(EntryType)
    /\ done \in BOOLEAN
    /\ EntriesTile
    /\ done => ~Accepts(pos)

\* The slices parse_sequence is called on lie inside the buffer.
LEMMA InitInv == Init => Inv
<1>1. SUFFICES ASSUME Init PROVE Inv
  OBVIOUS
<1>2. len \in Nat /\ size \in [0..(len - 1) -> Nat]
  BY <1>1, ParserAssumption DEF Init
<1>3. PICK c \in Claims : BlockSlice(c) \/ NestedSlice(c)
  BY <1>1 DEF Init
<1>4. start \in 0..len /\ stop \in 0..len /\ start =< stop
  BY <1>2, <1>3, ParserAssumption DEF BlockSlice, NestedSlice, Least
<1>5. pos = start /\ out = <<>> /\ done = FALSE /\ Len(out) = 0
  BY <1>1 DEF Init
<1>6. EntriesTile
  BY <1>5 DEF EntriesTile
<1>7. out \in Seq(EntryType)
  BY <1>5, EmptySeq
<1>8. pos \in start..stop
  BY <1>4, <1>5
<1>9. QED
  BY <1>2, <1>4, <1>5, <1>6, <1>7, <1>8 DEF Inv

\* An accepted entry lies inside the slice.
LEMMA AcceptedFits ==
    ASSUME Inv, Accepts(pos)
    PROVE  /\ size[pos] \in Nat /\ size[pos] >= HeaderLen /\ pos + size[pos] =< stop
           /\ pos + size[pos] \in start..stop
           /\ Least(pos + size[pos], stop) - (pos + HeaderLen) = size[pos] - HeaderLen
<1>1. pos \in Nat /\ stop \in Nat /\ len \in Nat /\ start \in Nat /\ stop =< len /\ start =< pos
  BY DEF Inv
<1>2. pos \in 0..(len - 1)
  BY <1>1, ParserAssumption DEF Accepts
<1>3. size[pos] \in Nat
  BY <1>2 DEF Inv
<1>4. QED
  BY <1>1, <1>3, ParserAssumption DEF Accepts, Least

\* Taking an entry extends the tiling by one.
LEMMA TakeTiles ==
    ASSUME Inv, Take
    PROVE  EntriesTile' /\ out' \in Seq(EntryType)
<1> DEFINE e == [at |-> pos, size |-> size[pos], data |-> size[pos] - HeaderLen]
           n == Len(out)
<1>1. /\ out' = Append(out, e) /\ pos' = pos + size[pos]
      /\ size' = size /\ start' = start /\ stop' = stop
  BY AcceptedFits DEF Take
<1>2. /\ e.at = pos /\ e.size = size[pos] /\ e.data = size[pos] - HeaderLen
      /\ e \in EntryType
  <2>1. pos \in Nat /\ size[pos] \in Nat /\ size[pos] - HeaderLen \in Int
    <3>1. Accepts(pos)
      BY DEF Take
    <3>2. size[pos] \in Nat
      BY <3>1, AcceptedFits
    <3>3. pos \in Nat
      BY DEF Inv
    <3>4. QED
      BY <3>2, <3>3, ParserAssumption
  <2>2. QED
    BY <2>1 DEF EntryType
<1> HIDE DEF e
<1>3. out \in Seq(EntryType) /\ n \in Nat
  BY DEF Inv
<1>4. /\ out' \in Seq(EntryType) /\ Len(out') = n + 1 /\ out'[n + 1] = e
      /\ \A i \in 1..n : out'[i] = out[i]
  BY <1>1, <1>2, <1>3
<1>5. out' # <<>>
  BY <1>3, <1>4
<1>6. (n = 0) <=> (out = <<>>)
  BY <1>3
<1> HIDE DEF n
<1>7. pos' = IF out' = <<>> THEN start' ELSE out'[Len(out')].at + out'[Len(out')].size
  BY <1>1, <1>2, <1>4, <1>5
<1>8. ASSUME NEW i \in 1..Len(out')
      PROVE  /\ out'[i].at = IF i = 1 THEN start' ELSE out'[i - 1].at + out'[i - 1].size
             /\ out'[i].size = size'[out'[i].at]
             /\ out'[i].data = out'[i].size - HeaderLen
             /\ out'[i].size >= HeaderLen
             /\ out'[i].at + out'[i].size =< stop'
  <2>1. CASE i \in 1..n
    <3>1. out'[i] = out[i] /\ (i # 1 => out'[i - 1] = out[i - 1])
      BY <1>3, <1>4, <2>1
    <3>2. QED
      BY <1>1, <2>1, <3>1 DEF Inv, EntriesTile, n
  <2>2. CASE i = n + 1
    <3>1. i = 1 => pos = start
      BY <1>3, <1>6, <2>2 DEF Inv, EntriesTile
    <3>2. i # 1 => pos = out'[i - 1].at + out'[i - 1].size
      <4>1. ASSUME i # 1 PROVE out'[i - 1] = out[n] /\ out # <<>>
        BY <1>3, <1>4, <1>6, <2>2, <4>1
      <4>2. QED
        BY <4>1 DEF Inv, EntriesTile, n
    <3>3. size[pos] >= HeaderLen /\ pos + size[pos] =< stop
      BY AcceptedFits DEF Take
    <3>4. QED
      BY <1>1, <1>2, <1>4, <2>2, <3>1, <3>2, <3>3
  <2>3. QED
    BY <1>3, <1>4, <2>1, <2>2
<1>9. QED
  BY <1>4, <1>7, <1>8 DEF EntriesTile

\* Both steps of the loop preserve the invariant.
LEMMA NextInv == Inv /\ [Next]_vars => Inv'
<1>1. SUFFICES ASSUME Inv, [Next]_vars PROVE Inv'
  OBVIOUS
<1>2. CASE Take
  <2>1. EntriesTile' /\ out' \in Seq(EntryType)
    BY <1>1, <1>2, TakeTiles
  <2>2. pos' \in start..stop
    BY <1>1, <1>2, AcceptedFits DEF Take
  <2>3. QED
    BY <1>1, <1>2, <2>1, <2>2 DEF Inv, Take
<1>3. CASE Break
  BY <1>1, <1>3 DEF Inv, Break, EntriesTile, Accepts
<1>4. CASE UNCHANGED vars
  BY <1>1, <1>4 DEF Inv, vars, EntriesTile, Accepts
<1>5. QED
  BY <1>1, <1>2, <1>3, <1>4 DEF Next

\* The invariant holds throughout every behaviour.
THEOREM Invariance == Spec => []Inv
BY InitInv, NextInv, PTL DEF Spec

\* The parser stays inside its slice, and the slice inside the buffer.
THEOREM TypeCorrect == Spec => []TypeOK
<1>1. Inv => TypeOK
  BY DEF Inv, TypeOK
<1>2. QED
  BY <1>1, Invariance, PTL

\* The entries returned tile the slice, whatever sizes the buffer claims.
THEOREM Tiling == Spec => []EntriesTile
<1>1. Inv => EntriesTile
  BY DEF Inv
<1>2. QED
  BY <1>1, Invariance, PTL

\* No well-formed entry is left behind.
THEOREM Complete == Spec => []NothingDropped
<1>1. ASSUME Inv PROVE NothingDropped
  <2>1. SUFFICES ASSUME done, stop - pos >= HeaderLen PROVE size[pos] < HeaderLen \/ size[pos] > stop - pos
    BY <1>1, ParserAssumption DEF NothingDropped, Inv
  <2>2. pos \in 0..(len - 1) /\ pos \in Nat /\ stop \in Nat
    BY <1>1, <2>1, ParserAssumption DEF Inv
  <2>3. size[pos] \in Nat
    BY <1>1, <2>2 DEF Inv
  <2>4. QED
    BY <1>1, <2>1, <2>2, <2>3, ParserAssumption DEF Inv, Accepts
<1>2. QED
  BY <1>1, Invariance, PTL

\* Every step that is not the last moves at least a header forward, so a
\* buffer of n bytes takes at most n \div HeaderLen + 1 steps.
THEOREM Forward == Spec => MovesForward
<1>1. Inv /\ [Next]_vars => [pos' >= pos + HeaderLen \/ done']_vars
  <2>1. SUFFICES ASSUME Inv, Next PROVE pos' >= pos + HeaderLen \/ done'
    OBVIOUS
  <2>2. CASE Take
    <3>1. pos \in Nat
      BY <2>1 DEF Inv
    <3>2. QED
      BY <2>1, <2>2, <3>1, AcceptedFits, ParserAssumption DEF Take
  <2>3. CASE Break
    BY <2>3 DEF Break
  <2>4. QED
    BY <2>1, <2>2, <2>3 DEF Next
<1>2. QED
  BY <1>1, Invariance, PTL DEF Spec, MovesForward
=============================================================================
