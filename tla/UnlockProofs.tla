---------------------------- MODULE UnlockProofs ----------------------------
(***************************************************************************)
(* Unlocking is sound for every image and every request: the key of an     *)
(* unlocked volume is one the credential opens in the first signed copy.   *)
(* It is also complete: if that copy is well formed, a credential that     *)
(* opens the volume unlocks it, and an error says what is wrong.  All of   *)
(* it is stated of single steps too, for the proofs about the callers.     *)
(***************************************************************************)
EXTENDS Unlock, TLAPS, FiniteSetTheorems, WellFoundedInduction

\* A set of naturals has a least element, and Min is it.
LEMMA HasMin ==
    ASSUME NEW S \in SUBSET Nat, S # {}
    PROVE  Min(S) \in S /\ \A y \in S : Min(S) =< y
<1>1. PICK x \in S : \A y \in S : ~(<<y, x>> \in OpToRel(<, Nat))
    BY NatLessThanWellFounded, WFMin
<1>2. ASSUME NEW y \in S PROVE x =< y
    <2>1. x \in Nat /\ y \in Nat /\ <<y, x>> \in Nat \X Nat
        OBVIOUS
    <2>2. ~(<<y, x>> \in {ss \in Nat \X Nat : ss[1] < ss[2]})
        BY <1>1 DEF OpToRel
    <2>3. ~(y < x)
        BY <2>1, <2>2
    <2> QED
        BY <2>1, <2>3
<1> QED
    BY <1>2 DEF Min

\* A recursion along 0..n, from s by the steps G, over the values V,
Steps(G, n, V) == \A i \in 1..n : \A v \in V : G[i][v] \in V
Recurs(f, G, s, n) == f[0] = s /\ \A i \in 1..n : f[i] = G[i][f[i - 1]]

\* has a solution.
LEMMA Recursion ==
    ASSUME NEW V, NEW s \in V, NEW n \in Nat, NEW G, Steps(G, n, V)
    PROVE  \E f \in [0..n -> V] : Recurs(f, G, s, n)
<1> USE DEF Steps
<1> DEFINE Solves(f, m) == Recurs(f, G, s, m)
           Solvable(m) == \E f \in [0..m -> V] : Solves(f, m)
           Bad == {m \in Nat : m =< n /\ ~Solvable(m)}
<1> SUFFICES ASSUME Bad # {} PROVE FALSE
    <2>1. Bad = {} => Solvable(n)
        <3> HIDE DEF Solvable
        <3> QED
            OBVIOUS
    <2> QED
        BY <2>1, Zenon
<1> DEFINE m == Min(Bad)
<1>1. m \in Bad /\ \A l \in Bad : m =< l
    <2>1. Bad \in SUBSET Nat
        OBVIOUS
    <2> HIDE DEF Bad
    <2> QED
        BY <2>1, HasMin
<1>2. m \in Nat /\ m =< n /\ ~Solvable(m)
    BY <1>1
<1>3. \A l \in Nat : l < m => Solvable(l)
    <2> HIDE DEF m, Solvable
    <2> QED
        BY <1>1, <1>2
<1> HIDE DEF m
<1>4. m # 0
    <2>1. [i \in 0..0 |-> s] \in [0..0 -> V] /\ Solves([i \in 0..0 |-> s], 0)
        BY DEF Recurs
    <2> HIDE DEF Solves
    <2> QED
        BY <1>2, <2>1
<1>5. PICK g \in [0..(m - 1) -> V] : Solves(g, m - 1)
    <2>1. m - 1 \in Nat /\ m - 1 < m
        BY <1>2, <1>4
    <2> HIDE DEF Solves
    <2> QED
        BY <1>3, <2>1
<1> DEFINE last == G[m][g[m - 1]]
           f == [i \in 0..m |-> IF i < m THEN g[i] ELSE last]
<1>6. last \in V
    BY <1>2, <1>4
<1> HIDE DEF last
<1>7. f \in [0..m -> V]
    BY <1>2, <1>6
<1>8. Solves(f, m)
    <2>1. f[0] = s
        BY <1>2, <1>4, <1>5 DEF Recurs
    <2>2. ASSUME NEW i \in 1..m PROVE f[i] = G[i][f[i - 1]]
        <3>1. f[i - 1] = g[i - 1]
            BY <1>2
        <3>2. CASE i < m
            <4>1. f[i] = g[i] /\ i \in 1..(m - 1)
                BY <1>2, <3>2
            <4> HIDE DEF f
            <4> QED
                BY <1>5, <3>1, <4>1 DEF Recurs
        <3>3. CASE i = m
            BY <1>2, <3>1, <3>3 DEF last
        <3> QED
            BY <1>2, <3>2, <3>3
    <2> HIDE DEF f
    <2> QED
        BY <2>1, <2>2 DEF Recurs
<1> QED
    BY <1>2, <1>7, <1>8

\* parse_sequence returns a prefix: entries of the sequence it was given.
LEMMA Prefix ==
    ASSUME NEW s, s \in Seq(Range(s)), NEW room
    PROVE  /\ parse_sequence(s, room) \in Seq(Range(s))
           /\ Range(parse_sequence(s, room)) \subseteq Range(s)
<1> DEFINE whole == {n \in DOMAIN s : Extent(s, n) =< room}
<1>1. IsFiniteSet(1..Len(s)) /\ Cardinality(1..Len(s)) = Len(s)
    <2>1. Len(s) \in Nat
        OBVIOUS
    <2>2. /\ IsFiniteSet(1..Len(s))
          /\ Cardinality(1..Len(s)) = IF 1 > Len(s) THEN 0 ELSE Len(s) - 1 + 1
        BY <2>1, FS_Interval, SMTT(30)
    <2> QED
        BY <2>1, <2>2
<1>2. whole \in SUBSET (1..Len(s))
    OBVIOUS
<1>3. Cardinality(whole) \in 0..Len(s)
    <2> HIDE DEF whole
    <2>1. IsFiniteSet(whole) /\ Cardinality(whole) =< Cardinality(1..Len(s))
        BY <1>1, <1>2, FS_Subset
    <2>2. Cardinality(whole) \in Nat
        BY <2>1, FS_CardinalityType
    <2>3. Len(s) \in Nat
        OBVIOUS
    <2> QED
        BY <1>1, <2>1, <2>2, <2>3
<1>4. parse_sequence(s, room) = SubSeq(s, 1, Cardinality(whole))
    BY DEF parse_sequence
<1> HIDE DEF whole
<1>5. parse_sequence(s, room) \in Seq(Range(s))
    BY <1>3, <1>4
<1> QED
    BY <1>5 DEF Range

\* What Prop finds in a VMK entry is a property of it, of the type asked for.
LEMMA PropFound ==
    ASSUME NEW v, v.nested \in Seq(Range(v.nested)), NEW t, Prop(v, t) # 0
    PROVE  Props(v)[Prop(v, t)] \in OfType(Props(v), t)
<1> DEFINE s == Props(v)
           I == {i \in 1..Len(s) : s[i].value_type = t}
<1>1. s \in Seq(Range(v.nested))
    BY Prefix DEF Props, nested
<1>2. Prop(v, t) = IF I # {} THEN Min(I) ELSE 0
    BY DEF Prop, Find
<1> HIDE DEF s
<1>3. I \in SUBSET Nat
    OBVIOUS
<1>4. Prop(v, t) \in I
    <2> HIDE DEF I
    <2> QED
        BY <1>2, <1>3, HasMin
<1>5. s[Prop(v, t)] \in Range(s) /\ s[Prop(v, t)].value_type = t
    BY <1>1, <1>4 DEF Range
<1> QED
    BY <1>5 DEF OfType, s

\* A key is that of a VMK the request opens if some VMK entry of the request's
\* type has a container for it, sealed under one of the request's keys.
LEMMA InOpenedVmks ==
    ASSUME NEW m, NEW r, NEW k
    PROVE  k \in OpenedVmks(m, r) <=>
             \E v \in Range(m.entries) :
                /\ is_vmk(v) /\ protection_type(v) = ProtectorType(r)
                /\ \E e \in OfType(Props(v), VALUE_TYPE_AES_CCM) :
                      /\ e.len >= 28 /\ e.content.under \in CredentialKeys(v, r)
                      /\ k = e.content.key
<1> DEFINE V == {x \in Range(m.entries) : is_vmk(x) /\ protection_type(x) = ProtectorType(r)}
           C(v) == {x \in OfType(Props(v), VALUE_TYPE_AES_CCM) :
                       x.len >= 28 /\ x.content.under \in CredentialKeys(v, r)}
           K(v) == {e.content.key : e \in C(v)}
<1>1. OpenedVmks(m, r) = UNION {K(v) : v \in V}
    BY DEF OpenedVmks
<1>2. k \in UNION {K(v) : v \in V} <=> \E v \in V : k \in K(v)
    <2> HIDE DEF V, K
    <2> QED
        OBVIOUS
<1>3. ASSUME NEW v PROVE k \in K(v) <=> \E e \in C(v) : k = e.content.key
    <2> HIDE DEF C
    <2> QED
        OBVIOUS
<1>4. ASSUME NEW v
      PROVE  (\E e \in C(v) : k = e.content.key) <=>
               \E e \in OfType(Props(v), VALUE_TYPE_AES_CCM) :
                  /\ e.len >= 28 /\ e.content.under \in CredentialKeys(v, r)
                  /\ k = e.content.key
    OBVIOUS
<1> HIDE DEF K, C
<1> QED
    BY <1>1, <1>2, <1>3, <1>4, Zenon

\* Likewise for the FVEKs those VMKs open.
LEMMA InOpenedFveks ==
    ASSUME NEW m, NEW r, NEW k
    PROVE  k \in OpenedFveks(m, r) <=>
             \E e \in Fveks(m) : /\ e.len >= 28 /\ e.content.under \in OpenedVmks(m, r)
                                 /\ k = e.content.key
<1> DEFINE C == {x \in Fveks(m) : x.len >= 28 /\ x.content.under \in OpenedVmks(m, r)}
<1>1. OpenedFveks(m, r) = {e.content.key : e \in C}
    BY DEF OpenedFveks
<1>2. k \in {e.content.key : e \in C} <=> \E e \in C : k = e.content.key
    <2> HIDE DEF C
    <2> QED
        OBVIOUS
<1> QED
    BY <1>1, <1>2

-----------------------------------------------------------------------------
(* What holds between the steps of a call. *)

AfterGate == {"protector", "unwrap", "vmk", "fvek", "end"}
AfterMeta == AfterGate \cup {"gate"}
BeforeUnwrap == {"header", "copies", "gate", "protector", "unwrap"}

\* The copies passed over are unsigned, and the metadata is that of the first
\* signed one.
CopyInv ==
    /\ IsEvidence(image) /\ copy \in 1..4
    /\ request.call = "startup" => IsEntries(request.bek)
    /\ pc \in {"call", "header"} => copy = 1
    /\ pc = "copies" => \A c \in SignedCopies : copy =< c
    /\ pc \in AfterMeta => SignedCopies # {} /\ meta = FirstSigned

\* The key at hand is the credential's, then one it leads to.
KeyInv ==
    /\ pc \in BeforeUnwrap =>
          /\ request.call = "password" => key = <<"password", request.secret>>
          /\ request.call = "recovery" => request.valid /\ key = <<"recovery", request.secret>>
          /\ request.call = "startup" => key \in CredentialKeys(NoEntry, request)
    /\ pc \in {"unwrap", "vmk"} => /\ vmk \in Range(meta.entries) /\ is_vmk(vmk)
                                  /\ protection_type(vmk) = ProtectorType(request)
    /\ pc = "vmk" => /\ Prop(vmk, VALUE_TYPE_AES_CCM) # 0
                     /\ key \in CredentialKeys(vmk, request)
    /\ pc = "fvek" => key \in OpenedVmks(meta, request)
    /\ pc = "end" => key \in OpenedFveks(meta, request)

GateInv ==
    pc \in AfterGate => validated_kind(decode(meta.encryption_method)) # "none"

\* The inductive invariant: the above while the call runs, and its consequence
\* for the result.
SoundInv ==
    /\ pc \in {"call", "header", "copies", "done"} \cup AfterMeta
    /\ CopyInv /\ KeyInv /\ GateInv
    /\ pc # "done" => result = Pending
    /\ result.tag = "Ok" => UnlockIsSound /\ UnlockedIsEncrypted

\* What read_metadata returns consists of entries of a block.
LEMMA SignedEntries ==
    ASSUME IsEvidence(image)
    PROVE  IsEntries(FirstSigned.entries) /\ FirstSigned.encryption_method \in Nat
<1> DEFINE b == BlockAt(Offsets[Min(SignedCopies)])
           es == FirstSigned.entries
<1>1. IsEntries(b.entries) /\ b.method \in Nat
    <2>1. ASSUME NEW o PROVE IsEntries(BlockAt(o).entries) /\ BlockAt(o).method \in Nat
        <3>1. CASE o \in DOMAIN image.blocks
            BY <3>1 DEF BlockAt, IsEvidence
        <3>2. CASE o \notin DOMAIN image.blocks
            BY <3>2 DEF BlockAt, Block, IsEntries, Range
        <3> QED
            BY <3>1, <3>2
    <2> QED
        BY <2>1
<1>2. /\ es = EntriesOf(b)
      /\ FirstSigned.encryption_method = Field(b.len, 100, 2, b.method)
    BY DEF FirstSigned, Parse
<1> HIDE DEF b, es
<1>3. es \in Seq(Range(b.entries)) /\ Range(es) \subseteq Range(b.entries)
    BY <1>1, <1>2, Prefix DEF IsEntries, EntriesOf
<1>4. es \in Seq(Range(es))
    BY <1>3 DEF Range
<1>5. FirstSigned.encryption_method \in Nat
    BY <1>1, <1>2 DEF Field
<1>6. IsEntries(es)
    BY <1>1, <1>3, <1>4 DEF IsEntries
<1> QED
    BY <1>5, <1>6 DEF es

LEMMA MetaEntries ==
    ASSUME IsEvidence(image), meta = FirstSigned
    PROVE  /\ meta.entries \in Seq(Range(meta.entries))
           /\ \A e \in Range(meta.entries) : e.nested \in Seq(Range(e.nested))
           /\ meta.encryption_method \in Nat
    BY SignedEntries DEF IsEntries

\* The key of a startup-key file opens what the file is for, whatever the VMK.
LEMMA StartupKey ==
    ASSUME NEW r, r.call = "startup", IsEntries(r.bek), parse_startup_key(r.bek).tag = "Ok"
    PROVE  parse_startup_key(r.bek).key \in CredentialKeys(NoEntry, r)
<1> DEFINE bek == r.bek
           I == {i \in 1..Len(bek) : bek[i].value_type = VALUE_TYPE_EXTERNAL_KEY}
           x == IF I # {} THEN Min(I) ELSE 0
           inner == nested(bek[x], 24)
           J == {i \in 1..Len(inner) : inner[i].value_type = VALUE_TYPE_KEY}
           y == IF J # {} THEN Min(J) ELSE 0
<1>1. /\ x # 0 /\ y # 0 /\ Holds(inner[y].len, 4, 32)
      /\ parse_startup_key(r.bek).key = inner[y].content
    BY ZenonT(40) DEF parse_startup_key, Find
<1>2. x \in I
    <2>1. x # 0
        BY <1>1
    <2>2. I \in SUBSET Nat
        OBVIOUS
    <2> HIDE DEF I
    <2> QED
        BY <2>1, <2>2, HasMin
<1>3. bek[x] \in OfType(bek, VALUE_TYPE_EXTERNAL_KEY)
    <2> HIDE DEF x
    <2> QED
        BY <1>2 DEF OfType, Range, IsEntries
<1>4. inner \in Seq(Range(bek[x].nested))
    <2> HIDE DEF x
    <2>1. bek[x].nested \in Seq(Range(bek[x].nested))
        BY <1>3 DEF OfType, IsEntries
    <2> QED
        BY <2>1, Prefix DEF nested
<1> HIDE DEF x
<1>5. y \in J
    <2>1. y # 0
        BY <1>1
    <2> HIDE DEF inner
    <2>2. J \in SUBSET Nat
        OBVIOUS
    <2> HIDE DEF J
    <2> QED
        BY <2>1, <2>2, HasMin
<1> HIDE DEF y
<1>6. inner[y] \in OfType(inner, VALUE_TYPE_KEY)
    <2> HIDE DEF inner
    <2> QED
        BY <1>4, <1>5 DEF OfType, Range
<1>7. inner[y].len >= 36
    BY <1>1 DEF Holds
<1> QED
    BY <1>1, <1>3, <1>6, <1>7 DEF CredentialKeys

\* A startup key does not depend on the VMK it is tried on.
LEMMA StartupAnyVmk ==
    ASSUME NEW r, r.call = "startup", NEW v, NEW w
    PROVE  CredentialKeys(v, r) = CredentialKeys(w, r)
    BY DEF CredentialKeys

\* The methods with a validated kind are the five with a cipher.
LEMMA ValidatedMethods ==
    ASSUME NEW raw \in Nat, validated_kind(decode(raw)) # "none"
    PROVE  raw \in {32768, 32770, 32771, 32772, 32773}
<1>1. raw - 32768 \in 0..5
    BY DEF validated_kind, decode, DecodeUpTo, NoMethod
<1>2. raw # 32769
    BY DEF validated_kind, decode, DecodeUpTo
<1> QED
    BY <1>1, <1>2

-----------------------------------------------------------------------------
(* The evidence does not change, so neither does what it says. *)

LEMMA SameEvidenceSeen ==
    ASSUME image' = image
    PROVE  SignedCopies' = SignedCopies /\ FirstSigned' = FirstSigned
    BY DEF SignedCopies, FirstSigned, BlockAt, Offsets, volume_header

\* A call under way has not unlocked anything.
LEMMA PendingTag == Pending.tag = "pending"
    BY DEF Pending

\* A call that fails leaves nothing to be shown.
LEMMA FailSound ==
    ASSUME SoundInv, NEW tag, tag # "Ok", NEW what, Fail(tag, what)
    PROVE  SoundInv'
<1>1. /\ pc' = "done" /\ image' = image /\ request' = request /\ copy' = copy
      /\ result'.tag # "Ok"
    BY DEF Fail, Pending
<1>2. CopyInv'
    BY <1>1 DEF SoundInv, CopyInv, AfterMeta, AfterGate
<1>3. KeyInv' /\ GateInv'
    BY <1>1 DEF KeyInv, GateInv, BeforeUnwrap, AfterGate
<1> QED
    BY <1>1, <1>2, <1>3 DEF SoundInv

\* The public functions put the credential in `key`.
LEMMA CallSound ==
    ASSUME SoundInv, CallPassword \/ CallRecovery \/ CallClearKey \/ CallStartupKey
    PROVE  SoundInv'
<1> DEFINE Called == /\ pc = "call" /\ Go("header") /\ UNCHANGED <<copy, meta, kind, vmk>>
                     /\ request.call = "password" => key' = <<"password", request.secret>>
                     /\ request.call = "recovery" =>
                           request.valid /\ key' = <<"recovery", request.secret>>
                     /\ request.call = "startup" => key' \in CredentialKeys(NoEntry, request)
<1>1. ASSUME Called PROVE SoundInv'
    <2>1. /\ pc = "call" /\ pc' = "header" /\ image' = image /\ request' = request
          /\ result' = result /\ copy' = copy
        BY <1>1 DEF Go
    <2>2. CopyInv'
        BY <2>1 DEF SoundInv, CopyInv, AfterMeta, AfterGate
    <2>3. CredentialKeys(NoEntry, request)' = CredentialKeys(NoEntry, request)
        BY <2>1 DEF CredentialKeys, OfType, Props, nested, NoEntry, Entry
    <2>4. KeyInv' /\ GateInv'
        BY <1>1, <2>1, <2>3 DEF KeyInv, GateInv, AfterGate
    <2>5. result' = Pending /\ result'.tag # "Ok"
        BY <2>1, PendingTag DEF SoundInv
    <2> QED
        BY <2>1, <2>2, <2>4, <2>5 DEF SoundInv
<1> HIDE DEF Called
<1>2. CASE CallPassword
    BY <1>1, <1>2 DEF CallPassword, password_hash, Called
<1>3. CASE CallRecovery
    <2>1. CASE Fail("InvalidRecoveryPassword", "")
        BY <2>1, FailSound
    <2>2. CASE ~Fail("InvalidRecoveryPassword", "")
        BY <1>1, <1>3, <2>2 DEF CallRecovery, recovery_key_hash, Called
    <2> QED
        BY <2>1, <2>2
<1>4. CASE CallClearKey
    BY <1>1, <1>4 DEF CallClearKey, Called
<1>5. CASE CallStartupKey
    <2> DEFINE p == parse_startup_key(request.bek)
    <2>1. CASE p.tag # "Ok"
        BY <1>5, <2>1, FailSound DEF CallStartupKey
    <2>2. CASE p.tag = "Ok"
        <3>1. request.call = "startup" /\ IsEntries(request.bek)
            BY <1>5 DEF CallStartupKey, SoundInv, CopyInv
        <3>2. key' \in CredentialKeys(NoEntry, request)
            BY <1>5, <2>2, <3>1, StartupKey DEF CallStartupKey
        <3> QED
            BY <1>1, <1>5, <2>2, <3>1, <3>2 DEF CallStartupKey, Called
    <2> QED
        BY <2>1, <2>2
<1> QED
    BY <1>2, <1>3, <1>4, <1>5

\* read_metadata passes over unsigned copies and takes the first signed one.
LEMMA ReadSound ==
    ASSUME SoundInv, ReadHeader \/ SkipCopy \/ ReadCopy \/ NoCopyLeft \/ ReaderFails
    PROVE  SoundInv'
<1> USE DEF AfterMeta, AfterGate, BeforeUnwrap
<1>1. ASSUME pc \in {"header", "copies"}, pc' \in {"copies", "gate"}, image' = image,
             UNCHANGED <<request, kind, vmk, key, result>>, CopyInv'
      PROVE  SoundInv'
    <2>1. result' = Pending /\ result'.tag # "Ok"
        BY <1>1, PendingTag DEF SoundInv
    <2>2. CredentialKeys(NoEntry, request)' = CredentialKeys(NoEntry, request)
        BY <1>1 DEF CredentialKeys, OfType, Props, nested, NoEntry, Entry
    <2>3. KeyInv' /\ GateInv'
        BY <1>1, <2>2 DEF SoundInv, KeyInv, GateInv
    <2> QED
        BY <1>1, <2>1, <2>3 DEF SoundInv
<1>2. CASE ReadHeader
    <2>1. CASE Fail("NotBitLocker", "")
        BY <2>1, FailSound
    <2>2. CASE ~Fail("NotBitLocker", "")
        <3>1. /\ pc = "header" /\ pc' = "copies" /\ image' = image
              /\ UNCHANGED <<request, copy, kind, vmk, key, result>>
            BY <1>2, <2>2 DEF ReadHeader, Go
        <3>2. \A c \in SignedCopies : 1 =< c
            BY DEF SignedCopies
        <3>3. CopyInv'
            BY <3>1, <3>2, SameEvidenceSeen DEF SoundInv, CopyInv
        <3> QED
            BY <1>1, <3>1, <3>3
    <2> QED
        BY <2>1, <2>2
<1>3. CASE SkipCopy
    <2>1. /\ pc = "copies" /\ pc' = "copies" /\ image' = image /\ copy =< 3 /\ copy' = copy + 1
          /\ UNCHANGED <<request, kind, vmk, key, result>> /\ copy \notin SignedCopies
        BY <1>3 DEF SkipCopy, Go, SignedCopies
    <2>2. \A c \in SignedCopies : c \in 1..3
        BY DEF SignedCopies
    <2>3. CopyInv'
        BY <2>1, <2>2, SameEvidenceSeen DEF SoundInv, CopyInv
    <2> QED
        BY <1>1, <2>1, <2>3
<1>4. CASE ReadCopy
    <2>1. /\ pc = "copies" /\ copy \in 1..3 /\ Offsets[copy] # 0 /\ image' = image
          /\ UNCHANGED <<request, kind, vmk, key, result>>
        BY <1>4 DEF ReadCopy, TakeCopyOr, Go, SoundInv, CopyInv
    <2>2. \A c \in SignedCopies : c \in 1..3
        BY DEF SignedCopies
    <2>3. CASE BlockAt(Offsets[copy]).signed
        <3>1. /\ pc' = "gate" /\ copy' = copy
              /\ meta' = Parse(BlockAt(Offsets[copy]), volume_header.bytes_per_sector)
            BY <1>4, <2>3 DEF ReadCopy, TakeCopyOr, Go
        <3>2. copy \in SignedCopies
            BY <2>1, <2>3 DEF SignedCopies
        <3>3. \A c \in SignedCopies : copy =< c
            BY <2>1 DEF SoundInv, CopyInv
        <3>4. Min(SignedCopies) = copy
            <4>1. Min(SignedCopies) \in SignedCopies /\ Min(SignedCopies) =< copy
                BY <2>2, <3>2, HasMin
            <4> QED
                BY <2>1, <2>2, <3>3, <4>1
        <3>5. meta' = FirstSigned
            BY <3>1, <3>4 DEF FirstSigned
        <3>6. CopyInv'
            BY <2>1, <3>1, <3>2, <3>5, SameEvidenceSeen DEF SoundInv, CopyInv
        <3> QED
            BY <1>1, <2>1, <3>1, <3>6
    <2>4. CASE ~BlockAt(Offsets[copy]).signed
        <3>1. pc' = "copies" /\ copy' = copy + 1
            BY <1>4, <2>4 DEF ReadCopy, TakeCopyOr, Go
        <3>2. copy \notin SignedCopies
            BY <2>4 DEF SignedCopies
        <3>3. CopyInv'
            BY <2>1, <2>2, <3>1, <3>2, SameEvidenceSeen DEF SoundInv, CopyInv
        <3> QED
            BY <1>1, <2>1, <3>1, <3>3
    <2> QED
        BY <2>3, <2>4
<1>5. CASE NoCopyLeft
    BY <1>5, FailSound DEF NoCopyLeft
<1>6. CASE ReaderFails
    BY <1>6, FailSound DEF ReaderFails
<1> QED
    BY <1>2, <1>3, <1>4, <1>5, <1>6

\* From the gate on, the metadata stays, and only key and entry are at stake.
LEMMA AdvanceSound ==
    ASSUME SoundInv, pc \in AfterMeta, pc' \in AfterGate, KeyInv',
           UNCHANGED <<image, request, copy, meta, result>>,
           validated_kind(decode(meta.encryption_method)) # "none"
    PROVE  SoundInv'
<1> USE DEF AfterMeta, AfterGate
<1>1. result' = Pending /\ result'.tag # "Ok"
    BY PendingTag DEF SoundInv
<1>2. CopyInv'
    BY SameEvidenceSeen DEF SoundInv, CopyInv
<1>3. GateInv'
    BY DEF GateInv
<1> QED
    BY <1>1, <1>2, <1>3 DEF SoundInv

\* The credential's key does not change with the state.
LEMMA SameKeys ==
    ASSUME UNCHANGED <<request, meta>>
    PROVE  /\ CredentialKeys(NoEntry, request)' = CredentialKeys(NoEntry, request)
           /\ OpenedVmks(meta, request)' = OpenedVmks(meta, request)
           /\ OpenedFveks(meta, request)' = OpenedFveks(meta, request)
    BY DEF CredentialKeys, OpenedVmks, OpenedFveks, Fveks, OfType, Props, nested, NoEntry,
           Entry, ProtectorType

\* unlock and derive_cipher up to the VMK entry and the key to try on it.
LEMMA SelectSound ==
    ASSUME SoundInv, GateMethod \/ FindProtector \/ ObtainUnwrapKey
    PROVE  SoundInv'
<1> USE DEF AfterMeta, AfterGate, BeforeUnwrap
<1>1. CASE GateMethod
    <2> DEFINE m == decode(meta.encryption_method)
    <2>1. CASE m = NoMethod
        BY <1>1, <2>1, FailSound DEF GateMethod
    <2>2. CASE m # NoMethod /\ validated_kind(m) = "none"
        BY <1>1, <2>2, FailSound DEF GateMethod
    <2>3. CASE m # NoMethod /\ validated_kind(m) # "none"
        <3>1. /\ pc = "gate" /\ pc' = "protector"
              /\ UNCHANGED <<image, request, copy, meta, vmk, key, result>>
            BY <1>1, <2>3 DEF GateMethod, Go
        <3>2. KeyInv'
            BY <3>1, SameKeys DEF SoundInv, KeyInv
        <3> QED
            BY <2>3, <3>1, <3>2, AdvanceSound
    <2> QED
        BY <2>1, <2>2, <2>3
<1>2. CASE FindProtector
    <2> DEFINE I == {i \in 1..Len(meta.entries) :
                        /\ is_vmk(meta.entries[i])
                        /\ protection_type(meta.entries[i]) = ProtectorType(request)}
    <2>1. pc = "protector" /\ SignedCopies # {} /\ meta = FirstSigned /\ IsEvidence(image)
        BY <1>2 DEF FindProtector, SoundInv, CopyInv
    <2>2. meta.entries \in Seq(Range(meta.entries))
        BY <2>1, MetaEntries
    <2>3. I \in SUBSET Nat
        OBVIOUS
    <2>4. IF (IF I # {} THEN Min(I) ELSE 0) = 0 THEN Fail("NoUnlockProtector", "")
          ELSE /\ vmk' = meta.entries[IF I # {} THEN Min(I) ELSE 0]
               /\ Go("unwrap") /\ UNCHANGED <<copy, meta, kind, key>>
        BY <1>2 DEF FindProtector, Find
    <2>5. CASE I = {}
        BY <2>4, <2>5, FailSound
    <2>6. CASE I # {}
        <3>1. Min(I) \in I
            <4> HIDE DEF I
            <4> QED
                BY <2>3, <2>6, HasMin
        <3>2. Min(I) # 0
            BY <3>1
        <3>3. /\ vmk' = meta.entries[Min(I)] /\ pc' = "unwrap"
              /\ UNCHANGED <<image, request, copy, meta, key, result>>
            <4> HIDE DEF I
            <4> QED
                BY <2>4, <2>6, <3>2 DEF Go
        <3>4. /\ vmk' \in Range(meta.entries) /\ is_vmk(vmk')
              /\ protection_type(vmk') = ProtectorType(request)
            <4>1. /\ Min(I) \in DOMAIN meta.entries
                  /\ is_vmk(meta.entries[Min(I)])
                  /\ protection_type(meta.entries[Min(I)]) = ProtectorType(request)
                BY <2>2, <3>1
            <4> HIDE DEF I
            <4> QED
                BY <3>3, <4>1 DEF Range
        <3>5. ProtectorType(request)' = ProtectorType(request)
            BY <3>3 DEF ProtectorType
        <3>6. KeyInv'
            BY <2>1, <3>3, <3>4, <3>5, SameKeys DEF SoundInv, KeyInv
        <3> QED
            BY <2>1, <3>3, <3>6, AdvanceSound DEF SoundInv, GateInv
    <2> QED
        BY <2>5, <2>6
<1>3. CASE ObtainUnwrapKey
    <2> DEFINE s == Prop(vmk, VALUE_TYPE_STRETCH)
               c == Prop(vmk, VALUE_TYPE_KEY)
    <2>1. /\ pc = "unwrap" /\ SignedCopies # {} /\ meta = FirstSigned /\ IsEvidence(image)
          /\ vmk \in Range(meta.entries) /\ is_vmk(vmk)
          /\ protection_type(vmk) = ProtectorType(request)
        BY <1>3 DEF ObtainUnwrapKey, SoundInv, CopyInv, KeyInv
    <2>2. vmk.nested \in Seq(Range(vmk.nested))
        BY <2>1, MetaEntries
    <2>3. ASSUME pc' = "vmk", UNCHANGED <<image, request, copy, meta, vmk, result>>,
                 Prop(vmk, VALUE_TYPE_AES_CCM) # 0, key' \in CredentialKeys(vmk, request)
          PROVE  SoundInv'
        <3>1. KeyInv'
            <4>1. /\ CredentialKeys(vmk, request)' = CredentialKeys(vmk, request)
                  /\ Prop(vmk, VALUE_TYPE_AES_CCM)' = Prop(vmk, VALUE_TYPE_AES_CCM)
                  /\ ProtectorType(request)' = ProtectorType(request)
                BY <2>3 DEF CredentialKeys, OfType, Prop, Find, Props, nested,
                            ProtectorType
            <4> QED
                BY <2>1, <2>3, <4>1 DEF KeyInv
        <3> QED
            BY <2>1, <2>3, <3>1, AdvanceSound DEF SoundInv, GateInv
    <2>4. CASE \E tag, what : tag # "Ok" /\ Fail(tag, what)
        BY <2>4, FailSound
    <2>5. CASE ~\E tag, what : tag # "Ok" /\ Fail(tag, what)
        <3>1. /\ Prop(vmk, VALUE_TYPE_AES_CCM) # 0 /\ pc' = "vmk"
              /\ UNCHANGED <<image, request, copy, meta, vmk, result>>
            BY <1>3, <2>5 DEF ObtainUnwrapKey, Go
        <3>2. CASE request.call \in {"password", "recovery"}
            <4>1. /\ s # 0 /\ Holds(Props(vmk)[s].len, 4, 16)
                  /\ key' = stretch_key(key, Props(vmk)[s].content)
                BY <1>3, <2>5, <3>2 DEF ObtainUnwrapKey
            <4>2. Props(vmk)[s] \in OfType(Props(vmk), VALUE_TYPE_STRETCH)
                BY <2>2, <4>1, PropFound
            <4>3. Props(vmk)[s].len >= 20
                BY <4>1 DEF Holds
            <4>4. /\ key = <<request.call, request.secret>>
                  /\ request.call = "recovery" => request.valid
                BY <2>1, <3>2 DEF SoundInv, KeyInv
            <4>5. key' \in CredentialKeys(vmk, request)
                <5> HIDE DEF s
                <5> QED
                    BY <3>2, <4>1, <4>2, <4>3, <4>4 DEF CredentialKeys, stretch_key
            <4> QED
                BY <2>3, <3>1, <4>5
        <3>3. CASE request.call = "clear"
            <4>1. /\ c # 0 /\ Holds(Props(vmk)[c].len, 4, 32)
                  /\ key' = Props(vmk)[c].content
                BY <1>3, <2>5, <3>3 DEF ObtainUnwrapKey
            <4>2. Props(vmk)[c] \in OfType(Props(vmk), VALUE_TYPE_KEY)
                BY <2>2, <4>1, PropFound
            <4>3. Props(vmk)[c].len >= 36
                BY <4>1 DEF Holds
            <4>4. key' \in CredentialKeys(vmk, request)
                <5> HIDE DEF c
                <5> QED
                    BY <3>3, <4>1, <4>2, <4>3 DEF CredentialKeys
            <4> QED
                BY <2>3, <3>1, <4>4
        <3>4. CASE request.call = "startup"
            <4>1. key' = key /\ key \in CredentialKeys(NoEntry, request)
                BY <1>3, <2>1, <2>5, <3>4 DEF ObtainUnwrapKey, SoundInv, KeyInv
            <4> QED
                BY <2>3, <3>1, <3>4, <4>1, StartupAnyVmk
        <3> QED
            BY <1>3, <2>5, <3>2, <3>3, <3>4 DEF ObtainUnwrapKey
    <2> QED
        BY <2>4, <2>5
<1> QED
    BY <1>1, <1>2, <1>3

\* derive_cipher opens the VMK with the key, and the FVEK with the VMK.
LEMMA OpenSound ==
    ASSUME SoundInv, OpenVmk \/ OpenFvek \/ SeekEnd
    PROVE  SoundInv'
<1> USE DEF AfterMeta, AfterGate, BeforeUnwrap
<1>1. CASE OpenVmk
    <2> DEFINE x == Prop(vmk, VALUE_TYPE_AES_CCM)
               e == Props(vmk)[x]
    <2>1. /\ pc = "vmk" /\ SignedCopies # {} /\ meta = FirstSigned /\ IsEvidence(image)
          /\ vmk \in Range(meta.entries) /\ is_vmk(vmk)
          /\ protection_type(vmk) = ProtectorType(request)
          /\ x # 0 /\ key \in CredentialKeys(vmk, request)
        BY <1>1 DEF OpenVmk, SoundInv, CopyInv, KeyInv
    <2>2. e \in OfType(Props(vmk), VALUE_TYPE_AES_CCM)
        BY <2>1, MetaEntries, PropFound
    <2>3. CASE \E tag, what : tag # "Ok" /\ Fail(tag, what)
        BY <2>3, FailSound
    <2>4. CASE ~\E tag, what : tag # "Ok" /\ Fail(tag, what)
        <3>1. /\ aes_ccm_unwrap(key, e) /\ key' = e.content.key /\ pc' = "fvek"
              /\ UNCHANGED <<image, request, copy, meta, vmk, result>>
            BY <1>1, <2>4 DEF OpenVmk, Go
        <3> HIDE DEF x
        <3>2. e.len >= 28 /\ e.content.under \in CredentialKeys(vmk, request)
            BY <2>1, <3>1 DEF aes_ccm_unwrap
        <3> HIDE DEF e
        <3>3. key' \in OpenedVmks(meta, request)
            BY <2>1, <2>2, <3>1, <3>2, InOpenedVmks
        <3>4. KeyInv'
            BY <3>1, <3>3, SameKeys DEF KeyInv
        <3> QED
            BY <2>1, <3>1, <3>4, AdvanceSound DEF SoundInv, GateInv
    <2> QED
        BY <2>3, <2>4
<1>2. CASE OpenFvek
    <2> DEFINE I == {i \in 1..Len(meta.entries) :
                        /\ meta.entries[i].entry_type = ENTRY_TYPE_FVEK
                        /\ meta.entries[i].value_type = VALUE_TYPE_AES_CCM}
               x == fvek_entry(meta)
               e == meta.entries[x]
    <2>1. /\ pc = "fvek" /\ SignedCopies # {} /\ meta = FirstSigned /\ IsEvidence(image)
          /\ key \in OpenedVmks(meta, request)
        BY <1>2 DEF OpenFvek, SoundInv, CopyInv, KeyInv
    <2>2. meta.entries \in Seq(Range(meta.entries))
        BY <2>1, MetaEntries
    <2>3. x = IF I # {} THEN Min(I) ELSE 0
        BY DEF fvek_entry, Find
    <2>4. CASE \E tag, what : tag # "Ok" /\ Fail(tag, what)
        BY <2>4, FailSound
    <2>5. CASE ~\E tag, what : tag # "Ok" /\ Fail(tag, what)
        <3>1. /\ x # 0 /\ aes_ccm_unwrap(key, e) /\ key' = e.content.key /\ pc' = "end"
              /\ UNCHANGED <<image, request, copy, meta, vmk, result>>
            BY <1>2, <2>5 DEF OpenFvek, Go
        <3> HIDE DEF x
        <3>2. x \in I
            <4>1. I \in SUBSET Nat
                OBVIOUS
            <4> HIDE DEF I
            <4> QED
                BY <2>3, <3>1, <4>1, HasMin
        <3>3. e \in Fveks(meta)
            <4>1. x \in DOMAIN meta.entries /\ e.entry_type = ENTRY_TYPE_FVEK
                                            /\ e.value_type = VALUE_TYPE_AES_CCM
                BY <2>2, <3>2
            <4> HIDE DEF I
            <4> QED
                BY <4>1 DEF Fveks, OfType, Range
        <3>4. e.len >= 28 /\ e.content.under \in OpenedVmks(meta, request)
            BY <2>1, <3>1 DEF aes_ccm_unwrap
        <3> HIDE DEF e, I
        <3>5. key' \in OpenedFveks(meta, request)
            BY <3>1, <3>3, <3>4, InOpenedFveks
        <3>6. KeyInv'
            BY <3>1, <3>5, SameKeys DEF KeyInv
        <3> QED
            BY <2>1, <3>1, <3>6, AdvanceSound DEF SoundInv, GateInv
    <2> QED
        BY <2>4, <2>5
<1>3. CASE SeekEnd
    <2>1. /\ pc = "end" /\ SignedCopies # {} /\ meta = FirstSigned /\ IsEvidence(image)
          /\ key \in OpenedFveks(meta, request)
          /\ validated_kind(decode(meta.encryption_method)) # "none"
        BY <1>3 DEF SeekEnd, SoundInv, CopyInv, KeyInv, GateInv
    <2>2. /\ pc' = "done" /\ UNCHANGED <<image, request, copy, meta>>
          /\ result'.cipher.container = key
        BY <1>3 DEF SeekEnd
    <2>3. CopyInv' /\ KeyInv' /\ GateInv'
        BY <2>2 DEF SoundInv, CopyInv, KeyInv, GateInv
    <2>4. UnlockIsSound'
        BY <2>1, <2>2, SameEvidenceSeen, SameKeys DEF UnlockIsSound
    <2>5. UnlockedIsEncrypted'
        BY <2>1, <2>2, MetaEntries, ValidatedMethods DEF UnlockedIsEncrypted
    <2> QED
        BY <2>2, <2>3, <2>4, <2>5 DEF SoundInv
<1> QED
    BY <1>1, <1>2, <1>3

-----------------------------------------------------------------------------
\* SoundInv holds of a call that has not begun, on any evidence.
LEMMA StartSound ==
    ASSUME NEW r, Attempt(r), IsEvidence(image), r.call = "startup" => IsEntries(r.bek)
    PROVE  SoundInv
<1>1. pc = "call" /\ copy = 1 /\ result = Pending /\ request = r
    BY DEF Attempt
<1> QED
    BY <1>1, PendingTag DEF SoundInv, CopyInv, KeyInv, GateInv, AfterMeta, AfterGate, BeforeUnwrap

LEMMA BeginSound ==
    ASSUME NEW r, Begin(r), image' = image, IsEvidence(image),
           r.call = "startup" => IsEntries(r.bek)
    PROVE  SoundInv'
<1>1. pc' = "call" /\ copy' = 1 /\ result' = Pending /\ request' = r
    BY DEF Begin
<1> QED
    BY <1>1, PendingTag DEF SoundInv, CopyInv, KeyInv, GateInv, AfterMeta, AfterGate, BeforeUnwrap

\* Every step of a call keeps it.
LEMMA StepSound == ASSUME SoundInv, Step PROVE SoundInv'
    BY CallSound, ReadSound, SelectSound, OpenSound DEF Step, Progress

LEMMA StutterSound == ASSUME SoundInv, UNCHANGED unlockVars PROVE SoundInv'
<1>1. UNCHANGED <<image, request, pc, copy, meta, kind, vmk, key, result>>
    BY DEF unlockVars, attemptVars
<1>2. CopyInv'
    BY <1>1, SameEvidenceSeen DEF SoundInv, CopyInv
<1>3. GateInv'
    BY <1>1 DEF SoundInv, GateInv
<1>4. KeyInv'
    <2>1. /\ CredentialKeys(vmk, request)' = CredentialKeys(vmk, request)
          /\ Prop(vmk, VALUE_TYPE_AES_CCM)' = Prop(vmk, VALUE_TYPE_AES_CCM)
          /\ ProtectorType(request)' = ProtectorType(request)
        BY <1>1 DEF CredentialKeys, OfType, Prop, Find, Props, nested, ProtectorType
    <2> QED
        BY <1>1, <2>1, SameKeys DEF SoundInv, KeyInv
<1>5. result'.tag = "Ok" => UnlockIsSound' /\ UnlockedIsEncrypted'
    BY <1>1, SameEvidenceSeen, SameKeys DEF SoundInv, UnlockIsSound, UnlockedIsEncrypted
<1> QED
    BY <1>1, <1>2, <1>3, <1>4, <1>5 DEF SoundInv

LEMMA SoundInvariant == Spec => []SoundInv
<1>1. Init => SoundInv
    BY StartSound, EvidenceAssumption DEF Init
<1>2. SoundInv /\ [Step]_unlockVars => SoundInv'
    BY StepSound, StutterSound
<1> QED
    BY <1>1, <1>2, PTL DEF Spec

\* For every evidence and every credential: what unlock* returns as Ok has the
\* geometry of the first signed metadata copy and a key that the credential
\* opens there, through a protector of its own type.
THEOREM Soundness == Spec => []UnlockIsSound
<1>1. SoundInv => UnlockIsSound
    BY DEF SoundInv, UnlockIsSound
<1> QED
    BY <1>1, SoundInvariant, PTL

\* For every evidence and every credential: the gate on the method lets only the
\* five validated ciphers through to an unlocked volume.
THEOREM OnlyValidatedCiphers == Spec => []UnlockedIsEncrypted
<1>1. SoundInv => UnlockedIsEncrypted
    BY DEF SoundInv, UnlockedIsEncrypted
<1> QED
    BY <1>1, SoundInvariant, PTL

-----------------------------------------------------------------------------
(* Completeness. *)

\* The way a call has come: past the header only if there is one, past the gate
\* with the cipher of the method, and to metadata only if a copy is signed.
PathInv ==
    /\ pc \in {"copies"} \cup AfterMeta => volume_header.variant # "none"
    /\ pc \in AfterGate => kind = validated_kind(decode(meta.encryption_method))
    /\ meta # NoMeta => SignedCopies # {}

HasProtector(m, r) ==
    \E v \in Range(m.entries) : is_vmk(v) /\ protection_type(v) = ProtectorType(r)

\* The errors that need no evidence: those of the credential and of reading.
Unread == {"Io", "InvalidRecoveryPassword", "MissingKeyMaterial", "MalformedKeyContainer"}

\* What an error says of the evidence.
Blames(tag) ==
    /\ tag = "NotBitLocker" => volume_header.variant = "none"
    /\ tag = "NoValidMetadata" => volume_header.variant # "none" /\ SignedCopies = {}
    /\ tag \notin Unread \cup {"NotBitLocker", "NoValidMetadata"} =>
          volume_header.variant # "none" /\ SignedCopies # {}
    /\ tag = "NoUnlockProtector" => ~HasProtector(FirstSigned, request)

EndInv ==
    /\ pc = "done" <=> result.tag # "pending"
    /\ result.tag # "pending" => Blames(result.tag)
    /\ result.tag = "Ok" =>
          result.cipher.kind = validated_kind(decode(FirstSigned.encryption_method))

\* What UnlockDecides asks of the evidence and of the credential, for a call
\* that unlocks.
Regular ==
    /\ request.call \in {"password", "recovery", "clear", "startup"}
    /\ volume_header.variant # "none"
    /\ SignedCopies # {} /\ WellFormed(FirstSigned)
    /\ request.call = "startup" => WellFormedBek(request.bek)

\* The key at hand is the only one in question.
OnlyKey ==
    /\ pc \in BeforeUnwrap /\ request.call = "startup" =>
          CredentialKeys(NoEntry, request) \subseteq {key}
    /\ pc = "vmk" => CredentialKeys(vmk, request) \subseteq {key}
    /\ pc = "fvek" => OpenedVmks(meta, request) \subseteq {key}

\* A call that failed had no key to find.
Hopeless(tag) == tag \in {"pending", "Ok", "Io"} \/ OpenedFveks(FirstSigned, request) = {}

\* The inductive invariant of completeness, which rests on SoundInv.
DecidesInv == PathInv /\ EndInv /\ (Regular => OnlyKey /\ Hopeless(result.tag))

-----------------------------------------------------------------------------
(* Where every property occurs once, the search finds the only one. *)

\* The positions of the entries of a type.
At(s, t) == {i \in 1..Len(s) : s[i].value_type = t}

\* Of entries of a type that occurs once, Find gives the one there is.
LEMMA FindOnly ==
    ASSUME NEW s, s \in Seq(Range(s)), NEW t, Once(s, t), NEW e \in OfType(s, t)
    PROVE  At(s, t) # {} /\ Min(At(s, t)) # 0 /\ s[Min(At(s, t))] = e
<1> DEFINE I == {i \in 1..Len(s) : s[i].value_type = t}
<1>1. PICK n \in DOMAIN s : s[n] = e
    BY DEF OfType, Range
<1>2. n \in I
    BY <1>1 DEF OfType
<1>3. I \in SUBSET Nat
    OBVIOUS
<1>4. Min(I) \in I
    <2> HIDE DEF I
    <2> QED
        BY <1>2, <1>3, HasMin
<1>5. Min(I) = n
    <2>1. Min(I) \in DOMAIN s /\ s[Min(I)].value_type = t /\ s[n].value_type = t
        BY <1>2, <1>4
    <2> HIDE DEF I
    <2> QED
        BY <1>1, <2>1 DEF Once
<1>6. Min(I) # 0
    BY <1>4
<1>7. At(s, t) = I
    BY DEF At
<1> HIDE DEF I
<1> QED
    BY <1>1, <1>2, <1>5, <1>6, <1>7

\* A VMK entry whose property of a type occurs once has the one Prop finds, and
\* none if Prop finds none.
LEMMA PropOnly ==
    ASSUME NEW v, v.nested \in Seq(Range(v.nested)), NEW t, Once(Props(v), t),
           NEW e \in OfType(Props(v), t)
    PROVE  Prop(v, t) # 0 /\ Props(v)[Prop(v, t)] = e
<1> DEFINE s == Props(v)
           I == At(s, t)
<1>1. s \in Seq(Range(v.nested))
    BY Prefix DEF Props, nested
<1>2. Prop(v, t) = IF I # {} THEN Min(I) ELSE 0
    BY DEF Prop, Find, At
<1> HIDE DEF s
<1>3. s \in Seq(Range(s))
    BY <1>1 DEF Range
<1>4. I # {} /\ Min(I) # 0 /\ s[Min(I)] = e
    BY <1>3, FindOnly DEF s
<1> HIDE DEF I
<1> QED
    BY <1>2, <1>4 DEF s

\* A startup key is one of the keys of its file.
LEMMA StartupKeyIs ==
    ASSUME NEW r, r.call = "startup", NEW k
    PROVE  k \in CredentialKeys(NoEntry, r) <=>
             \E b \in OfType(r.bek, VALUE_TYPE_EXTERNAL_KEY) :
             \E e \in OfType(nested(b, 24), VALUE_TYPE_KEY) : e.len >= 36 /\ k = e.content
<1> DEFINE B == OfType(r.bek, VALUE_TYPE_EXTERNAL_KEY)
           N(b) == OfType(nested(b, 24), VALUE_TYPE_KEY)
           X == {x \in UNION {N(b) : b \in B} : x.len >= 36}
<1>1. CredentialKeys(NoEntry, r) = {e.content : e \in X}
    BY DEF CredentialKeys
<1>2. k \in {e.content : e \in X} <=> \E e \in X : k = e.content
    <2> HIDE DEF X
    <2> QED
        OBVIOUS
<1>3. ASSUME NEW e PROVE e \in X <=> e.len >= 36 /\ \E b \in B : e \in N(b)
    <2> HIDE DEF B, N
    <2> QED
        OBVIOUS
<1> HIDE DEF X
<1> QED
    BY <1>1, <1>2, <1>3, Zenon

\* Of a startup-key file with one key, parse_startup_key gives that key.
LEMMA StartupKeyOnly ==
    ASSUME NEW r, r.call = "startup", IsEntries(r.bek), WellFormedBek(r.bek),
           NEW k \in CredentialKeys(NoEntry, r)
    PROVE  parse_startup_key(r.bek).tag = "Ok" /\ parse_startup_key(r.bek).key = k
<1> DEFINE bek == r.bek
           I == At(bek, VALUE_TYPE_EXTERNAL_KEY)
           x == IF I # {} THEN Min(I) ELSE 0
           inner == nested(bek[x], 24)
           J == At(inner, VALUE_TYPE_KEY)
           y == IF J # {} THEN Min(J) ELSE 0
<1>1. PICK b \in OfType(bek, VALUE_TYPE_EXTERNAL_KEY) :
           \E e \in OfType(nested(b, 24), VALUE_TYPE_KEY) : e.len >= 36 /\ k = e.content
    BY StartupKeyIs
<1>2. PICK e \in OfType(nested(b, 24), VALUE_TYPE_KEY) : e.len >= 36 /\ k = e.content
    BY <1>1
<1>3. I # {} /\ Min(I) # 0 /\ bek[Min(I)] = b
    <2>1. bek \in Seq(Range(bek)) /\ Once(bek, VALUE_TYPE_EXTERNAL_KEY)
        BY DEF IsEntries, WellFormedBek
    <2> QED
        BY <2>1, FindOnly
<1>4. x # 0 /\ bek[x] = b
    <2> HIDE DEF I
    <2> QED
        BY <1>3
<1>5. inner = nested(b, 24) /\ inner \in Seq(Range(inner)) /\ Once(inner, VALUE_TYPE_KEY)
    <2> HIDE DEF x
    <2>1. inner = nested(b, 24)
        BY <1>4
    <2> HIDE DEF inner
    <2>2. b.nested \in Seq(Range(b.nested))
        BY DEF OfType, IsEntries
    <2>3. inner \in Seq(Range(b.nested))
        BY <2>1, <2>2, Prefix DEF nested
    <2>4. inner \in Seq(Range(inner))
        BY <2>3 DEF Range
    <2> QED
        BY <2>1, <2>4 DEF WellFormedBek
<1>6. y # 0 /\ inner[y] = e
    <2> HIDE DEF x, inner
    <2>1. J # {} /\ Min(J) # 0 /\ inner[Min(J)] = e
        BY <1>5, FindOnly
    <2> HIDE DEF J
    <2> QED
        BY <2>1
<1>7. x # 0 /\ y # 0 /\ Holds(inner[y].len, 4, 32) =>
         /\ parse_startup_key(bek).tag = "Ok"
         /\ parse_startup_key(bek).key = inner[y].content
    BY ZenonT(40) DEF parse_startup_key, Find, At
<1> HIDE DEF x, y, inner
<1>8. Holds(inner[y].len, 4, 32)
    BY <1>2, <1>6 DEF Holds
<1> QED
    BY <1>2, <1>4, <1>6, <1>7, <1>8

\* On well-formed metadata, what the request opens is in the protector found.
LEMMA OnlyProtector ==
    ASSUME NEW m, WellFormed(m), NEW r, NEW v \in Range(m.entries), is_vmk(v),
           protection_type(v) = ProtectorType(r), NEW k \in OpenedVmks(m, r)
    PROVE  \E e \in OfType(Props(v), VALUE_TYPE_AES_CCM) :
              e.len >= 28 /\ e.content.under \in CredentialKeys(v, r) /\ k = e.content.key
<1>1. PICK w \in Range(m.entries) :
         /\ is_vmk(w) /\ protection_type(w) = ProtectorType(r)
         /\ \E e \in OfType(Props(w), VALUE_TYPE_AES_CCM) :
               e.len >= 28 /\ e.content.under \in CredentialKeys(w, r) /\ k = e.content.key
    BY InOpenedVmks
<1>2. w = v
    <2>1. PICK i \in DOMAIN m.entries : m.entries[i] = v
        BY DEF Range
    <2>2. PICK j \in DOMAIN m.entries : m.entries[j] = w
        BY DEF Range
    <2>3. i = j
        BY <1>1, <2>1, <2>2 DEF WellFormed
    <2> QED
        BY <2>1, <2>2, <2>3
<1> QED
    BY <1>1, <1>2

\* Without a VMK, or a key to open one, there is no FVEK.
LEMMA NothingOpens ==
    ASSUME NEW m, NEW r, \/ OpenedVmks(m, r) = {}
                         \/ ~HasProtector(m, r)
                         \/ \A v : CredentialKeys(v, r) = {}
    PROVE  OpenedFveks(m, r) = {}
<1>1. OpenedVmks(m, r) = {}
    BY InOpenedVmks DEF HasProtector
<1> QED
    BY <1>1, InOpenedFveks

\* What WellFormed says of the properties of a VMK.
LEMMA WellFormedVmk ==
    ASSUME NEW m, WellFormed(m), NEW v \in Range(m.entries), is_vmk(v)
    PROVE  /\ Once(Props(v), VALUE_TYPE_AES_CCM)
           /\ Once(Props(v), VALUE_TYPE_STRETCH)
           /\ Once(Props(v), VALUE_TYPE_KEY)
           /\ \A e \in OfType(Props(v), VALUE_TYPE_AES_CCM) : e.len >= 28 /\ e.content.len >= 44
           /\ \A e \in OfType(Props(v), VALUE_TYPE_STRETCH) : e.len >= 20
           /\ \A e \in OfType(Props(v), VALUE_TYPE_KEY) : e.len >= 36
    BY DEF WellFormed, OfType

\* The evidence and the credential do not change, so neither does what the
\* credential opens.
LEMMA SameAsked ==
    ASSUME UNCHANGED <<image, request>>
    PROVE  /\ volume_header' = volume_header
           /\ Regular' <=> Regular
           /\ OpenedFveks(FirstSigned, request)' = OpenedFveks(FirstSigned, request)
           /\ HasProtector(FirstSigned, request)' <=> HasProtector(FirstSigned, request)
           /\ \A tag : Blames(tag)' <=> Blames(tag)
<1>1. volume_header' = volume_header /\ SignedCopies' = SignedCopies /\ FirstSigned' = FirstSigned
    BY SameEvidenceSeen DEF volume_header
<1>2. OpenedFveks(FirstSigned, request)' = OpenedFveks(FirstSigned, request)
    BY <1>1 DEF CredentialKeys, OpenedVmks, OpenedFveks, Fveks, OfType, Props, nested, ProtectorType
<1>3. HasProtector(FirstSigned, request)' <=> HasProtector(FirstSigned, request)
    BY <1>1 DEF HasProtector, ProtectorType
<1>4. Regular' <=> Regular
    <2>1. WellFormed(FirstSigned)' <=> WellFormed(FirstSigned)
        BY <1>1 DEF WellFormed, Once, Props, nested, Fveks, OfType
    <2>2. WellFormedBek(request.bek)' <=> WellFormedBek(request.bek)
        BY DEF WellFormedBek, Once, OfType, nested
    <2> QED
        BY <1>1, <2>1, <2>2 DEF Regular
<1>5. ASSUME NEW tag PROVE Blames(tag)' <=> Blames(tag)
    BY <1>1, <1>3 DEF Blames
<1> QED
    BY <1>1, <1>2, <1>3, <1>4, <1>5

\* Keeping DecidesInv in a step that fails,
LEMMA FailDecides ==
    ASSUME SoundInv, DecidesInv, NEW tag, NEW what, Fail(tag, what), tag \notin {"Ok", "pending"},
           Blames(tag), Regular => Hopeless(tag)
    PROVE  DecidesInv'
<1>1. /\ pc' = "done" /\ UNCHANGED <<image, request, meta>> /\ result'.tag = tag
    BY DEF Fail, Pending
<1>2. PathInv'
    BY <1>1, SameEvidenceSeen DEF DecidesInv, PathInv, AfterMeta, AfterGate
<1>3. EndInv'
    BY <1>1, SameAsked DEF EndInv
<1>4. Regular' => OnlyKey' /\ Hopeless(result.tag)'
    BY <1>1, SameAsked DEF OnlyKey, Hopeless, BeforeUnwrap
<1> QED
    BY <1>2, <1>3, <1>4 DEF DecidesInv

\* and in one that goes on.
LEMMA AdvanceDecides ==
    ASSUME SoundInv, DecidesInv, pc # "done", pc' # "done", UNCHANGED <<image, request, result>>,
           PathInv', Regular => OnlyKey'
    PROVE  DecidesInv'
<1>1. result = Pending /\ result.tag = "pending"
    BY PendingTag DEF SoundInv
<1>2. EndInv'
    BY <1>1 DEF EndInv
<1>3. Regular' => OnlyKey' /\ Hopeless(result.tag)'
    BY <1>1, SameAsked DEF Hopeless
<1> QED
    BY <1>2, <1>3 DEF DecidesInv

\* The public functions: a malformed credential opens nothing.
LEMMA CallDecides ==
    ASSUME SoundInv, DecidesInv, CallPassword \/ CallRecovery \/ CallClearKey \/ CallStartupKey
    PROVE  DecidesInv'
<1>1. ASSUME pc = "call", Go("header"), UNCHANGED <<copy, meta, kind, vmk>>,
             Regular /\ request.call = "startup" =>
                CredentialKeys(NoEntry, request) \subseteq {key'}
      PROVE  DecidesInv'
    <2>1. pc' = "header" /\ UNCHANGED <<image, request, meta, result>>
        BY <1>1 DEF Go
    <2>2. PathInv'
        BY <2>1, SameEvidenceSeen DEF DecidesInv, PathInv, AfterMeta, AfterGate
    <2>3. CredentialKeys(NoEntry, request)' = CredentialKeys(NoEntry, request)
        BY <2>1, SameKeys
    <2>4. Regular => OnlyKey'
        BY <1>1, <2>1, <2>3 DEF OnlyKey
    <2> QED
        BY <1>1, <2>1, <2>2, <2>4, AdvanceDecides
<1>2. CASE CallPassword
    BY <1>1, <1>2 DEF CallPassword
<1>3. CASE CallRecovery
    <2>1. CASE ~request.valid
        <3>1. request.call = "recovery" /\ Fail("InvalidRecoveryPassword", "")
            BY <1>3, <2>1 DEF CallRecovery
        <3>2. \A v : CredentialKeys(v, request) = {}
            BY <2>1, <3>1 DEF CredentialKeys
        <3>3. OpenedFveks(FirstSigned, request) = {}
            BY <3>2, NothingOpens
        <3>4. Blames("InvalidRecoveryPassword")
            BY DEF Blames, Unread
        <3> QED
            BY <3>1, <3>3, <3>4, FailDecides DEF Hopeless
    <2>2. CASE request.valid
        BY <1>1, <1>3, <2>2 DEF CallRecovery
    <2> QED
        BY <2>1, <2>2
<1>4. CASE CallClearKey
    BY <1>1, <1>4 DEF CallClearKey
<1>5. CASE CallStartupKey
    <2> DEFINE p == parse_startup_key(request.bek)
    <2>1. request.call = "startup" /\ IsEntries(request.bek)
        BY <1>5 DEF CallStartupKey, SoundInv, CopyInv
    <2>2. Regular => \A k \in CredentialKeys(NoEntry, request) : p.tag = "Ok" /\ p.key = k
        BY <2>1, StartupKeyOnly DEF Regular
    <2>3. CASE p.tag # "Ok"
        <3>1. Fail(p.tag, p.what)
            BY <1>5, <2>3 DEF CallStartupKey
        <3>2. p.tag \in {"MissingKeyMaterial", "MalformedKeyContainer"}
            BY <2>3 DEF parse_startup_key
        <3> HIDE DEF p
        <3>3. Blames(p.tag)
            BY <3>2 DEF Blames, Unread
        <3>4. Regular => OpenedFveks(FirstSigned, request) = {}
            <4>1. Regular => \A v : CredentialKeys(v, request) = {}
                BY <2>1, <2>2, <2>3, StartupAnyVmk
            <4> QED
                BY <4>1, NothingOpens
        <3> QED
            BY <3>1, <3>2, <3>3, <3>4, FailDecides DEF Hopeless
    <2>4. CASE p.tag = "Ok"
        <3>1. key' = p.key
            BY <1>5, <2>4 DEF CallStartupKey
        <3> QED
            BY <1>1, <1>5, <2>2, <2>4, <3>1 DEF CallStartupKey
    <2> QED
        BY <2>3, <2>4
<1> QED
    BY <1>2, <1>3, <1>4, <1>5

\* read_metadata: an error of it is the evidence's.
LEMMA ReadDecides ==
    ASSUME SoundInv, DecidesInv, ReadHeader \/ SkipCopy \/ ReadCopy \/ NoCopyLeft \/ ReaderFails
    PROVE  DecidesInv'
<1> USE DEF AfterMeta, AfterGate, BeforeUnwrap
<1>1. ASSUME pc \in {"header", "copies"}, pc' \in {"copies", "gate"},
             UNCHANGED <<image, request, kind, vmk, key, result>>, volume_header.variant # "none",
             meta' # meta => SignedCopies # {}
      PROVE  DecidesInv'
    <2>1. PathInv'
        BY <1>1, SameAsked, SameEvidenceSeen DEF DecidesInv, PathInv
    <2>2. CredentialKeys(NoEntry, request)' = CredentialKeys(NoEntry, request)
        BY <1>1 DEF CredentialKeys, OfType, Props, nested, NoEntry, Entry
    <2>3. Regular => OnlyKey'
        BY <1>1, <2>2 DEF DecidesInv, OnlyKey
    <2> QED
        BY <1>1, <2>1, <2>3, AdvanceDecides
<1>2. CASE ReadHeader
    <2>1. CASE volume_header.variant = "none"
        <3>1. Fail("NotBitLocker", "")
            BY <1>2, <2>1 DEF ReadHeader
        <3>2. Blames("NotBitLocker") /\ ~Regular
            BY <2>1 DEF Blames, Unread, Regular
        <3> QED
            BY <3>1, <3>2, FailDecides
    <2>2. CASE volume_header.variant # "none"
        BY <1>1, <1>2, <2>2 DEF ReadHeader, Go
    <2> QED
        BY <2>1, <2>2
<1>3. CASE SkipCopy
    BY <1>1, <1>3 DEF SkipCopy, Go, DecidesInv, PathInv
<1>4. CASE ReadCopy
    <2>1. /\ pc = "copies" /\ pc' \in {"copies", "gate"}
          /\ UNCHANGED <<image, request, kind, vmk, key, result>>
          /\ meta' # meta => Offsets[copy] # 0 /\ copy =< 3 /\ BlockAt(Offsets[copy]).signed
        BY <1>4 DEF ReadCopy, TakeCopyOr, Go
    <2>2. meta' # meta => copy \in SignedCopies
        BY <2>1 DEF SignedCopies, SoundInv, CopyInv
    <2>3. volume_header.variant # "none"
        BY <2>1 DEF DecidesInv, PathInv
    <2> QED
        BY <1>1, <2>1, <2>2, <2>3
<1>5. CASE NoCopyLeft
    <2>0. Fail("NoValidMetadata", "")
        BY <1>5 DEF NoCopyLeft
    <2>1. pc = "copies" /\ copy > 3
        BY <1>5 DEF NoCopyLeft
    <2>2. SignedCopies = {}
        <3>1. \A c \in SignedCopies : c \in 1..3 /\ copy =< c
            BY <2>1 DEF SignedCopies, SoundInv, CopyInv
        <3>2. copy \in 1..4
            BY DEF SoundInv, CopyInv
        <3> QED
            BY <2>1, <3>1, <3>2
    <2>3. Blames("NoValidMetadata") /\ ~Regular
        BY <2>1, <2>2 DEF Blames, Unread, Regular, DecidesInv, PathInv
    <2> QED
        BY <2>0, <2>3, FailDecides
<1>6. CASE ReaderFails
    <2>1. Blames("Io") /\ Hopeless("Io")
        BY DEF Blames, Unread, Hopeless
    <2> QED
        BY <1>6, <2>1, FailDecides DEF ReaderFails
<1> QED
    BY <1>2, <1>3, <1>4, <1>5, <1>6

\* From the gate on, an error says that the evidence has metadata,
LEMMA LateFail ==
    ASSUME SoundInv, DecidesInv, pc \in AfterMeta, NEW what, NEW tag, Fail(tag, what),
           tag \notin {"Ok", "pending", "NotBitLocker", "NoValidMetadata", "NoUnlockProtector"},
           Regular => OpenedFveks(meta, request) = {}
    PROVE  DecidesInv'
<1>1. meta = FirstSigned /\ SignedCopies # {} /\ volume_header.variant # "none"
    BY DEF SoundInv, CopyInv, DecidesInv, PathInv
<1>2. Blames(tag)
    BY <1>1 DEF Blames
<1> QED
    BY <1>1, <1>2, FailDecides DEF Hopeless

\* and a step that goes on keeps it.
LEMMA LateAdvance ==
    ASSUME SoundInv, DecidesInv, pc \in AfterMeta, pc' \in AfterGate,
           UNCHANGED <<image, request, meta, result>>,
           kind' = validated_kind(decode(meta.encryption_method)), Regular => OnlyKey'
    PROVE  DecidesInv'
<1>1. pc # "done" /\ pc' # "done"
    BY DEF AfterMeta, AfterGate
<1>2. PathInv'
    BY SameAsked, SameEvidenceSeen DEF DecidesInv, PathInv, AfterMeta
<1> QED
    BY <1>1, <1>2, AdvanceDecides

\* A stretched credential comes from the salt Prop finds,
LEMMA StretchKeyOnly ==
    ASSUME NEW r, r.call \in {"password", "recovery"}, NEW v, v.nested \in Seq(Range(v.nested)),
           Once(Props(v), VALUE_TYPE_STRETCH), NEW k \in CredentialKeys(v, r)
    PROVE  LET s == Prop(v, VALUE_TYPE_STRETCH)
           IN  /\ s # 0 /\ Props(v)[s].len >= 20
               /\ k = <<r.call, r.secret>> \o Props(v)[s].content
<1> DEFINE X == {x \in OfType(Props(v), VALUE_TYPE_STRETCH) :
                    x.len >= 20 /\ (r.call = "recovery" => r.valid)}
<1>1. CredentialKeys(v, r) = {<<r.call, r.secret>> \o e.content : e \in X}
    BY DEF CredentialKeys
<1>2. PICK e \in X : k = <<r.call, r.secret>> \o e.content
    <2> HIDE DEF X
    <2> QED
        BY <1>1
<1>3. e \in OfType(Props(v), VALUE_TYPE_STRETCH) /\ e.len >= 20
    OBVIOUS
<1> HIDE DEF X
<1> QED
    BY <1>2, <1>3, PropOnly

\* and a clear key is the one it finds.
LEMMA ClearKeyOnly ==
    ASSUME NEW r, r.call = "clear", NEW v, v.nested \in Seq(Range(v.nested)),
           Once(Props(v), VALUE_TYPE_KEY), NEW k \in CredentialKeys(v, r)
    PROVE  LET c == Prop(v, VALUE_TYPE_KEY)
           IN  c # 0 /\ Props(v)[c].len >= 36 /\ k = Props(v)[c].content
<1> DEFINE X == {x \in OfType(Props(v), VALUE_TYPE_KEY) : x.len >= 36}
<1>1. CredentialKeys(v, r) = {e.content : e \in X}
    BY DEF CredentialKeys
<1>2. PICK e \in X : k = e.content
    <2> HIDE DEF X
    <2> QED
        BY <1>1
<1>3. e \in OfType(Props(v), VALUE_TYPE_KEY) /\ e.len >= 36
    OBVIOUS
<1> HIDE DEF X
<1> QED
    BY <1>2, <1>3, PropOnly

\* The gate lets a well-formed volume pass, and a protector that is not found is
\* not there.
LEMMA FindDecides ==
    ASSUME SoundInv, DecidesInv, GateMethod \/ FindProtector
    PROVE  DecidesInv'
<1> USE DEF AfterMeta, AfterGate, BeforeUnwrap
<1>1. CASE GateMethod
    <2> DEFINE m == decode(meta.encryption_method)
    <2>0. pc = "gate" /\ meta = FirstSigned
        BY <1>1 DEF GateMethod, SoundInv, CopyInv
    <2>1. Regular => m # NoMethod /\ validated_kind(m) # "none"
        <3>1. validated_kind(NoMethod) = "none"
            BY DEF validated_kind, NoMethod
        <3> QED
            BY <2>0, <3>1 DEF Regular, WellFormed
    <2>2. CASE m = NoMethod
        BY <1>1, <2>0, <2>1, <2>2, LateFail DEF GateMethod
    <2>3. CASE m # NoMethod /\ validated_kind(m) = "none"
        BY <1>1, <2>0, <2>1, <2>3, LateFail DEF GateMethod
    <2>4. CASE m # NoMethod /\ validated_kind(m) # "none"
        <3>1. /\ pc' = "protector" /\ kind' = validated_kind(m)
              /\ UNCHANGED <<image, request, meta, key, result>>
            BY <1>1, <2>4 DEF GateMethod, Go
        <3>2. Regular => OnlyKey'
            BY <2>0, <3>1, SameKeys DEF DecidesInv, OnlyKey
        <3> QED
            BY <2>0, <3>1, <3>2, LateAdvance
    <2> QED
        BY <2>2, <2>3, <2>4
<1>2. CASE FindProtector
    <2> DEFINE I == {i \in 1..Len(meta.entries) :
                        /\ is_vmk(meta.entries[i])
                        /\ protection_type(meta.entries[i]) = ProtectorType(request)}
    <2>1. /\ pc = "protector" /\ SignedCopies # {} /\ meta = FirstSigned /\ IsEvidence(image)
          /\ volume_header.variant # "none"
        BY <1>2 DEF FindProtector, SoundInv, CopyInv, DecidesInv, PathInv
    <2>2. meta.entries \in Seq(Range(meta.entries))
        BY <2>1, MetaEntries
    <2>3. I \in SUBSET Nat
        OBVIOUS
    <2>4. IF (IF I # {} THEN Min(I) ELSE 0) = 0 THEN Fail("NoUnlockProtector", "")
          ELSE Go("unwrap") /\ UNCHANGED <<copy, meta, kind, key>>
        BY <1>2 DEF FindProtector, Find
    <2>5. CASE I = {}
        <3>1. ~HasProtector(meta, request)
            BY <2>2, <2>5 DEF HasProtector, Range
        <3>2. OpenedFveks(meta, request) = {}
            BY <3>1, NothingOpens
        <3>3. Blames("NoUnlockProtector")
            BY <2>1, <3>1 DEF Blames
        <3>4. Fail("NoUnlockProtector", "")
            <4> HIDE DEF I
            <4> QED
                BY <2>4, <2>5
        <3> QED
            BY <2>1, <3>2, <3>3, <3>4, FailDecides DEF Hopeless
    <2>6. CASE I # {}
        <3>1. Min(I) # 0
            <4>1. Min(I) \in I
                <5> HIDE DEF I
                <5> QED
                    BY <2>3, <2>6, HasMin
            <4> QED
                BY <4>1
        <3>2. pc' = "unwrap" /\ UNCHANGED <<image, request, meta, kind, key, result>>
            <4> HIDE DEF I
            <4> QED
                BY <2>4, <2>6, <3>1 DEF Go
        <3>3. Regular => OnlyKey'
            BY <2>1, <3>2, SameKeys DEF DecidesInv, OnlyKey
        <3> QED
            BY <2>1, <3>2, <3>3, LateAdvance DEF DecidesInv, PathInv
    <2> QED
        BY <2>5, <2>6
<1> QED
    BY <1>1, <1>2

\* On well-formed metadata, the key for the VMK is the only one there is.
LEMMA UnwrapDecides ==
    ASSUME SoundInv, DecidesInv, ObtainUnwrapKey
    PROVE  DecidesInv'
<1> USE DEF AfterMeta, AfterGate, BeforeUnwrap
<1> DEFINE s == Prop(vmk, VALUE_TYPE_STRETCH)
           c == Prop(vmk, VALUE_TYPE_KEY)
           CK == CredentialKeys(vmk, request)
<1>1. /\ pc = "unwrap" /\ SignedCopies # {} /\ meta = FirstSigned /\ IsEvidence(image)
      /\ vmk \in Range(meta.entries) /\ is_vmk(vmk)
      /\ protection_type(vmk) = ProtectorType(request)
    BY DEF ObtainUnwrapKey, SoundInv, CopyInv, KeyInv
<1>2. vmk.nested \in Seq(Range(vmk.nested))
    BY <1>1, MetaEntries
<1>3. Regular => /\ Once(Props(vmk), VALUE_TYPE_AES_CCM)
                 /\ Once(Props(vmk), VALUE_TYPE_STRETCH)
                 /\ Once(Props(vmk), VALUE_TYPE_KEY)
    BY <1>1, WellFormedVmk DEF Regular
<1>4. Regular /\ (CK = {} \/ Prop(vmk, VALUE_TYPE_AES_CCM) = 0) => OpenedFveks(meta, request) = {}
    <2> SUFFICES ASSUME Regular, CK = {} \/ Prop(vmk, VALUE_TYPE_AES_CCM) = 0
                 PROVE  OpenedVmks(meta, request) = {}
        BY NothingOpens
    <2>1. ASSUME NEW k \in OpenedVmks(meta, request)
          PROVE  \E e \in OfType(Props(vmk), VALUE_TYPE_AES_CCM) : e.content.under \in CK
        BY <1>1, OnlyProtector DEF Regular
    <2> QED
        BY <1>2, <1>3, <2>1, PropOnly
<1>5. ASSUME pc' = "vmk", UNCHANGED <<image, request, meta, kind, vmk, result>>,
             Regular => CK \subseteq {key'}
      PROVE  DecidesInv'
    <2>1. CK' = CK
        BY <1>5 DEF CredentialKeys, OfType, Props, nested
    <2>2. Regular => OnlyKey'
        BY <1>5, <2>1 DEF OnlyKey
    <2> QED
        BY <1>1, <1>5, <2>2, LateAdvance DEF DecidesInv, PathInv
<1>6. CASE Prop(vmk, VALUE_TYPE_AES_CCM) = 0
    BY <1>1, <1>4, <1>6, LateFail DEF ObtainUnwrapKey
<1>7. CASE Prop(vmk, VALUE_TYPE_AES_CCM) # 0 /\ request.call \in {"password", "recovery"}
    <2>1. key = <<request.call, request.secret>>
        BY <1>1, <1>7 DEF SoundInv, KeyInv
    <2>2. Regular => \A k \in CK : /\ s # 0 /\ Props(vmk)[s].len >= 20
                                   /\ k = <<request.call, request.secret>> \o Props(vmk)[s].content
        BY <1>2, <1>3, <1>7, StretchKeyOnly, SMTT(30)
    <2>3. CASE s = 0
        <3>1. Fail("MissingKeyMaterial", "stretch key")
            BY <1>7, <2>3 DEF ObtainUnwrapKey
        <3>2. Regular => CK = {}
            BY <2>2, <2>3
        <3> QED
            BY <1>1, <1>4, <3>1, <3>2, LateFail
    <2>4. CASE s # 0 /\ ~Holds(Props(vmk)[s].len, 4, 16)
        <3>1. Fail("MissingKeyMaterial", "stretch salt")
            BY <1>7, <2>4 DEF ObtainUnwrapKey
        <3>2. Regular => CK = {}
            <4> HIDE DEF s, CK
            <4> QED
                BY <2>2, <2>4 DEF Holds
        <3> QED
            BY <1>1, <1>4, <3>1, <3>2, LateFail
    <2>5. CASE s # 0 /\ Holds(Props(vmk)[s].len, 4, 16)
        <3>1. /\ pc' = "vmk" /\ UNCHANGED <<image, request, meta, kind, vmk, result>>
              /\ key' = key \o Props(vmk)[s].content
            BY <1>7, <2>5 DEF ObtainUnwrapKey, Go, stretch_key
        <3>2. Regular => CK \subseteq {key'}
            <4> HIDE DEF s, CK
            <4> QED
                BY <2>1, <2>2, <3>1
        <3> QED
            BY <1>5, <3>1, <3>2
    <2> QED
        BY <2>3, <2>4, <2>5
<1>8. CASE Prop(vmk, VALUE_TYPE_AES_CCM) # 0 /\ request.call = "clear"
    <2>2. Regular => \A k \in CK : c # 0 /\ Props(vmk)[c].len >= 36 /\ k = Props(vmk)[c].content
        BY <1>2, <1>3, <1>8, ClearKeyOnly
    <2>3. CASE c = 0
        <3>1. Fail("MissingKeyMaterial", "clear key")
            BY <1>8, <2>3 DEF ObtainUnwrapKey
        <3>2. Regular => CK = {}
            BY <2>2, <2>3
        <3> QED
            BY <1>1, <1>4, <3>1, <3>2, LateFail
    <2>4. CASE c # 0 /\ ~Holds(Props(vmk)[c].len, 4, 32)
        <3>1. Fail("MalformedKeyContainer", "clear")
            BY <1>8, <2>4 DEF ObtainUnwrapKey
        <3>2. Regular => CK = {}
            <4> HIDE DEF c, CK
            <4> QED
                BY <2>2, <2>4 DEF Holds
        <3> QED
            BY <1>1, <1>4, <3>1, <3>2, LateFail
    <2>5. CASE c # 0 /\ Holds(Props(vmk)[c].len, 4, 32)
        <3>1. /\ pc' = "vmk" /\ UNCHANGED <<image, request, meta, kind, vmk, result>>
              /\ key' = Props(vmk)[c].content
            BY <1>8, <2>5 DEF ObtainUnwrapKey, Go
        <3>2. Regular => CK \subseteq {key'}
            <4> HIDE DEF c, CK
            <4> QED
                BY <2>2, <3>1
        <3> QED
            BY <1>5, <3>1, <3>2
    <2> QED
        BY <2>3, <2>4, <2>5
<1>9. CASE Prop(vmk, VALUE_TYPE_AES_CCM) # 0 /\ request.call = "startup"
    <2>1. /\ pc' = "vmk" /\ UNCHANGED <<image, request, meta, kind, vmk, key, result>>
        BY <1>9 DEF ObtainUnwrapKey, Go
    <2>2. Regular => CredentialKeys(NoEntry, request) \subseteq {key}
        BY <1>1, <1>9 DEF DecidesInv, OnlyKey
    <2>3. CK = CredentialKeys(NoEntry, request)
        BY <1>9, StartupAnyVmk
    <2> QED
        BY <1>5, <2>1, <2>2, <2>3
<1> QED
    BY <1>6, <1>7, <1>8, <1>9 DEF ObtainUnwrapKey

\* On well-formed metadata, a VMK or an FVEK that does not open with the key at
\* hand opens with none the credential leads to.
LEMMA UnsealDecides ==
    ASSUME SoundInv, DecidesInv, OpenVmk \/ OpenFvek \/ SeekEnd
    PROVE  DecidesInv'
<1> USE DEF AfterMeta, AfterGate, BeforeUnwrap
<1>1. CASE OpenVmk
    <2> DEFINE e == Props(vmk)[Prop(vmk, VALUE_TYPE_AES_CCM)]
    <2>1. /\ pc = "vmk" /\ SignedCopies # {} /\ meta = FirstSigned /\ IsEvidence(image)
          /\ vmk \in Range(meta.entries) /\ is_vmk(vmk)
          /\ protection_type(vmk) = ProtectorType(request)
        BY <1>1 DEF OpenVmk, SoundInv, CopyInv, KeyInv
    <2>2. vmk.nested \in Seq(Range(vmk.nested))
        BY <2>1, MetaEntries
    <2>3. ASSUME Regular, NEW k \in OpenedVmks(meta, request)
          PROVE  /\ e.len >= 28 /\ e.content.len >= 44
                 /\ e.content.under = key /\ k = e.content.key
        <3>1. PICK x \in OfType(Props(vmk), VALUE_TYPE_AES_CCM) :
                 x.content.under \in CredentialKeys(vmk, request) /\ k = x.content.key
            BY <2>1, <2>3, OnlyProtector DEF Regular
        <3>2. e = x /\ x.len >= 28 /\ x.content.len >= 44
            BY <2>1, <2>2, <2>3, WellFormedVmk, PropOnly DEF Regular
        <3>3. CredentialKeys(vmk, request) \subseteq {key}
            BY <2>1, <2>3 DEF DecidesInv, OnlyKey
        <3> HIDE DEF e
        <3> QED
            BY <3>1, <3>2, <3>3
    <2>4. CASE ~aes_ccm_unwrap(key, e)
        <3>1. Fail("AuthenticationFailed", "volume master key")
            BY <1>1, <2>4 DEF OpenVmk
        <3>2. Regular => OpenedVmks(meta, request) = {}
            <4> HIDE DEF e
            <4> QED
                BY <2>3, <2>4 DEF aes_ccm_unwrap
        <3> QED
            BY <2>1, <3>1, <3>2, NothingOpens, LateFail
    <2>5. CASE aes_ccm_unwrap(key, e) /\ ~Holds(e.content.len, 12, 32)
        <3>1. Fail("MalformedKeyContainer", "volume master key")
            BY <1>1, <2>5 DEF OpenVmk
        <3>2. Regular => OpenedVmks(meta, request) = {}
            <4> HIDE DEF e
            <4> QED
                BY <2>3, <2>5 DEF Holds
        <3> QED
            BY <2>1, <3>1, <3>2, NothingOpens, LateFail
    <2>6. CASE aes_ccm_unwrap(key, e) /\ Holds(e.content.len, 12, 32)
        <3>1. /\ pc' = "fvek" /\ UNCHANGED <<image, request, meta, kind, result>>
              /\ key' = e.content.key
            BY <1>1, <2>6 DEF OpenVmk, Go
        <3>2. Regular => OpenedVmks(meta, request) \subseteq {key'}
            <4> HIDE DEF e
            <4> QED
                BY <2>3, <3>1
        <3>3. Regular => OnlyKey'
            BY <3>1, <3>2, SameKeys DEF OnlyKey
        <3> QED
            BY <2>1, <3>1, <3>3, LateAdvance DEF DecidesInv, PathInv
    <2> QED
        BY <2>4, <2>5, <2>6
<1>2. CASE OpenFvek
    <2> DEFINE I == {i \in 1..Len(meta.entries) :
                        /\ meta.entries[i].entry_type = ENTRY_TYPE_FVEK
                        /\ meta.entries[i].value_type = VALUE_TYPE_AES_CCM}
               x == fvek_entry(meta)
               e == meta.entries[x]
    <2>1. /\ pc = "fvek" /\ SignedCopies # {} /\ meta = FirstSigned /\ IsEvidence(image)
          /\ kind = validated_kind(decode(meta.encryption_method))
        BY <1>2 DEF OpenFvek, SoundInv, CopyInv, DecidesInv, PathInv
    <2>2. meta.entries \in Seq(Range(meta.entries))
        BY <2>1, MetaEntries
    <2>3. x = IF I # {} THEN Min(I) ELSE 0
        BY DEF fvek_entry, Find
    <2>4. ASSUME Regular
          PROVE  /\ x # 0 /\ Fveks(meta) = {e} /\ e.len >= 28
                 /\ e.content.len >= 12 + FvekLen(kind)
                 /\ TweakLen(kind) # 0 => e.content.len >= 44 + TweakLen(kind)
        <3>1. PICK f \in Fveks(meta) :
                 /\ Fveks(meta) = {f} /\ f.len >= 28
                 /\ f.content.len >= 12 + FvekLen(kind)
                 /\ TweakLen(kind) # 0 => f.content.len >= 44 + TweakLen(kind)
            BY <2>1, <2>4 DEF Regular, WellFormed
        <3>2. PICK n \in DOMAIN meta.entries : meta.entries[n] = f
            BY DEF Fveks, OfType, Range
        <3>3. n \in I
            BY <2>2, <3>2, SMTT(30) DEF Fveks, OfType
        <3>4. I \in SUBSET Nat
            OBVIOUS
        <3>5. Min(I) \in I
            <4> HIDE DEF I
            <4> QED
                BY <3>3, <3>4, HasMin
        <3>6. x = Min(I)
            <4> HIDE DEF I, x
            <4> QED
                BY <2>3, <3>3
        <3> HIDE DEF x
        <3>7. x # 0 /\ e \in Fveks(meta)
            <4>1. x \in I
                BY <3>5, <3>6
            <4> QED
                BY <2>2, <4>1 DEF Fveks, OfType, Range
        <3> HIDE DEF e
        <3> QED
            BY <3>1, <3>7
    <2>5. ASSUME Regular, NEW k \in OpenedFveks(meta, request) PROVE e.content.under = key
        <3>1. PICK f \in Fveks(meta) : f.content.under \in OpenedVmks(meta, request)
            BY <2>5, InOpenedFveks
        <3>2. OpenedVmks(meta, request) \subseteq {key}
            BY <2>1, <2>5 DEF DecidesInv, OnlyKey
        <3> HIDE DEF e
        <3> QED
            BY <2>4, <2>5, <3>1, <3>2
    <2>6. CASE x = 0
        <3>1. Fail("MissingKeyMaterial", "FVEK entry")
            BY <1>2, <2>6 DEF OpenFvek
        <3> QED
            BY <2>1, <2>4, <2>6, <3>1, LateFail
    <2>7. CASE x # 0 /\ ~aes_ccm_unwrap(key, e)
        <3>1. Fail("AuthenticationFailed", "FVEK")
            BY <1>2, <2>7 DEF OpenFvek
        <3>2. Regular => OpenedFveks(meta, request) = {}
            <4> HIDE DEF x, e
            <4> QED
                BY <2>4, <2>5, <2>7 DEF aes_ccm_unwrap
        <3> QED
            BY <2>1, <3>1, <3>2, LateFail
    <2> DEFINE Short == \/ ~Holds(e.content.len, 12, FvekLen(kind))
                        \/ TweakLen(kind) # 0 /\ ~Holds(e.content.len, 44, TweakLen(kind))
    <2>8. CASE x # 0 /\ aes_ccm_unwrap(key, e) /\ Short
        <3>1. Fail("MalformedKeyContainer", "FVEK")
            BY <1>2, <2>8 DEF OpenFvek
        <3>2. ~Regular
            <4> HIDE DEF x, e
            <4>1. Regular => Holds(e.content.len, 12, FvekLen(kind))
                BY <2>4 DEF Holds
            <4>2. Regular /\ TweakLen(kind) # 0 => Holds(e.content.len, 44, TweakLen(kind))
                BY <2>4 DEF Holds
            <4> QED
                BY <2>8, <4>1, <4>2
        <3> QED
            BY <2>1, <3>1, <3>2, LateFail
    <2>9. CASE x # 0 /\ aes_ccm_unwrap(key, e) /\ ~Short
        <3>1. pc' = "end" /\ UNCHANGED <<image, request, meta, kind, result>>
            BY <1>2, <2>9 DEF OpenFvek, Go
        <3>2. OnlyKey'
            BY <3>1 DEF OnlyKey
        <3> QED
            BY <2>1, <3>1, <3>2, LateAdvance
    <2> QED
        BY <2>6, <2>7, <2>8, <2>9
<1>3. CASE SeekEnd
    <2>1. /\ pc = "end" /\ SignedCopies # {} /\ meta = FirstSigned /\ volume_header.variant # "none"
          /\ kind = validated_kind(decode(meta.encryption_method))
        BY <1>3 DEF SeekEnd, SoundInv, CopyInv, DecidesInv, PathInv
    <2>2. /\ pc' = "done" /\ UNCHANGED <<image, request, meta>>
          /\ result'.tag = "Ok" /\ result'.cipher.kind = kind
        BY <1>3 DEF SeekEnd
    <2>3. PathInv'
        BY <2>2, SameEvidenceSeen DEF DecidesInv, PathInv
    <2>4. Blames("Ok")
        BY <2>1 DEF Blames
    <2>5. EndInv'
        BY <2>1, <2>2, <2>4, SameAsked, SameEvidenceSeen DEF EndInv
    <2>6. OnlyKey' /\ Hopeless(result.tag)'
        BY <2>2 DEF OnlyKey, Hopeless
    <2> QED
        BY <2>3, <2>5, <2>6 DEF DecidesInv
<1> QED
    BY <1>1, <1>2, <1>3

\* DecidesInv holds of a call that has not begun, and every step keeps it.
LEMMA StartDecides == ASSUME NEW r, Attempt(r) PROVE DecidesInv
<1>1. pc = "call" /\ meta = NoMeta /\ result.tag = "pending"
    BY PendingTag DEF Attempt
<1> QED
    BY <1>1 DEF DecidesInv, PathInv, EndInv, OnlyKey, Hopeless, AfterMeta, AfterGate, BeforeUnwrap

LEMMA BeginDecides == ASSUME NEW r, Begin(r) PROVE DecidesInv'
<1>1. pc' = "call" /\ meta' = NoMeta /\ result'.tag = "pending"
    BY PendingTag DEF Begin
<1> QED
    BY <1>1 DEF DecidesInv, PathInv, EndInv, OnlyKey, Hopeless, AfterMeta, AfterGate, BeforeUnwrap,
                NoMeta

LEMMA StepDecides == ASSUME SoundInv, DecidesInv, Step PROVE DecidesInv'
    BY CallDecides, ReadDecides, FindDecides, UnwrapDecides, UnsealDecides DEF Step, Progress

LEMMA StutterDecides == ASSUME DecidesInv, UNCHANGED unlockVars PROVE DecidesInv'
<1>1. UNCHANGED <<image, request, pc, copy, meta, kind, vmk, key, result>>
    BY DEF unlockVars, attemptVars
<1>2. PathInv'
    BY <1>1, SameAsked, SameEvidenceSeen DEF DecidesInv, PathInv
<1>3. EndInv'
    BY <1>1, SameAsked, SameEvidenceSeen DEF DecidesInv, EndInv
<1>4. CredentialKeys(vmk, request)' = CredentialKeys(vmk, request)
    BY <1>1 DEF CredentialKeys, OfType, Props, nested
<1>5. Regular' => OnlyKey' /\ Hopeless(result.tag)'
    BY <1>1, <1>4, SameAsked, SameKeys DEF DecidesInv, OnlyKey, Hopeless
<1> QED
    BY <1>2, <1>3, <1>5 DEF DecidesInv

\* What the invariants say of a call that has ended.
LEMMA Decided ==
    ASSUME SoundInv, DecidesInv, request.call \in {"password", "recovery", "clear", "startup"}
    PROVE  UnlockDecides
<1>1. CASE result.tag = "Ok"
    <2>1. result.cipher.container \in OpenedFveks(FirstSigned, request)
        BY <1>1 DEF SoundInv, UnlockIsSound
    <2> QED
        BY <1>1, <2>1 DEF UnlockDecides
<1>2. CASE result.tag # "Ok"
    <2>1. Regular /\ result.tag \notin {"pending", "Io"} => OpenedFveks(FirstSigned, request) = {}
        BY <1>2 DEF DecidesInv, Hopeless
    <2> QED
        BY <1>2, <2>1 DEF UnlockDecides, Regular
<1> QED
    BY <1>1, <1>2

\* The kinds there are.
LEMMA KindsOf ==
    \A m : validated_kind(m) \in {"none", "Cbc128Diffuser", "Cbc128", "Cbc256", "Xts128", "Xts256"}
    BY DEF validated_kind

\* No step changes the evidence or the credential, or sets a kind that is none.
LEMMA StepTypes ==
    ASSUME Step
    PROVE  /\ image' = image /\ request' = request
           /\ kind' = kind \/ \E m : kind' = validated_kind(m)
<1> USE DEF Go, Fail
<1>1. CASE CallPassword \/ CallRecovery \/ CallClearKey \/ CallStartupKey
    BY <1>1 DEF CallPassword, CallRecovery, CallClearKey, CallStartupKey
<1>2. CASE ReadHeader \/ SkipCopy \/ ReadCopy \/ NoCopyLeft \/ ReaderFails
    BY <1>2 DEF ReadHeader, SkipCopy, ReadCopy, TakeCopyOr, NoCopyLeft, ReaderFails
<1>3. CASE GateMethod
    BY <1>3 DEF GateMethod
<1>4. CASE FindProtector \/ ObtainUnwrapKey
    BY <1>4 DEF FindProtector, ObtainUnwrapKey
<1>5. CASE OpenVmk \/ OpenFvek \/ SeekEnd
    BY <1>5 DEF OpenVmk, OpenFvek, SeekEnd
<1> QED
    BY <1>1, <1>2, <1>3, <1>4, <1>5 DEF Step, Progress

Types ==
    /\ request \in Requests
    /\ kind \in {"none", "Cbc128Diffuser", "Cbc128", "Cbc256", "Xts128", "Xts256"}

LEMMA DecidesInvariant == Spec => [](SoundInv /\ DecidesInv /\ Types)
<1>1. Init => SoundInv /\ DecidesInv /\ Types
    <2> SUFFICES ASSUME Init PROVE SoundInv /\ DecidesInv /\ Types
        OBVIOUS
    <2>1. PICK r \in Requests : Attempt(r)
        BY DEF Init
    <2>2. SoundInv /\ DecidesInv
        BY <2>1, StartSound, StartDecides, EvidenceAssumption DEF Init
    <2>3. Types
        BY <2>1 DEF Attempt, Types
    <2> QED
        BY <2>2, <2>3
<1>2. SoundInv /\ DecidesInv /\ Types /\ [Step]_unlockVars => SoundInv' /\ DecidesInv' /\ Types'
    <2> SUFFICES ASSUME SoundInv, DecidesInv, Types, [Step]_unlockVars
                 PROVE  SoundInv' /\ DecidesInv' /\ Types'
        OBVIOUS
    <2>1. SoundInv' /\ DecidesInv'
        BY StepSound, StutterSound, StepDecides, StutterDecides
    <2>2. Types'
        BY StepTypes, KindsOf DEF Types, unlockVars, attemptVars
    <2> QED
        BY <2>1, <2>2
<1> QED
    BY <1>1, <1>2, PTL DEF Spec

\* For every evidence and every credential: as long as the first signed copy is
\* well formed, whichever copies were lost, a call that ends without a read
\* error returns Ok exactly for a credential that opens the volume.
THEOREM Completeness == Spec => []UnlockDecides
<1>1. SoundInv /\ DecidesInv /\ Types => UnlockDecides
    BY Decided, EvidenceAssumption DEF Types
<1> QED
    BY <1>1, DecidesInvariant, PTL

-----------------------------------------------------------------------------
\* A block that is found lies below 2^64 with its signature, so it was not found
\* at the offset an overflowing product saturates to.
LEMMA FoundInRange ==
    ASSUME IsEvidence(image), volume_header.variant = "WindowsVista", SignedCopies # {}
    PROVE  image.header.words[56] * cluster_size(image.header) < U64
<1> DEFINE h == image.header
           a == h.words[56]
           b == cluster_size(h)
<1>1. Offsets = <<VistaBlock1(h), 0, 0>>
    BY DEF Offsets, volume_header, ParseHeader
<1>2. 1 \in SignedCopies
    BY <1>1 DEF SignedCopies
<1>3. VistaBlock1(h) \in DOMAIN image.blocks
    BY <1>1, <1>2 DEF SignedCopies, BlockAt, Block
<1>4. VistaBlock1(h) \in Nat /\ VistaBlock1(h) + 8 =< U64
    BY <1>3 DEF IsEvidence
<1>5. a \in Nat /\ b \in Nat
    <2>1. a \in Nat /\ h.bytes_per_sector \in Nat /\ h.sectors_per_cluster \in Nat
        BY DEF IsEvidence, HeaderWords
    <2>2. bytes_per_sector(h) \in Nat
        BY <2>1 DEF bytes_per_sector
    <2>3. Max({h.sectors_per_cluster, 1}) \in Nat
        <3> DEFINE n == h.sectors_per_cluster
        <3>1. \E x \in {n, 1} : \A y \in {n, 1} : x >= y
            <4>1. n \in Nat
                BY <2>1
            <4> HIDE DEF n
            <4>2. CASE n >= 1
                BY <4>1, <4>2
            <4>3. CASE 1 > n
                BY <4>1, <4>3
            <4> QED
                BY <4>1, <4>2, <4>3
        <3>2. n \in Nat
            BY <2>1
        <3> HIDE DEF n
        <3>3. Max({n, 1}) \in {n, 1}
            BY <3>1 DEF Max
        <3> QED
            BY <3>2, <3>3 DEF n
    <2> HIDE DEF h
    <2> QED
        BY <2>1, <2>2, <2>3 DEF cluster_size
<1>6. a * b \in Nat
    BY <1>5
<1> DEFINE m == a * b
<1>7. VistaBlock1(h) = Min({m, U64 - 1})
    BY DEF VistaBlock1, saturating_mul
<1> HIDE DEF m, a, b, h
<1>8. U64 \in Nat /\ U64 - 1 \in Nat
    BY <1>4, EvidenceAssumption
<1>9. {m, U64 - 1} \in SUBSET Nat /\ {m, U64 - 1} # {}
    BY <1>6, <1>8 DEF m
<1>10. Min({m, U64 - 1}) \in {m, U64 - 1}
    BY <1>9, HasMin
<1> DEFINE o == VistaBlock1(h)
<1>11. (o = m \/ o = U64 - 1) /\ o \in Nat /\ o + 8 =< U64
    BY <1>4, <1>7, <1>10 DEF h
<1> HIDE DEF o
<1>12. m < U64
    BY <1>8, <1>11
<1> QED
    BY <1>12 DEF m, a, b, h

\* For every evidence: a Vista header whose cluster number overflows u64 leads to
\* no metadata block.
THEOREM VistaInRange == Spec => []VistaStaysInRange
<1>1. SoundInv /\ DecidesInv => VistaStaysInRange
    BY FoundInRange DEF VistaStaysInRange, SoundInv, CopyInv, DecidesInv, PathInv
<1> QED
    BY <1>1, DecidesInvariant, PTL

\* A call, for every evidence and every credential, looks at three copies, has a
\* result exactly once it is over and only ciphers that exist.
THEOREM TypeCorrect == Spec => []TypeOK
<1>1. SoundInv /\ DecidesInv /\ Types => TypeOK
    <2> SUFFICES ASSUME SoundInv, DecidesInv, Types PROVE TypeOK
        OBVIOUS
    <2>1. (pc = "done") = (result.tag # "pending")
        BY DEF DecidesInv, EndInv
    <2> QED
        BY <2>1 DEF TypeOK, Types, SoundInv, CopyInv, AfterMeta, AfterGate
<1> QED
    BY <1>1, DecidesInvariant, PTL
=============================================================================
