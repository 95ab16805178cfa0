------------------------ MODULE UnlockCallersProofs ------------------------
(***************************************************************************)
(* The callers of unlock, for every evidence.  BitlockerLayer::open asks   *)
(* for credentials only if it could try none, and opens a well-formed      *)
(* volume in whatever order they come.  What audit_findings published of a *)
(* volume is what unlocking then goes by.                                  *)
(***************************************************************************)
EXTENDS BitlockerLayer, Audit, UnlockProofs

-----------------------------------------------------------------------------
(* BitlockerLayer::open: the loop over the credentials. *)

TriedBefore(n) == \E i \in 1..(n - 1) : Wired(cands[i])
AnyWired == \E i \in DOMAIN cands : Wired(cands[i])

\* An error is kept exactly if a credential was tried and failed.
TriedInv ==
    /\ cands \in Offers /\ next \in 1..(Len(cands) + 1)
    /\ Running => next =< Len(cands) /\ Wired(cands[next])
    /\ last_err # Pending <=> TriedBefore(next)
    /\ \/ outcome = Opening
       \/ outcome.kind = "NeedCredentials" /\ ~AnyWired
       \/ outcome.kind \in {"source", "Decode"} /\ AnyWired

\* Steps that leave the loop's variables and the credential alone.
LEMMA LoopUnchanged ==
    ASSUME TriedInv, UNCHANGED <<cands, next, last_err, outcome, request>>
    PROVE  TriedInv'
    BY DEF TriedInv, Running, TriedBefore, AnyWired

\* Every step of open keeps TriedInv.
LEMMA TriedStep == ASSUME TriedInv, [OpenNext]_openVars PROVE TriedInv'
<1> USE DEF Opening, Outcome
<1>0. cands \in Seq(Range(cands)) /\ Len(cands) \in Nat /\ DOMAIN cands = 1..Len(cands)
    BY OffersAssumption DEF TriedInv
<1>1. CASE NothingOffered
    BY <1>1 DEF NothingOffered, TriedInv, Running, TriedBefore, AnyWired, unlockVars,
                attemptVars
<1>2. CASE SkipUnwired
    <2>1. /\ next' = next + 1 /\ next =< Len(cands) /\ ~Wired(cands[next]) /\ ~Running
          /\ UNCHANGED <<cands, last_err, outcome, request>>
        BY <1>2 DEF SkipUnwired, unlockVars, attemptVars
    <2>2. TriedBefore(next)' <=> TriedBefore(next)
        BY <1>0, <2>1 DEF TriedBefore, TriedInv
    <2> QED
        BY <1>0, <1>2, <2>1, <2>2 DEF SkipUnwired, TriedInv, Running
<1>3. CASE TryCredential
    BY <1>3 DEF TryCredential, layerVars, Begin, TriedInv, Running, TriedBefore, AnyWired
<1>4. CASE AttemptStep
    BY <1>4, StepTypes, LoopUnchanged DEF AttemptStep, layerVars
<1>5. CASE AttemptUnlocks
    <2>1. AnyWired
        BY <1>0, <1>5 DEF AttemptUnlocks, TriedInv, AnyWired
    <2> QED
        BY <1>5, <2>1 DEF AttemptUnlocks, TriedInv, Running, TriedBefore, AnyWired,
                          unlockVars, attemptVars
<1>6. CASE AttemptFails
    <2>1. /\ next' = next + 1 /\ next =< Len(cands) /\ Wired(cands[next])
          /\ last_err' = result /\ result.tag # "pending" /\ request' = NoAttempt
          /\ outcome = Opening /\ UNCHANGED <<cands, outcome>>
        BY <1>6 DEF AttemptFails, FailsThen, Begin, TriedInv
    <2>2. last_err' # Pending
        <3>1. Pending.tag = "pending"
            BY DEF Pending
        <3> QED
            BY <2>1, <3>1
    <2>3. TriedBefore(next)'
        BY <1>0, <2>1 DEF TriedBefore, TriedInv
    <2> QED
        BY <1>0, <2>1, <2>2, <2>3 DEF TriedInv, Running
<1>7. CASE NoneUnlocked
    <2>1. next = Len(cands) + 1
        BY <1>0, <1>7 DEF NoneUnlocked, TriedInv
    <2>2. last_err # Pending <=> AnyWired
        BY <1>0, <2>1 DEF TriedInv, TriedBefore, AnyWired
    <2>3. /\ last_err = Pending => outcome'.kind = "NeedCredentials"
          /\ last_err # Pending => outcome'.kind = "Decode"
          /\ UNCHANGED <<cands, next, last_err, request>>
        BY <1>7 DEF NoneUnlocked, map_bde_err, unlockVars, attemptVars
    <2> QED
        BY <2>2, <2>3 DEF TriedInv, Running, TriedBefore, AnyWired
<1>8. CASE UNCHANGED openVars
    BY <1>8, LoopUnchanged DEF openVars, layerVars, unlockVars, attemptVars
<1> QED
    BY <1>1, <1>2, <1>3, <1>4, <1>5, <1>6, <1>7, <1>8 DEF OpenNext, Loop

-----------------------------------------------------------------------------
WellFormedVolume ==
    volume_header.variant # "none" /\ SignedCopies # {} /\ WellFormed(FirstSigned)
KeysOf(i) == OpenedFveks(FirstSigned, cands[i])

\* The credentials passed over open nothing, unless reading failed for them.
PassedInv ==
    /\ unread \subseteq 1..(next - 1)
    /\ WellFormedVolume =>
          \A i \in 1..(next - 1) : Wired(cands[i]) /\ KeysOf(i) # {} => i \in unread

\* A source has a key that one of the credentials opens; without one, all were
\* passed over.
HandedInv ==
    /\ outcome.kind \in {"NeedCredentials", "Decode"} => next = Len(cands) + 1
    /\ outcome.kind = "source" =>
          \E i \in DOMAIN cands : Wired(cands[i]) /\ outcome.cipher.container \in KeysOf(i)

\* The inductive invariant of the loop around the attempts.
LoopInv ==
    /\ SoundInv /\ DecidesInv /\ TriedInv /\ PassedInv /\ HandedInv
    /\ Running => request = cands[next]

\* The evidence and the credentials do not change.
LEMMA SameOffer ==
    ASSUME UNCHANGED <<image, cands>>
    PROVE  /\ WellFormedVolume' <=> WellFormedVolume
           /\ \A i : KeysOf(i)' = KeysOf(i) /\ Wired(cands[i])' = Wired(cands[i])
<1>1. volume_header' = volume_header /\ SignedCopies' = SignedCopies /\ FirstSigned' = FirstSigned
    BY SameEvidenceSeen DEF volume_header
<1>2. WellFormed(FirstSigned)' <=> WellFormed(FirstSigned)
    BY <1>1 DEF WellFormed, Once, Props, nested, Fveks, OfType
<1>3. ASSUME NEW i PROVE KeysOf(i)' = KeysOf(i)
    BY <1>1 DEF KeysOf, CredentialKeys, OpenedVmks, OpenedFveks, Fveks, OfType, Props, nested,
                ProtectorType
<1>4. ASSUME NEW i PROVE Wired(cands[i])' = Wired(cands[i])
    BY DEF Wired
<1> QED
    BY <1>1, <1>2, <1>3, <1>4 DEF WellFormedVolume

\* Every step of open leaves the evidence and the credentials alone, and keeps
\* what Unlock shows of the attempt.
LEMMA AttemptKept ==
    ASSUME LoopInv, [OpenNext]_openVars
    PROVE  UNCHANGED <<image, cands>> /\ SoundInv' /\ DecidesInv'
<1> USE DEF LoopInv
<1>1. CASE UNCHANGED unlockVars /\ UNCHANGED cands
    BY <1>1, StutterSound, StutterDecides DEF unlockVars
<1>2. CASE NothingOffered \/ SkipUnwired \/ AttemptUnlocks \/ NoneUnlocked \/ UNCHANGED openVars
    BY <1>1, <1>2 DEF NothingOffered, SkipUnwired, AttemptUnlocks, NoneUnlocked, openVars,
                      layerVars
<1>3. CASE TryCredential
    <2>1. UNCHANGED <<image, cands>> /\ Begin(cands[next]) /\ cands[next].call # "startup"
        BY <1>3 DEF TryCredential, layerVars, Wired
    <2> QED
        BY <2>1, BeginSound, BeginDecides DEF SoundInv, CopyInv
<1>4. CASE AttemptStep
    BY <1>4, StepTypes, StepSound, StepDecides DEF AttemptStep, layerVars
<1>5. CASE AttemptFails
    <2>1. UNCHANGED <<image, cands>> /\ Begin(NoAttempt)
        BY <1>5 DEF AttemptFails, FailsThen
    <2>2. NoAttempt.call # "startup"
        BY DEF NoAttempt, Request
    <2> QED
        BY <2>1, <2>2, BeginSound, BeginDecides DEF SoundInv, CopyInv
<1> QED
    BY <1>2, <1>3, <1>4, <1>5 DEF OpenNext, Loop

\* An attempt that failed, and not for a read error, was with a credential that
\* does not open the volume.
LEMMA FailedOpensNothing ==
    ASSUME LoopInv, Running, result.tag \notin {"pending", "Ok", "Io"}, WellFormedVolume
    PROVE  KeysOf(next) = {}
<1>1. request = cands[next] /\ request.call \in {"password", "recovery"}
    BY DEF LoopInv, TriedInv, Wired
<1>2. Regular
    BY <1>1 DEF Regular, WellFormedVolume
<1> QED
    BY <1>1, <1>2 DEF LoopInv, DecidesInv, Hopeless, KeysOf

\* Every step keeps LoopInv.
LEMMA LoopStep == ASSUME LoopInv, [OpenNext]_openVars PROVE LoopInv'
<1>1. UNCHANGED <<image, cands>> /\ SoundInv' /\ DecidesInv' /\ TriedInv'
    BY AttemptKept, TriedStep DEF LoopInv
<1>2. /\ WellFormedVolume' <=> WellFormedVolume
      /\ \A i : KeysOf(i)' = KeysOf(i) /\ Wired(cands[i])' = Wired(cands[i])
    BY <1>1, SameOffer
<1>3. cands \in Seq(Range(cands)) /\ Len(cands) \in Nat /\ next \in 1..(Len(cands) + 1)
    BY OffersAssumption DEF LoopInv, TriedInv
<1>4. ASSUME UNCHANGED <<next, unread>> PROVE PassedInv'
    BY <1>1, <1>2, <1>4 DEF LoopInv, PassedInv
<1>5. ASSUME outcome = Opening, outcome' = outcome PROVE HandedInv'
    BY <1>5 DEF HandedInv, Opening, Outcome
<1>6. CASE NothingOffered
    <2>1. next = Len(cands) + 1
        BY <1>3, <1>6 DEF NothingOffered
    <2>2. outcome'.kind = "NeedCredentials" /\ UNCHANGED <<request, next, unread>>
        BY <1>6 DEF NothingOffered, Outcome, unlockVars, attemptVars
    <2>3. HandedInv'
        BY <1>1, <2>1, <2>2 DEF HandedInv
    <2> QED
        BY <1>1, <1>4, <2>2, <2>3 DEF LoopInv, Running
<1>7. CASE SkipUnwired
    <2>1. /\ outcome = Opening /\ ~Running /\ ~Wired(cands[next]) /\ next' = next + 1
          /\ UNCHANGED <<request, outcome, unread>>
        BY <1>7 DEF SkipUnwired, unlockVars, attemptVars
    <2>2. PassedInv'
        BY <1>1, <1>2, <1>3, <2>1 DEF LoopInv, PassedInv
    <2> QED
        BY <1>1, <1>5, <2>1, <2>2 DEF LoopInv, Running
<1>8. CASE TryCredential
    <2>1. outcome = Opening /\ request' = cands[next] /\ UNCHANGED <<next, outcome, unread>>
        BY <1>8 DEF TryCredential, layerVars, Begin
    <2> QED
        BY <1>1, <1>4, <1>5, <2>1 DEF LoopInv, Running
<1>9. CASE AttemptStep
    <2>1. UNCHANGED <<request, next, outcome, unread>>
        BY <1>9, StepTypes DEF AttemptStep, layerVars
    <2>2. HandedInv'
        BY <1>1, <1>2, <2>1 DEF LoopInv, HandedInv
    <2> QED
        BY <1>1, <1>4, <2>1, <2>2 DEF LoopInv, Running
<1>10. CASE AttemptUnlocks
    <2>1. /\ Running /\ result.tag = "Ok" /\ UNCHANGED <<request, next, unread>>
          /\ outcome'.kind = "source" /\ outcome'.cipher = result.cipher
        BY <1>10 DEF AttemptUnlocks, Outcome, unlockVars, attemptVars
    <2>2. next \in DOMAIN cands /\ Wired(cands[next]) /\ request = cands[next]
        BY <1>3, <2>1 DEF LoopInv, TriedInv
    <2>3. result.cipher.container \in KeysOf(next)
        BY <2>1, <2>2 DEF LoopInv, SoundInv, UnlockIsSound, KeysOf
    <2>4. HandedInv'
        BY <1>1, <1>2, <2>1, <2>2, <2>3 DEF HandedInv
    <2> QED
        BY <1>1, <1>4, <2>1, <2>4 DEF LoopInv, Running
<1>11. CASE AttemptFails
    <2>1. /\ outcome = Opening /\ Running /\ result.tag \notin {"pending", "Ok"} /\ next' = next + 1
          /\ unread' = IF result.tag = "Io" THEN unread \cup {next} ELSE unread
          /\ request' = NoAttempt /\ UNCHANGED outcome
        BY <1>11 DEF AttemptFails, FailsThen, Begin
    <2>2. WellFormedVolume /\ KeysOf(next) # {} => result.tag = "Io"
        BY <2>1, FailedOpensNothing
    <2>3. unread' \subseteq 1..(next' - 1)
        BY <1>3, <2>1 DEF LoopInv, PassedInv
    <2>4. ASSUME WellFormedVolume, NEW i \in 1..next, Wired(cands[i]), KeysOf(i) # {}
          PROVE  i \in unread'
        <3>1. CASE i = next
            BY <2>1, <2>2, <2>4, <3>1
        <3>2. CASE i # next
            <4>1. i \in 1..(next - 1)
                BY <1>3, <3>2
            <4>2. i \in unread
                BY <2>4, <4>1 DEF LoopInv, PassedInv
            <4> QED
                BY <2>1, <4>2
        <3> QED
            BY <3>1, <3>2
    <2>5. PassedInv'
        BY <1>1, <1>2, <1>3, <2>1, <2>3, <2>4 DEF PassedInv
    <2> QED
        BY <1>1, <1>5, <2>1, <2>5 DEF LoopInv, Running
<1>12. CASE NoneUnlocked
    <2>1. next = Len(cands) + 1 /\ UNCHANGED <<request, next, unread>>
        BY <1>3, <1>12 DEF NoneUnlocked, unlockVars, attemptVars
    <2>2. outcome'.kind \in {"NeedCredentials", "Decode"}
        BY <1>12 DEF NoneUnlocked, map_bde_err, Outcome
    <2>3. HandedInv'
        BY <1>1, <2>1, <2>2 DEF HandedInv
    <2> QED
        BY <1>1, <1>4, <2>1, <2>3 DEF LoopInv, Running
<1>13. CASE UNCHANGED openVars
    <2>1. UNCHANGED <<request, next, outcome, unread>>
        BY <1>13 DEF openVars, layerVars, unlockVars, attemptVars
    <2>2. HandedInv'
        BY <1>1, <1>2, <2>1 DEF LoopInv, HandedInv
    <2> QED
        BY <1>1, <1>4, <2>1, <2>2 DEF LoopInv, Running
<1> QED
    BY <1>6, <1>7, <1>8, <1>9, <1>10, <1>11, <1>12, <1>13 DEF OpenNext, Loop

LEMMA LoopInvariant == OpenSpec => []LoopInv
<1>1. OpenInit => LoopInv
    <2> SUFFICES ASSUME OpenInit PROVE LoopInv
        OBVIOUS
    <2>1. /\ Attempt(NoAttempt) /\ image \in Images /\ cands \in Offers /\ next = 1
          /\ last_err = Pending /\ outcome.kind = "opening" /\ outcome = Opening /\ unread = {}
        BY DEF OpenInit, Opening, Outcome
    <2>2. NoAttempt.call # "startup"
        BY DEF NoAttempt, Request
    <2>3. SoundInv /\ DecidesInv
        BY <2>1, <2>2, EvidenceAssumption, StartSound, StartDecides
    <2>4. ~Running
        BY <2>1 DEF Attempt, Running
    <2>5. TriedInv
        BY <2>1, <2>4, OffersAssumption DEF TriedInv, TriedBefore
    <2>6. PassedInv /\ HandedInv
        BY <2>1 DEF PassedInv, HandedInv
    <2> QED
        BY <2>3, <2>4, <2>5, <2>6 DEF LoopInv
<1>2. LoopInv /\ [OpenNext]_openVars => LoopInv'
    BY LoopStep
<1> QED
    BY <1>1, <1>2, PTL DEF OpenSpec

\* For every evidence and every sequence of credentials, open returns
\* NeedCredentials exactly if none of them is of a kind it wires.
THEOREM AsksIfNothingTried == OpenSpec => []AsksOnlyIfNothingTried
<1>1. LoopInv => AsksOnlyIfNothingTried
    BY DEF LoopInv, TriedInv, AsksOnlyIfNothingTried, AnyWired
<1> QED
    BY <1>1, LoopInvariant, PTL

\* For every evidence and every sequence of credentials, each attempt is of the
\* candidate whose turn it is, and of a kind open wires.
THEOREM OpenTypeCorrect == OpenSpec => []OpenTypeOK
<1>1. LoopInv => OpenTypeOK
    BY DEF LoopInv, TriedInv, PassedInv, OpenTypeOK, Wired, Opening, Outcome
<1> QED
    BY <1>1, LoopInvariant, PTL

\* For every well-formed volume and every sequence of credentials, in whatever
\* order: open hands out a source only with a key one of them opens, and fails
\* only if reading the evidence failed for each that would have opened it.
THEOREM OrderDoesNotMatter == OpenSpec => []OpenDecides
<1>1. LoopInv => OpenDecides
    <2> SUFFICES ASSUME LoopInv, outcome # Opening, WellFormedVolume PROVE OpenDecides
        BY DEF OpenDecides, WellFormedVolume
    <2>1. cands \in Seq(Range(cands)) /\ Len(cands) \in Nat
        BY OffersAssumption DEF LoopInv, TriedInv
    <2>2. CASE outcome.kind = "source"
        BY <2>2 DEF LoopInv, HandedInv, KeysOf, OpenDecides
    <2>3. CASE outcome.kind # "source"
        <3>1. next = Len(cands) + 1
            BY <2>3 DEF LoopInv, TriedInv, HandedInv
        <3>2. \A i \in DOMAIN cands : Wired(cands[i]) /\ KeysOf(i) # {} => i \in unread
            BY <2>1, <3>1 DEF LoopInv, PassedInv
        <3> QED
            BY <2>3, <3>2 DEF KeysOf, OpenDecides
    <2> QED
        BY <2>2, <2>3
<1> QED
    BY <1>1, LoopInvariant, PTL

-----------------------------------------------------------------------------
(* Flatten, with which the auditor lists its anomalies. *)

\* A concatenation has the elements of both sequences.
LEMMA RangeCat ==
    ASSUME NEW S, NEW a \in Seq(S), NEW b \in Seq(S), NEW x
    PROVE  a \o b \in Seq(S) /\ (x \in Range(a \o b) <=> x \in Range(a) \/ x \in Range(b))
<1> DEFINE c == a \o b
<1>0. /\ c \in Seq(S) /\ Len(c) = Len(a) + Len(b) /\ Len(a) \in Nat /\ Len(b) \in Nat
      /\ \A i \in 1..Len(c) : c[i] = IF i =< Len(a) THEN a[i] ELSE b[i - Len(a)]
      /\ DOMAIN a = 1..Len(a) /\ DOMAIN b = 1..Len(b) /\ DOMAIN c = 1..Len(c)
    OBVIOUS
<1> HIDE DEF c
<1>1. ASSUME x \in Range(c) PROVE x \in Range(a) \/ x \in Range(b)
    <2>1. PICK i \in 1..Len(c) : x = c[i]
        BY <1>0, <1>1 DEF Range
    <2>2. CASE i =< Len(a)
        BY <1>0, <2>1, <2>2 DEF Range
    <2>3. CASE i > Len(a)
        <3>1. i - Len(a) \in 1..Len(b) /\ x = b[i - Len(a)]
            BY <1>0, <2>1, <2>3
        <3> QED
            BY <1>0, <3>1 DEF Range
    <2> QED
        BY <1>0, <2>2, <2>3
<1>2. ASSUME x \in Range(a) PROVE x \in Range(c)
    <2>1. PICK i \in 1..Len(a) : x = a[i]
        BY <1>0, <1>2 DEF Range
    <2>2. i \in 1..Len(c) /\ c[i] = x
        BY <1>0, <2>1
    <2> QED
        BY <1>0, <2>2 DEF Range
<1>3. ASSUME x \in Range(b) PROVE x \in Range(c)
    <2>1. PICK i \in 1..Len(b) : x = b[i]
        BY <1>0, <1>3 DEF Range
    <2> DEFINE p == i + Len(a)
    <2>2. p \in 1..Len(c) /\ ~(p =< Len(a)) /\ p - Len(a) = i
        BY <1>0, <2>1
    <2> HIDE DEF p
    <2>3. c[p] = b[i]
        BY <1>0, <2>2
    <2> QED
        BY <1>0, <2>1, <2>2, <2>3 DEF Range
<1> QED
    BY <1>0, <1>1, <1>2, <1>3 DEF c

\* Flatten is what its recursion comes to.
LEMMA FlattenIs ==
    ASSUME NEW S, NEW ss \in Seq(Seq(S))
    PROVE  \E g : /\ Flatten(ss) = g[Len(ss)] /\ g[0] = <<>>
                  /\ \A i \in 1..Len(ss) : g[i] = g[i - 1] \o ss[i]
<1> DEFINE n == Len(ss)
           Of(f) == [i \in 0..n |-> IF i = 0 THEN <<>> ELSE f[i - 1] \o ss[i]]
           g == CHOOSE f : f = Of(f)
           G == [i \in 1..n |-> [v \in Seq(S) |-> v \o ss[i]]]
<1>1. n \in Nat /\ <<>> \in Seq(S) /\ \A i \in 1..n : ss[i] \in Seq(S)
    OBVIOUS
<1>2. \A i \in 1..n : \A v \in Seq(S) : G[i][v] = v \o ss[i] /\ G[i][v] \in Seq(S)
    BY <1>1
<1>3. PICK f \in [0..n -> Seq(S)] : f[0] = <<>> /\ \A i \in 1..n : f[i] = G[i][f[i - 1]]
    <2>1. Steps(G, n, Seq(S))
        BY <1>2 DEF Steps
    <2> HIDE DEF G, n
    <2>2. \E f \in [0..n -> Seq(S)] : Recurs(f, G, <<>>, n)
        BY <1>1, <2>1, Recursion
    <2> QED
        BY <2>2 DEF Recurs
<1> HIDE DEF G
<1>4. f = Of(f)
    <2>1. \A i \in 0..n : f[i] = IF i = 0 THEN <<>> ELSE f[i - 1] \o ss[i]
        <3> SUFFICES ASSUME NEW i \in 0..n, i # 0 PROVE f[i] = f[i - 1] \o ss[i]
            BY <1>3
        <3>1. i \in 1..n /\ f[i - 1] \in Seq(S)
            <4> HIDE DEF n
            <4> QED
                BY <1>1
        <3> QED
            BY <1>2, <1>3, <3>1
    <2> HIDE DEF n
    <2> QED
        BY <2>1
<1>5. g = Of(g)
    <2> HIDE DEF Of
    <2> QED
        BY <1>4
<1>6. Flatten(ss) = g[n]
    BY DEF Flatten
<1> HIDE DEF g
<1>7. \A i \in 0..n : g[i] = IF i = 0 THEN <<>> ELSE g[i - 1] \o ss[i]
    BY <1>5
<1> HIDE DEF n
<1>8. g[0] = <<>> /\ \A i \in 1..n : g[i] = g[i - 1] \o ss[i]
    <2>1. 0 \in 0..n /\ \A i \in 1..n : i \in 0..n /\ i # 0
        BY <1>1
    <2> QED
        BY <1>7, <2>1, Zenon
<1> WITNESS g
<1> QED
    BY <1>6, <1>8 DEF n

\* Flatten has the elements of the sequences it is given.
LEMMA FlattenRange ==
    ASSUME NEW S, NEW ss \in Seq(Seq(S))
    PROVE  /\ Flatten(ss) \in Seq(S)
           /\ \A x : x \in Range(Flatten(ss)) <=> \E i \in 1..Len(ss) : x \in Range(ss[i])
<1> DEFINE n == Len(ss)
<1>1. n \in Nat /\ \A i \in 1..n : ss[i] \in Seq(S)
    OBVIOUS
<1>2. PICK g : /\ Flatten(ss) = g[n] /\ g[0] = <<>>
               /\ \A i \in 1..n : g[i] = g[i - 1] \o ss[i]
    BY FlattenIs
<1> HIDE DEF n
<1> DEFINE Right(i) == /\ g[i] \in Seq(S)
                       /\ \A x : x \in Range(g[i]) <=> \E j \in 1..i : x \in Range(ss[j])
           Bad == {i \in 0..n : ~Right(i)}
<1>3. Bad = {}
    <2> SUFFICES ASSUME Bad # {} PROVE FALSE
        OBVIOUS
    <2> DEFINE m == Min(Bad)
    <2>1. m \in Bad /\ \A k \in Bad : m =< k
        <3>1. Bad \in SUBSET Nat
            OBVIOUS
        <3> HIDE DEF Bad
        <3> QED
            BY <3>1, HasMin
    <2>2. m \in 0..n /\ ~Right(m)
        <3> HIDE DEF m, Right
        <3> QED
            BY <2>1
    <2> HIDE DEF m
    <2>3. m # 0
        <3>1. Right(0)
            BY <1>2 DEF Range
        <3> QED
            BY <2>2, <3>1
    <2>4. m \in 1..n /\ m - 1 \in 0..n /\ m - 1 < m
        <3> HIDE DEF Right
        <3> QED
            BY <1>1, <2>2, <2>3
    <2>5. Right(m - 1)
        <3> HIDE DEF Right
        <3> QED
            BY <1>1, <2>1, <2>4
    <2>6. g[m] = g[m - 1] \o ss[m] /\ ss[m] \in Seq(S)
        <3> HIDE DEF Bad
        <3> QED
            BY <1>1, <1>2, <2>4
    <2>7. g[m] \in Seq(S)
        BY <2>5, <2>6
    <2>8. ASSUME NEW x
          PROVE  x \in Range(g[m]) <=> \E j \in 1..m : x \in Range(ss[j])
        <3>1. x \in Range(g[m]) <=> x \in Range(g[m - 1]) \/ x \in Range(ss[m])
            BY <2>5, <2>6, RangeCat
        <3>2. x \in Range(g[m - 1]) <=> \E j \in 1..(m - 1) : x \in Range(ss[j])
            BY <2>5
        <3>3. 1..m = 1..(m - 1) \cup {m}
            BY <2>2, <2>4
        <3> QED
            BY <3>1, <3>2, <3>3, Zenon
    <2> QED
        BY <2>2, <2>7, <2>8
<1>4. Right(n)
    <2>1. n \in 0..n
        BY <1>1
    <2> HIDE DEF Right
    <2> QED
        BY <1>3, <2>1
<1> QED
    BY <1>2, <1>4 DEF n

-----------------------------------------------------------------------------
(* What the auditor reports of the metadata. *)

\* The metadata has a VMK whose protector is of type t.
HasType(m, t) == \E v \in Range(m.entries) : is_vmk(v) /\ protection_type(v) = t

\* What the findings say of the metadata they are about.
Reports(fs, m, is_to_go) ==
    /\ \A f \in Range(fs) : f.code = "BDE-PROTECTOR-INVENTORY" =>
          \E t \in U16 : f.evidence = <<"protector_type", Hex4(t)>>
    /\ \A t \in U16 :
          (\E f \in Range(fs) : /\ f.code = "BDE-PROTECTOR-INVENTORY"
                                /\ f.evidence = <<"protector_type", Hex4(t)>>) <=> HasType(m, t)
    /\ (\E f \in Range(fs) : f.code = "BDE-WEAK-CIPHER") <=> ~is_aes_xts(m.encryption_method)
    /\ (\E f \in Range(fs) : f.code = "BDE-CLEAR-KEY-PRESENT") <=> HasType(m, PROT_CLEAR_KEY)
    /\ HasType(m, PROT_CLEAR_KEY) => \E f \in Range(fs) : f.severity = "High"
    /\ (\E f \in Range(fs) : f.code = "BDE-TO-GO") <=> is_to_go

\* The VMK entries are the entries that are VMKs,
LEMMA VmkEntries ==
    ASSUME NEW m, IsEntries(m.entries)
    PROVE  /\ vmk_entries(m) \in Seq(Range(m.entries))
           /\ \A x : x \in Range(vmk_entries(m)) <=> x \in Range(m.entries) /\ is_vmk(x)
<1> DEFINE es == m.entries
           S == Range(es)
           ss == [i \in DOMAIN es |-> IF is_vmk(es[i]) THEN <<es[i]>> ELSE <<>>]
<1>1. es \in Seq(S)
    BY DEF IsEntries
<1>2. vmk_entries(m) = Flatten(ss)
    BY DEF vmk_entries
<1> HIDE DEF es
<1>3. DOMAIN es = 1..Len(es) /\ Len(es) \in Nat /\ \A i \in 1..Len(es) : es[i] \in S
    BY <1>1
<1> HIDE DEF S
<1>4. ss \in Seq(Seq(S)) /\ Len(ss) = Len(es)
    <2>1. \A i \in 1..Len(es) : (IF is_vmk(es[i]) THEN <<es[i]>> ELSE <<>>) \in Seq(S)
        BY <1>3
    <2> QED
        BY <1>3, <2>1
<1>5. ASSUME NEW x
      PROVE  (\E i \in 1..Len(ss) : x \in Range(ss[i])) <=> x \in S /\ is_vmk(x)
    <2>1. ASSUME NEW i \in 1..Len(es) PROVE x \in Range(ss[i]) <=> x = es[i] /\ is_vmk(es[i])
        <3>1. CASE is_vmk(es[i])
            <4>1. ss[i] = <<es[i]>>
                BY <1>3, <3>1
            <4> QED
                BY <3>1, <4>1 DEF Range
        <3>2. CASE ~is_vmk(es[i])
            <4>1. ss[i] = <<>>
                BY <1>3, <3>2
            <4> QED
                BY <3>2, <4>1 DEF Range
        <3> QED
            BY <3>1, <3>2
    <2>2. x \in S <=> \E i \in 1..Len(es) : x = es[i]
        BY <1>3 DEF S, Range
    <2> HIDE DEF ss
    <2> QED
        BY <1>4, <2>1, <2>2
<1> HIDE DEF ss
<1>6. /\ Flatten(ss) \in Seq(S)
      /\ \A x : x \in Range(Flatten(ss)) <=> \E i \in 1..Len(ss) : x \in Range(ss[i])
    BY <1>4, FlattenRange
<1> QED
    BY <1>2, <1>5, <1>6 DEF S, es

\* and protector_types gives the types they have.
LEMMA TypesFound ==
    ASSUME NEW m, IsEntries(m.entries)
    PROVE  /\ protector_types(m) \in Seq(U16)
           /\ \A t : t \in Range(protector_types(m)) <=> HasType(m, t)
<1> DEFINE vs == vmk_entries(m)
           ts == protector_types(m)
<1>1. vs \in Seq(Range(m.entries))
    BY VmkEntries
<1>2. ts = [i \in DOMAIN vs |-> protection_type(vs[i])]
    BY DEF protector_types
<1>3. \A e \in Range(m.entries) : protection_type(e) \in U16
    <2>1. 0 \in U16
        BY DEF U16
    <2> QED
        BY <2>1 DEF protection_type, Field, IsEntries
<1> HIDE DEF vs, ts
<1>4. ts \in Seq(U16)
    <2>1. \A i \in DOMAIN vs : protection_type(vs[i]) \in U16
        BY <1>1, <1>3
    <2> QED
        BY <1>1, <1>2, <2>1
<1>5. ASSUME NEW t PROVE t \in Range(ts) <=> HasType(m, t)
    <2>1. t \in Range(ts) <=> \E v \in Range(vs) : t = protection_type(v)
        BY <1>2 DEF Range
    <2>2. \A x : x \in Range(vs) <=> x \in Range(m.entries) /\ is_vmk(x)
        BY VmkEntries DEF vs
    <2> QED
        BY <2>1, <2>2 DEF HasType
<1> QED
    BY <1>4, <1>5 DEF ts

\* The elements of a short sequence.
LEMMA RangeShort ==
    ASSUME NEW p, NEW q, NEW x
    PROVE  (x \in Range(<<p>>) <=> x = p) /\ (x \in Range(<<q, p>>) <=> x = q \/ x = p)
    BY DEF Range

\* The anomalies an audit reports.
LEMMA Anomalies ==
    ASSUME NEW m, IsEntries(m.entries), NEW is_to_go \in BOOLEAN, NEW x
    PROVE  x \in Range(audit(m, is_to_go)) <=>
              \/ is_to_go /\ x = ToGo
              \/ ~is_aes_xts(m.encryption_method) /\ x = WeakCipher(m.encryption_method)
              \/ \E t \in U16 : /\ HasType(m, t)
                                /\ x = Protector(t) \/ (t = PROT_CLEAR_KEY /\ x = ClearKeyPresent)
<1> DEFINE ts == protector_types(m)
           S == {ToGo, WeakCipher(m.encryption_method), ClearKeyPresent} \cup {Protector(t) : t \in U16}
           ss == [i \in DOMAIN ts |-> OfProtector(ts[i])]
           a == IF is_to_go THEN <<ToGo>> ELSE <<>>
           b == IF is_aes_xts(m.encryption_method) THEN <<>> ELSE <<WeakCipher(m.encryption_method)>>
           c == OfVmks(m)
<1>1. ts \in Seq(U16) /\ \A t : t \in Range(ts) <=> HasType(m, t)
    BY TypesFound
<1>2. audit(m, is_to_go) = a \o b \o c /\ c = Flatten(ss)
    BY DEF audit, OfVmks, AnomaliesOf
<1> HIDE DEF ts
<1>3. /\ ToGo \in S /\ WeakCipher(m.encryption_method) \in S /\ ClearKeyPresent \in S
      /\ \A t \in U16 : Protector(t) \in S
    OBVIOUS
<1> HIDE DEF S
<1>4. ss \in Seq(Seq(S)) /\ Len(ss) = Len(ts)
    <2>1. \A t \in U16 : OfProtector(t) \in Seq(S)
        BY <1>3 DEF OfProtector
    <2>2. DOMAIN ts = 1..Len(ts) /\ Len(ts) \in Nat /\ \A i \in 1..Len(ts) : ts[i] \in U16
        BY <1>1
    <2> QED
        BY <2>1, <2>2
<1>5. ASSUME NEW t \in U16
      PROVE  x \in Range(OfProtector(t)) <=> x = Protector(t) \/ (t = PROT_CLEAR_KEY /\ x = ClearKeyPresent)
    <2>1. CASE t = PROT_CLEAR_KEY
        <3>1. OfProtector(t) = <<ClearKeyPresent, Protector(t)>>
            BY <2>1 DEF OfProtector
        <3> QED
            BY <2>1, <3>1, RangeShort
    <2>2. CASE t # PROT_CLEAR_KEY
        <3>1. OfProtector(t) = <<Protector(t)>>
            BY <2>2 DEF OfProtector
        <3> QED
            BY <2>2, <3>1, RangeShort
    <2> QED
        BY <2>1, <2>2
<1>6. /\ c \in Seq(S)
      /\ x \in Range(c) <=> \E i \in 1..Len(ss) : x \in Range(ss[i])
    <2> HIDE DEF ss
    <2> QED
        BY <1>2, <1>4, FlattenRange
<1>7. x \in Range(c) <=>
         \E t \in U16 : /\ HasType(m, t)
                        /\ x = Protector(t) \/ (t = PROT_CLEAR_KEY /\ x = ClearKeyPresent)
    <2>1. DOMAIN ts = 1..Len(ts) /\ \A i \in 1..Len(ts) : ts[i] \in U16
        BY <1>1
    <2>2. \A i \in 1..Len(ts) : ss[i] = OfProtector(ts[i])
        BY <2>1
    <2>3. \A t \in U16 : HasType(m, t) <=> \E i \in 1..Len(ts) : ts[i] = t
        BY <1>1, <2>1 DEF Range
    <2>4. (\E i \in 1..Len(ts) : x \in Range(ss[i])) <=>
             \E t \in U16 : HasType(m, t) /\ x \in Range(OfProtector(t))
        <3> HIDE DEF ss
        <3> QED
            BY <2>1, <2>2, <2>3
    <2> HIDE DEF c, ss
    <2> QED
        BY <1>4, <1>5, <1>6, <2>4
<1>8. a \in Seq(S) /\ (x \in Range(a) <=> is_to_go /\ x = ToGo)
    <2>1. CASE is_to_go
        BY <1>3, <2>1 DEF Range
    <2>2. CASE ~is_to_go
        BY <2>2 DEF Range
    <2> QED
        BY <2>1, <2>2
<1> DEFINE w == WeakCipher(m.encryption_method)
<1>9. b \in Seq(S) /\ (x \in Range(b) <=> ~is_aes_xts(m.encryption_method) /\ x = w)
    <2> HIDE DEF w
    <2>1. CASE is_aes_xts(m.encryption_method)
        BY <2>1 DEF Range
    <2>2. CASE ~is_aes_xts(m.encryption_method)
        <3>1. b = <<w>> /\ w \in S
            BY <1>3, <2>2 DEF w
        <3> HIDE DEF b
        <3> QED
            BY <2>2, <3>1 DEF Range
    <2> QED
        BY <2>1, <2>2
<1> HIDE DEF a, b, c, ss
<1>10. a \o b \in Seq(S) /\ (x \in Range(a \o b) <=> x \in Range(a) \/ x \in Range(b))
    BY <1>8, <1>9, RangeCat
<1>11. x \in Range(a \o b \o c) <=> x \in Range(a \o b) \/ x \in Range(c)
    BY <1>6, <1>10, RangeCat
<1> QED
    BY <1>2, <1>7, <1>8, <1>9, <1>10, <1>11, Zenon

\* Four hexadecimal digits determine a u16.
LEMMA Hex4Injective == ASSUME NEW v \in U16, NEW w \in U16, Hex4(v) = Hex4(w) PROVE v = w
<1>1. /\ v \div 4096 = w \div 4096 /\ (v \div 256) % 16 = (w \div 256) % 16
      /\ (v \div 16) % 16 = (w \div 16) % 16 /\ v % 16 = w % 16
    BY DEF Hex4
<1>2. ASSUME NEW n \in Nat PROVE n = 16 * (n \div 16) + (n % 16)
    OBVIOUS
<1>3. ASSUME NEW n \in Nat PROVE n \div 16 \in Nat /\ n \div 256 \in Nat
    OBVIOUS
<1>4. ASSUME NEW n \in Nat PROVE n \div 256 = (n \div 16) \div 16
    OBVIOUS
<1>5. ASSUME NEW n \in Nat PROVE n \div 4096 = (n \div 256) \div 16
    OBVIOUS
<1>6. v \in Nat /\ w \in Nat
    BY DEF U16
<1>7. v \div 256 = w \div 256
    BY <1>1, <1>2, <1>3, <1>5, <1>6
<1>8. v \div 16 = w \div 16
    BY <1>1, <1>2, <1>3, <1>4, <1>6, <1>7
<1> QED
    BY <1>1, <1>2, <1>6, <1>8

\* What is published of each anomaly.
LEMMA Findings ==
    /\ Finding(ToGo).code = "BDE-TO-GO"
    /\ \A v : Finding(WeakCipher(v)).code = "BDE-WEAK-CIPHER"
    /\ Finding(ClearKeyPresent).code = "BDE-CLEAR-KEY-PRESENT"
    /\ Finding(ClearKeyPresent).severity = "High"
    /\ \A t : /\ Finding(Protector(t)).code = "BDE-PROTECTOR-INVENTORY"
              /\ Finding(Protector(t)).evidence = <<"protector_type", Hex4(t)>>
    BY DEF Finding, ToGo, WeakCipher, ClearKeyPresent, Protector, code, severity, evidence

\* The findings of an audit say of the metadata what Reports asks for.
LEMMA AuditReports ==
    ASSUME NEW m, IsEntries(m.entries), NEW is_to_go \in BOOLEAN
    PROVE  Reports(audit_findings(m, is_to_go), m, is_to_go)
<1> DEFINE fs == audit_findings(m, is_to_go)
           anomalies == audit(m, is_to_go)
           w == WeakCipher(m.encryption_method)
<1>1. \A f : f \in Range(fs) <=> \E x \in Range(anomalies) : f = Finding(x)
    <2>1. fs = [i \in DOMAIN anomalies |-> Finding(anomalies[i])]
        BY DEF audit_findings
    <2> HIDE DEF fs, anomalies
    <2> QED
        BY <2>1 DEF Range
<1>2. \A x : x \in Range(anomalies) <=>
                \/ is_to_go /\ x = ToGo
                \/ ~is_aes_xts(m.encryption_method) /\ x = w
                \/ \E t \in U16 : /\ HasType(m, t)
                                  /\ \/ x = Protector(t)
                                     \/ t = PROT_CLEAR_KEY /\ x = ClearKeyPresent
    BY Anomalies
<1>3. Finding(w).code = "BDE-WEAK-CIPHER"
    BY Findings
<1> HIDE DEF fs, anomalies, w
<1>4. ASSUME NEW t \in U16
      PROVE  (\E f \in Range(fs) : /\ f.code = "BDE-PROTECTOR-INVENTORY"
                                   /\ f.evidence = <<"protector_type", Hex4(t)>>) <=> HasType(m, t)
    <2>1. ASSUME HasType(m, t)
          PROVE  \E f \in Range(fs) : /\ f.code = "BDE-PROTECTOR-INVENTORY"
                                      /\ f.evidence = <<"protector_type", Hex4(t)>>
        <3>1. Finding(Protector(t)) \in Range(fs)
            BY <1>1, <1>2, <2>1
        <3> QED
            BY <3>1, Findings
    <2>2. ASSUME NEW f \in Range(fs), f.code = "BDE-PROTECTOR-INVENTORY",
                 f.evidence = <<"protector_type", Hex4(t)>>
          PROVE  HasType(m, t)
        <3>1. PICK x \in Range(anomalies) : f = Finding(x)
            BY <1>1
        <3>2. x # ToGo /\ x # w /\ x # ClearKeyPresent
            BY <1>3, <2>2, <3>1, Findings
        <3>3. PICK u \in U16 : HasType(m, u) /\ x = Protector(u)
            BY <1>2, <3>2, SMTT(30)
        <3>4. Hex4(u) = Hex4(t)
            BY <2>2, <3>1, <3>3, Findings
        <3> QED
            BY <3>3, <3>4, Hex4Injective
    <2> QED
        BY <2>1, <2>2
<1>5. (\E f \in Range(fs) : f.code = "BDE-WEAK-CIPHER") <=> ~is_aes_xts(m.encryption_method)
    <2>1. ASSUME ~is_aes_xts(m.encryption_method)
          PROVE  \E f \in Range(fs) : f.code = "BDE-WEAK-CIPHER"
        <3>1. Finding(w) \in Range(fs)
            BY <1>1, <1>2, <2>1
        <3> QED
            BY <1>3, <3>1
    <2>2. ASSUME NEW f \in Range(fs), f.code = "BDE-WEAK-CIPHER"
          PROVE  ~is_aes_xts(m.encryption_method)
        <3>1. PICK x \in Range(anomalies) : f = Finding(x)
            BY <1>1
        <3> QED
            BY <1>2, <2>2, <3>1, Findings
    <2> QED
        BY <2>1, <2>2
<1>6. /\ (\E f \in Range(fs) : f.code = "BDE-CLEAR-KEY-PRESENT") <=> HasType(m, PROT_CLEAR_KEY)
      /\ HasType(m, PROT_CLEAR_KEY) => \E f \in Range(fs) : f.severity = "High"
    <2>1. PROT_CLEAR_KEY \in U16
        BY DEF PROT_CLEAR_KEY, U16
    <2>2. HasType(m, PROT_CLEAR_KEY) => Finding(ClearKeyPresent) \in Range(fs)
        BY <1>1, <1>2, <2>1
    <2>3. ASSUME NEW f \in Range(fs), f.code = "BDE-CLEAR-KEY-PRESENT"
          PROVE  HasType(m, PROT_CLEAR_KEY)
        <3>1. PICK x \in Range(anomalies) : f = Finding(x)
            BY <1>1
        <3>2. x # ToGo /\ x # w /\ \A t : x # Protector(t)
            BY <1>3, <2>3, <3>1, Findings
        <3> QED
            BY <1>2, <3>2
    <2> QED
        BY <2>2, <2>3, Findings
<1>7. (\E f \in Range(fs) : f.code = "BDE-TO-GO") <=> is_to_go
    <2>1. is_to_go => Finding(ToGo) \in Range(fs)
        BY <1>1, <1>2
    <2>2. ASSUME NEW f \in Range(fs), f.code = "BDE-TO-GO" PROVE is_to_go
        <3>1. PICK x \in Range(anomalies) : f = Finding(x)
            BY <1>1
        <3>2. x # w /\ x # ClearKeyPresent /\ \A t : x # Protector(t)
            BY <1>3, <2>2, <3>1, Findings
        <3> QED
            BY <1>2, <3>2
    <2> QED
        BY <2>1, <2>2, Findings
<1>8. ASSUME NEW f \in Range(fs), f.code = "BDE-PROTECTOR-INVENTORY"
      PROVE  \E t \in U16 : f.evidence = <<"protector_type", Hex4(t)>>
    <2>1. PICK x \in Range(anomalies) : f = Finding(x)
        BY <1>1
    <2>2. x # ToGo /\ x # w /\ x # ClearKeyPresent
        BY <1>3, <1>8, <2>1, Findings
    <2>3. PICK t \in U16 : x = Protector(t)
        BY <1>2, <2>2, SMTT(30)
    <2> QED
        BY <2>1, <2>3, Findings
<1> QED
    BY <1>4, <1>5, <1>6, <1>7, <1>8 DEF Reports, fs

-----------------------------------------------------------------------------
(* The examination: an audit, then an unlock. *)

\* What the auditor should take the layout for.
IsToGo == volume_header.variant = "BitLockerToGo"

\* The audit is under way or over, on the evidence it reads.
AuditInv ==
    /\ pc \in {"header", "copies", "gate"} => to_go = IsToGo
    /\ request = AuditRequest /\ pc \in {"call", "header", "copies", "gate", "done"}
    /\ audited \in {"pending", "Ok"}
    /\ audited = "Ok" <=> result.tag = "Audited"
    /\ result.tag \in {"pending", "Audited", "Io", "NotBitLocker", "NoValidMetadata"}

\* It ended, with findings or with an error that is the evidence's or a read's.
AuditedInv ==
    /\ request \in Requests
    /\ audited \in {"Ok", "Io", "NotBitLocker", "NoValidMetadata"}
    /\ audited = "NotBitLocker" => volume_header.variant = "none"
    /\ audited = "NoValidMetadata" => volume_header.variant # "none" /\ SignedCopies = {}

\* The inductive invariant of the examination.
ExamInv ==
    /\ SoundInv /\ DecidesInv
    /\ phase \in {"audit", "unlock"} /\ to_go \in BOOLEAN
    /\ phase = "audit" => AuditInv
    /\ phase = "unlock" => AuditedInv
    /\ audited = "Ok" => SignedCopies # {} /\ Reports(findings, FirstSigned, IsToGo)

\* A step that leaves the evidence, and what was found in it, alone.
LEMMA FindingsKept ==
    ASSUME ExamInv, image' = image, findings' = findings, audited' = "Ok" <=> audited = "Ok"
    PROVE  audited' = "Ok" => SignedCopies' # {} /\ Reports(findings, FirstSigned, IsToGo)'
<1>1. SignedCopies' = SignedCopies /\ FirstSigned' = FirstSigned /\ IsToGo' = IsToGo
    BY SameEvidenceSeen DEF volume_header, IsToGo
<1>2. Reports(findings, FirstSigned, IsToGo)' <=> Reports(findings, FirstSigned, IsToGo)
    BY <1>1 DEF Reports, HasType
<1> QED
    BY <1>1, <1>2 DEF ExamInv

\* A step of the audit that fails.
LEMMA AuditFails ==
    ASSUME ExamInv, phase = "audit", pc # "done", NEW tag \in {"Io", "NotBitLocker", "NoValidMetadata"},
           NEW what, Fail(tag, what), UNCHANGED auditVars
    PROVE  AuditInv'
<1>1. result = Pending /\ audited = "pending" /\ request = AuditRequest
    BY PendingTag DEF ExamInv, SoundInv, AuditInv
<1>2. /\ pc' = "done" /\ result'.tag = tag /\ request' = request /\ audited' = audited
    BY DEF Fail, Pending, auditVars
<1> QED
    BY <1>1, <1>2 DEF AuditInv, AuditRequest, Request

\* audit_reader: the header it reads for itself.
LEMMA HeaderKeeps == ASSUME ExamInv, AuditHeader \/ AuditHeaderFails PROVE ExamInv'
<1>1. /\ phase = "audit" /\ pc = "call" /\ SoundInv /\ DecidesInv /\ AuditInv
    BY DEF AuditHeader, AuditHeaderFails, ExamInv
<1>2. ASSUME NEW tag \in {"Io", "NotBitLocker"}, Fail(tag, ""), UNCHANGED auditVars, Blames(tag)
      PROVE  ExamInv'
    <2>1. SoundInv'
        BY <1>1, <1>2, FailSound
    <2>2. ~Regular
        BY <1>1 DEF Regular, AuditInv, AuditRequest, Request
    <2>3. DecidesInv'
        BY <1>1, <1>2, <2>2, FailDecides
    <2>4. AuditInv'
        BY <1>1, <1>2, AuditFails
    <2>5. image' = image /\ UNCHANGED <<phase, to_go, findings, audited>>
        BY <1>2 DEF Fail, auditVars
    <2> QED
        BY <1>1, <2>1, <2>3, <2>4, <2>5, FindingsKept DEF ExamInv
<1>3. CASE AuditHeaderFails
    <2>1. Blames("Io")
        BY DEF Blames, Unread
    <2> QED
        BY <1>2, <1>3, <2>1 DEF AuditHeaderFails
<1>4. CASE AuditHeader /\ volume_header.variant = "none"
    <2>1. Blames("NotBitLocker")
        BY <1>4 DEF Blames, Unread
    <2> QED
        BY <1>2, <1>4, <2>1 DEF AuditHeader
<1>5. CASE AuditHeader /\ volume_header.variant # "none"
    <2>1. /\ pc' = "header" /\ to_go' \in BOOLEAN
          /\ UNCHANGED <<image, request, copy, meta, kind, vmk, key, result, phase, findings, audited>>
        BY <1>5 DEF AuditHeader, Go
    <2>2. request.call = "audit"
        BY <1>1 DEF AuditInv, AuditRequest, Request
    <2>3. SoundInv'
        <3>1. CopyInv'
            BY <1>1, <2>1, <2>2 DEF SoundInv, CopyInv, AfterMeta, AfterGate
        <3>2. KeyInv' /\ GateInv'
            BY <2>1, <2>2 DEF KeyInv, GateInv, AfterGate
        <3>3. result' = Pending /\ result'.tag # "Ok"
            BY <1>1, <2>1, PendingTag DEF SoundInv
        <3> QED
            BY <2>1, <3>1, <3>2, <3>3 DEF SoundInv
    <2>4. DecidesInv'
        <3>1. PathInv'
            BY <1>1, <2>1, SameEvidenceSeen DEF DecidesInv, PathInv, AfterMeta, AfterGate
        <3>2. ~Regular
            BY <2>2 DEF Regular
        <3> QED
            BY <1>1, <2>1, <3>1, <3>2, AdvanceDecides
    <2>5. AuditInv'
        <3>1. to_go' = IsToGo'
            BY <1>5, <2>1 DEF AuditHeader, IsToGo, volume_header
        <3> QED
            BY <1>1, <2>1, <3>1 DEF AuditInv, AuditRequest, Request
    <2> QED
        BY <1>1, <2>1, <2>3, <2>4, <2>5, FindingsKept DEF ExamInv
<1> QED
    BY <1>3, <1>4, <1>5

\* read_metadata, for the auditor.
LEMMA ReadsKeep == ASSUME ExamInv, AuditReads PROVE ExamInv'
<1>1. /\ phase = "audit" /\ SoundInv /\ DecidesInv /\ AuditInv
      /\ ReadHeader \/ SkipCopy \/ ReadCopy \/ NoCopyLeft \/ ReaderFails
      /\ UNCHANGED <<phase, to_go, findings, audited>>
    BY DEF AuditReads, ExamInv, auditVars
<1>2. SoundInv' /\ DecidesInv'
    BY <1>1, ReadSound, ReadDecides
<1>3. image' = image /\ request' = request
    <2>1. Step
        BY <1>1 DEF Step, Progress
    <2> QED
        BY <2>1, StepTypes
<1>4. AuditInv'
    <2>1. pc # "done"
        BY <1>1 DEF ReadHeader, SkipCopy, ReadCopy, TakeCopyOr, NoCopyLeft, ReaderFails
    <2>2. CASE \E what : \E tag \in {"Io", "NotBitLocker", "NoValidMetadata"} : Fail(tag, what)
        BY <1>1, <2>1, <2>2, AuditFails DEF auditVars
    <2>3. CASE ~\E what : \E tag \in {"Io", "NotBitLocker", "NoValidMetadata"} : Fail(tag, what)
        <3>1. pc' \in {"copies", "gate"} /\ result' = result
            BY <1>1, <2>3 DEF ReadHeader, SkipCopy, ReadCopy, TakeCopyOr, NoCopyLeft, ReaderFails, Go
        <3>2. pc \in {"header", "copies"} /\ IsToGo' = IsToGo
            BY <1>1, <1>3, <2>1, <2>3 DEF ReadHeader, SkipCopy, ReadCopy, TakeCopyOr, NoCopyLeft,
                                          ReaderFails, IsToGo, volume_header
        <3> QED
            BY <1>1, <1>3, <3>1, <3>2 DEF AuditInv, AuditRequest, Request
    <2> QED
        BY <2>2, <2>3
<1> QED
    BY <1>1, <1>2, <1>3, <1>4, FindingsKept DEF ExamInv

\* The report is of the first signed copy.
LEMMA ReportKeeps == ASSUME ExamInv, Report PROVE ExamInv'
<1>1. /\ phase = "audit" /\ pc = "gate" /\ findings' = audit_findings(meta, to_go)
      /\ audited' = "Ok" /\ pc' = "done" /\ result'.tag = "Audited"
      /\ UNCHANGED <<image, request, copy, meta, kind, vmk, key, phase, to_go>>
    BY DEF Report, Pending
<1>2. SoundInv /\ DecidesInv /\ AuditInv /\ to_go \in BOOLEAN /\ to_go = IsToGo
    BY <1>1 DEF ExamInv, AuditInv
<1>3. /\ SignedCopies # {} /\ meta = FirstSigned /\ IsEvidence(image)
      /\ volume_header.variant # "none"
    BY <1>1, <1>2 DEF SoundInv, CopyInv, DecidesInv, PathInv, AfterMeta
<1>4. SignedCopies' # {} /\ Reports(findings, FirstSigned, IsToGo)'
    <2>1. IsEntries(meta.entries)
        BY <1>3, SignedEntries
    <2>2. Reports(findings', FirstSigned, IsToGo)
        BY <1>1, <1>2, <1>3, <2>1, AuditReports
    <2>3. SignedCopies' = SignedCopies /\ FirstSigned' = FirstSigned /\ IsToGo' = IsToGo
        BY <1>1, SameEvidenceSeen DEF IsToGo, volume_header
    <2> QED
        BY <1>3, <2>2, <2>3 DEF Reports, HasType
<1>5. SoundInv'
    <2>1. CopyInv'
        BY <1>1, <1>2 DEF SoundInv, CopyInv, AfterMeta, AfterGate
    <2>2. KeyInv' /\ GateInv'
        BY <1>1 DEF KeyInv, GateInv, AfterGate, BeforeUnwrap
    <2> QED
        BY <1>1, <2>1, <2>2 DEF SoundInv
<1>6. DecidesInv'
    <2>1. PathInv'
        BY <1>1, <1>2, SameEvidenceSeen DEF DecidesInv, PathInv, AfterMeta, AfterGate
    <2>2. Blames("Audited")
        BY <1>3 DEF Blames
    <2>3. EndInv'
        BY <1>1, <2>2, SameAsked DEF EndInv
    <2>4. ~Regular
        BY <1>2 DEF Regular, AuditInv, AuditRequest, Request
    <2>5. ~Regular'
        BY <1>1, <2>4, SameAsked
    <2> QED
        BY <2>1, <2>3, <2>5 DEF DecidesInv
<1>7. AuditInv'
    BY <1>1, <1>2 DEF AuditInv, AuditRequest, Request
<1> QED
    BY <1>1, <1>2, <1>4, <1>5, <1>6, <1>7 DEF ExamInv

\* The audit is over: what it returned is what the evidence made it return.
LEMMA TryKeeps == ASSUME ExamInv, TryUnlock PROVE ExamInv'
<1>1. PICK r \in Requests : Begin(r)
    BY DEF TryUnlock
<1>2. /\ phase = "audit" /\ pc = "done" /\ phase' = "unlock" /\ UNCHANGED <<image, to_go, findings>>
      /\ audited' = IF audited = "Ok" THEN "Ok" ELSE result.tag
    BY DEF TryUnlock
<1>3. SoundInv /\ DecidesInv /\ AuditInv /\ to_go \in BOOLEAN
    BY <1>2 DEF ExamInv
<1>4. SoundInv' /\ DecidesInv'
    BY <1>1, <1>2, <1>3, BeginSound, BeginDecides, EvidenceAssumption DEF SoundInv, CopyInv
<1>5. result.tag # "pending" /\ Blames(result.tag)
    BY <1>2, <1>3 DEF DecidesInv, EndInv
<1>6. /\ audited' \in {"Ok", "Io", "NotBitLocker", "NoValidMetadata"}
      /\ audited' # "Ok" => audited' = result.tag
      /\ audited' = "Ok" <=> audited = "Ok"
    BY <1>2, <1>3, <1>5 DEF AuditInv
<1>7. AuditedInv'
    <2>1. volume_header' = volume_header /\ SignedCopies' = SignedCopies
        BY <1>2, SameEvidenceSeen DEF volume_header
    <2>2. request' \in Requests
        BY <1>1 DEF Begin
    <2> QED
        BY <1>5, <1>6, <2>1, <2>2 DEF AuditedInv, Blames
<1> QED
    BY <1>2, <1>3, <1>4, <1>6, <1>7, FindingsKept DEF ExamInv

\* Unlocking does not touch what the audit left.
LEMMA UnlockKeeps ==
    ASSUME ExamInv, UnlockStep \/ UNCHANGED examVars
    PROVE  ExamInv'
<1>1. SoundInv /\ DecidesInv
    BY DEF ExamInv
<1>2. SoundInv' /\ DecidesInv'
    BY <1>1, StepSound, StutterSound, StepDecides, StutterDecides DEF UnlockStep, examVars
<1>3. image' = image /\ request' = request /\ UNCHANGED <<phase, to_go, findings, audited>>
    BY StepTypes DEF UnlockStep, examVars, unlockVars, attemptVars, auditVars
<1>4. volume_header' = volume_header /\ SignedCopies' = SignedCopies
    BY <1>3, SameEvidenceSeen DEF volume_header
<1>5. phase' = "unlock" => AuditedInv'
    BY <1>3, <1>4 DEF ExamInv, AuditedInv
<1>6. phase' = "audit" => AuditInv'
    <2>1. phase = "audit" => pc' = pc /\ result' = result
        BY DEF UnlockStep, examVars, unlockVars, attemptVars
    <2> QED
        BY <1>3, <1>4, <2>1 DEF ExamInv, AuditInv, AuditRequest, Request, IsToGo
<1> QED
    BY <1>2, <1>3, <1>5, <1>6, FindingsKept DEF ExamInv

LEMMA ExamInvariant == ExamSpec => []ExamInv
<1>1. ExamInit => ExamInv
    <2> SUFFICES ASSUME ExamInit PROVE ExamInv
        OBVIOUS
    <2>1. /\ image \in Images /\ Attempt(AuditRequest) /\ AuditRequest.call = "audit"
          /\ phase = "audit" /\ to_go = FALSE /\ findings = <<>> /\ audited = "pending"
        BY DEF ExamInit, AuditRequest, Request
    <2>2. SoundInv /\ DecidesInv
        BY <2>1, StartSound, StartDecides, EvidenceAssumption
    <2>3. AuditInv
        BY <2>1, PendingTag DEF Attempt, AuditInv
    <2> QED
        BY <2>1, <2>2, <2>3 DEF ExamInv
<1>2. ExamInv /\ [ExamNext]_examVars => ExamInv'
    BY HeaderKeeps, ReadsKeep, ReportKeeps, TryKeeps, UnlockKeeps DEF ExamNext
<1> QED
    BY <1>1, <1>2, PTL DEF ExamSpec

\* For every evidence: the audit publishes exactly the protectors of the first
\* signed copy, a clear key exactly if there is one of that type, and the layout
\* of the header.
THEOREM FindingsAreOfFirstCopy == ExamSpec => []FindingsDescribeFirstCopy
<1>1. ExamInv => FindingsDescribeFirstCopy
    <2> SUFFICES ASSUME ExamInv, audited = "Ok" PROVE FindingsDescribeFirstCopy
        BY DEF FindingsDescribeFirstCopy
    <2>1. SignedCopies # {} /\ Reports(findings, FirstSigned, IsToGo) /\ IsEvidence(image)
        BY DEF ExamInv, SoundInv, CopyInv
    <2>2. IsEntries(FirstSigned.entries)
        BY <2>1, SignedEntries
    <2>3. \A e \in Range(FirstSigned.entries) : protection_type(e) \in U16
        <3>1. 0 \in U16
            BY DEF U16
        <3> QED
            BY <2>2, <3>1 DEF protection_type, Field, IsEntries
    <2>4. \A t : HasType(FirstSigned, t) <=> \E e \in FirstVmks : protection_type(e) = t
        BY DEF HasType, FirstVmks
    <2>5. ASSUME NEW x \in Inventory
          PROVE  x \in {Hex4(protection_type(e)) : e \in FirstVmks}
        <3>1. PICK f \in Range(findings) :
                 f.code = "BDE-PROTECTOR-INVENTORY" /\ x = f.evidence[2]
            BY DEF Inventory
        <3>2. PICK t \in U16 : f.evidence = <<"protector_type", Hex4(t)>>
            BY <2>1, <3>1 DEF Reports
        <3>3. HasType(FirstSigned, t)
            BY <2>1, <3>1, <3>2 DEF Reports
        <3>4. x = Hex4(t)
            BY <3>1, <3>2
        <3> QED
            BY <2>4, <3>3, <3>4
    <2>6. ASSUME NEW e \in FirstVmks PROVE Hex4(protection_type(e)) \in Inventory
        <3> DEFINE t == protection_type(e)
        <3>1. t \in U16 /\ HasType(FirstSigned, t)
            BY <2>3, <2>4 DEF FirstVmks
        <3> HIDE DEF t
        <3>2. PICK f \in Range(findings) : /\ f.code = "BDE-PROTECTOR-INVENTORY"
                                           /\ f.evidence = <<"protector_type", Hex4(t)>>
            BY <2>1, <3>1 DEF Reports
        <3>3. f.evidence[2] = Hex4(t)
            BY <3>2
        <3> QED
            BY <3>2, <3>3 DEF Inventory, t
    <2>7. Inventory = {Hex4(protection_type(e)) : e \in FirstVmks}
        BY <2>5, <2>6
    <2>8. Published("BDE-CLEAR-KEY-PRESENT") <=> \E e \in FirstVmks : protection_type(e) = 0
        BY <2>1, <2>4 DEF Reports, Published, PROT_CLEAR_KEY
    <2>9. Published("BDE-TO-GO") <=> volume_header.variant = "BitLockerToGo"
        BY <2>1 DEF Reports, Published, IsToGo
    <2> QED
        BY <2>1, <2>7, <2>8, <2>9 DEF FindingsDescribeFirstCopy
<1> QED
    BY <1>1, ExamInvariant, PTL

\* A call that has found its protector, or got a volume from it, has one.
LEMMA ProtectorUsed ==
    ASSUME SoundInv, pc \in {"unwrap", "vmk", "fvek", "end"} \/ result.tag = "Ok"
    PROVE  HasProtector(FirstSigned, request)
<1>1. meta = FirstSigned
    BY DEF SoundInv, CopyInv, AfterMeta, AfterGate, UnlockIsSound
<1>2. CASE pc \in {"unwrap", "vmk"}
    BY <1>1, <1>2 DEF SoundInv, KeyInv, HasProtector
<1>3. ASSUME OpenedVmks(meta, request) # {} PROVE HasProtector(FirstSigned, request)
    BY <1>1, <1>3, InOpenedVmks DEF HasProtector
<1>4. CASE pc = "fvek"
    BY <1>3, <1>4 DEF SoundInv, KeyInv
<1>5. CASE pc = "end" \/ result.tag = "Ok"
    <2>1. OpenedFveks(meta, request) # {}
        BY <1>5 DEF SoundInv, KeyInv, UnlockIsSound
    <2> QED
        BY <1>3, <2>1, InOpenedFveks
<1> QED
    BY <1>2, <1>4, <1>5

\* The types of protector a call asks for are u16.
LEMMA AskedTypes ==
    ASSUME request.call \in {"password", "recovery", "clear", "startup"}
    PROVE  ProtectorType(request) \in U16
<1>1. ProtectorType(request) \in {PROTECTION_PASSWORD, PROTECTION_RECOVERY, PROTECTION_CLEAR,
                                  PROTECTION_STARTUP_KEY}
    BY DEF ProtectorType
<1> QED
    BY <1>1 DEF PROTECTION_PASSWORD, PROTECTION_RECOVERY, PROTECTION_CLEAR, PROTECTION_STARTUP_KEY, U16

\* For every evidence and credential: unlocking misses a protector exactly if the
\* inventory the auditor published has none of its type.
THEOREM InventoryHolds == ExamSpec => []InventoryMatchesUnlock
<1>1. ExamInv => InventoryMatchesUnlock
    <2> SUFFICES ASSUME ExamInv, phase = "unlock", audited = "Ok" PROVE InventoryMatchesUnlock
        BY DEF InventoryMatchesUnlock
    <2>1. SoundInv /\ DecidesInv /\ request \in Requests /\ Reports(findings, FirstSigned, IsToGo)
        BY DEF ExamInv, AuditedInv
    <2>2. ProtectorType(request) \in U16
        BY <2>1, AskedTypes, EvidenceAssumption
    <2>3. Listed(ProtectorType(request)) <=> HasProtector(FirstSigned, request)
        BY <2>1, <2>2 DEF Reports, Listed, HasProtector, HasType
    <2>4. result.tag = "NoUnlockProtector" => ~HasProtector(FirstSigned, request)
        BY <2>1 DEF DecidesInv, EndInv, Blames
    <2>5. pc \in {"unwrap", "vmk", "fvek", "end"} \/ result.tag = "Ok" =>
             HasProtector(FirstSigned, request)
        BY <2>1, ProtectorUsed
    <2> QED
        BY <2>3, <2>4, <2>5 DEF InventoryMatchesUnlock, Unlocked
<1> QED
    BY <1>1, ExamInvariant, PTL

\* The auditor's table of strong methods is that of the methods decrypted with XTS.
LEMMA SameTable ==
    ASSUME NEW raw \in {32768, 32770, 32771, 32772, 32773}
    PROVE  ~is_aes_xts(raw) <=> validated_kind(decode(raw)) \notin {"Xts128", "Xts256"}
    BY DEF is_aes_xts, validated_kind, decode, DecodeUpTo

\* For every evidence and credential: a volume that opens without a credential
\* was graded High, and one that opens was flagged as weak exactly if its cipher
\* is not XTS.
THEOREM GradesHold == ExamSpec => []GradesMatchUnlock
<1>1. ExamInv => GradesMatchUnlock
    <2> SUFFICES ASSUME ExamInv, audited = "Ok", phase = "unlock", result.tag = "Ok"
                 PROVE  GradesMatchUnlock
        BY DEF GradesMatchUnlock, Unlocked
    <2>1. SoundInv /\ DecidesInv /\ Reports(findings, FirstSigned, IsToGo)
        BY DEF ExamInv
    <2>2. /\ FirstSigned.encryption_method \in {32768, 32770, 32771, 32772, 32773}
          /\ result.cipher.kind = validated_kind(decode(FirstSigned.encryption_method))
        BY <2>1 DEF SoundInv, UnlockIsSound, UnlockedIsEncrypted, DecidesInv, EndInv
    <2>3. Published("BDE-WEAK-CIPHER") <=> ~is_aes_xts(FirstSigned.encryption_method)
        BY <2>1 DEF Reports, Published
    <2>4. ~is_aes_xts(FirstSigned.encryption_method) <=> result.cipher.kind \notin {"Xts128", "Xts256"}
        BY <2>2, SameTable
    <2>5. request.call = "clear" => HasType(FirstSigned, PROT_CLEAR_KEY)
        <3>1. request.call = "clear" => HasType(FirstSigned, PROTECTION_CLEAR)
            BY <2>1, ProtectorUsed DEF HasProtector, HasType, ProtectorType
        <3> QED
            BY <3>1 DEF PROTECTION_CLEAR, PROT_CLEAR_KEY
    <2> QED
        BY <2>1, <2>3, <2>4, <2>5 DEF GradesMatchUnlock, Reports
<1> QED
    BY <1>1, ExamInvariant, PTL

\* For every evidence and credential: what the auditor rejects, unlocking does
\* not accept, and it says the same of it.
THEOREM EvidenceIsTheSame == ExamSpec => []SameEvidence
<1>1. ExamInv => SameEvidence
    <2> SUFFICES ASSUME ExamInv, audited \in {"NotBitLocker", "NoValidMetadata"}, phase = "unlock",
                        pc = "done"
                 PROVE  result.tag \in Unread \cup {audited}
        BY DEF SameEvidence, Unread
    <2>1. DecidesInv /\ AuditedInv
        BY DEF ExamInv
    <2>2. Blames(result.tag)
        BY <2>1 DEF DecidesInv, EndInv
    <2> QED
        BY <2>1, <2>2 DEF AuditedInv, Blames
<1> QED
    BY <1>1, ExamInvariant, PTL
=============================================================================
