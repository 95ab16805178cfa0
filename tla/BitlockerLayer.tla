--------------------------- MODULE BitlockerLayer ---------------------------
(***************************************************************************)
(* BitlockerLayer::open: try each offered credential in turn, every one    *)
(* with a fresh view of the evidence, until one unlocks the volume.  An    *)
(* attempt is the call Unlock models, run to its end.                      *)
(* A name with a suffix, as in AttemptFails_GivesUp, is a plausible        *)
(* mistake in the operator before the underscore.                          *)
(***************************************************************************)
EXTENDS Unlock

CONSTANT Offers  \* the sequences of credentials a source may offer

ASSUME OffersAssumption == \A c \in Offers : c \in Seq(Range(c))

\* Credential::Password and ::RecoveryKey name the call they lead to; the
\* layer wires no other kind.
Wired(c) == c.call \in {"password", "recovery"}

VARIABLES
    cands,    \* the credentials offered
    next,     \* the one to try next
    last_err, \* the result of the last attempt that failed
    outcome,  \* what open returns
    unread    \* history: the credentials whose attempt ended in a read error

layerVars == <<cands, next, last_err, outcome, unread>>
openVars == <<unlockVars, layerVars>>

Outcome(kind_, err, cipher) == [kind |-> kind_, err |-> err, cipher |-> cipher]
Opening == Outcome("opening", Pending, NoCipher)

NoAttempt == Request("none", "", FALSE, <<>>)

\* BitlockerLayer::new took the evidence; open has asked for the candidates.
OpenInit == /\ image \in Images
            /\ Attempt(NoAttempt)
            /\ cands \in Offers
            /\ next = 1
            /\ last_err = Pending
            /\ outcome = Opening
            /\ unread = {}

Running == request # NoAttempt

NothingOffered ==
    /\ outcome = Opening /\ cands = <<>>
    /\ outcome' = Outcome("NeedCredentials", Pending, NoCipher)
    /\ UNCHANGED <<unlockVars, cands, next, last_err, unread>>

SkipUnwired ==
    /\ outcome = Opening /\ ~Running /\ next =< Len(cands)
    /\ ~Wired(cands[next])
    /\ next' = next + 1
    /\ UNCHANGED <<unlockVars, cands, last_err, outcome, unread>>

TryCredential_AnyKind ==
    /\ outcome = Opening /\ ~Running /\ next =< Len(cands)
    /\ UNCHANGED <<image, layerVars>>
    /\ Begin(cands[next])

\* SourceCursor::new and the call: the attempt starts from nothing.
TryCredential ==
    /\ outcome = Opening /\ ~Running /\ next =< Len(cands)
    /\ Wired(cands[next])
    /\ UNCHANGED <<image, layerVars>>
    /\ Begin(cands[next])

AttemptStep == Running /\ Step /\ UNCHANGED layerVars

AttemptUnlocks ==
    /\ outcome = Opening /\ Running /\ result.tag = "Ok"
    /\ outcome' = Outcome("source", Pending, result.cipher)
    /\ UNCHANGED <<unlockVars, cands, next, last_err, unread>>

\* A failed attempt leaves `err` as the last error and goes on with `following`.
FailsThen(err, following) ==
    /\ outcome = Opening /\ Running /\ result.tag \notin {"pending", "Ok"}
    /\ last_err' = err
    /\ unread' = IF result.tag = "Io" THEN unread \cup {next} ELSE unread
    /\ next' = following
    /\ Begin(NoAttempt)
    /\ UNCHANGED <<image, cands, outcome>>

AttemptFails_GivesUp == FailsThen(result, Len(cands) + 1)
AttemptFails_Forgets == FailsThen(last_err, next + 1)
AttemptFails_Repeats == FailsThen(result, next)
AttemptFails == FailsThen(result, next + 1)

\* Every error becomes VfsError::Decode of this layer, with the error as text.
map_bde_err(err) == Outcome("Decode", err, NoCipher)

\* The error is that of the last attempt; earlier ones are gone.
NoneUnlocked ==
    /\ outcome = Opening /\ ~Running /\ cands # <<>> /\ next > Len(cands)
    /\ outcome' = IF last_err = Pending THEN Outcome("NeedCredentials", Pending, NoCipher)
                  ELSE map_bde_err(last_err)
    /\ UNCHANGED <<unlockVars, cands, next, last_err, unread>>

Loop == \/ NothingOffered \/ SkipUnwired \/ TryCredential
        \/ AttemptUnlocks \/ AttemptFails \/ NoneUnlocked

OpenNext == Loop \/ AttemptStep

OpenSpec == OpenInit /\ [][OpenNext]_openVars

\* open runs in one thread and waits for nobody; that a read fails in an attempt
\* is never counted on.
OpenFairSpec == OpenSpec /\ WF_openVars(Loop \/ (AttemptStep /\ Progress))

-----------------------------------------------------------------------------
\* The attempt in progress is of the candidate whose turn it is, and of a kind
\* open wires.
OpenTypeOK ==
    /\ cands \in Offers
    /\ next \in 1..(Len(cands) + 1)
    /\ unread \subseteq 1..(next - 1)
    /\ Running => Wired(request) /\ request = cands[next]
    /\ outcome.kind \in {"opening", "source", "NeedCredentials", "Decode"}

\* The order of the credentials does not matter.  On a well-formed volume, a
\* source is handed out only with a key one of them opens, and none is handed
\* out only if reading the evidence failed for every one that would have.
OpenDecides ==
    /\ outcome # Opening
    /\ volume_header.variant # "none"
    /\ SignedCopies # {} /\ WellFormed(FirstSigned)
    => LET Keys(i) == OpenedFveks(FirstSigned, cands[i])
           wired == {i \in DOMAIN cands : Wired(cands[i])}
       IN  IF outcome.kind = "source"
           THEN \E i \in wired : outcome.cipher.container \in Keys(i)
           ELSE \A i \in wired : Keys(i) # {} => i \in unread

\* The caller is asked for credentials only if none was offered that the layer
\* could try; once one was tried, failing is an error about the volume.
AsksOnlyIfNothingTried ==
    outcome # Opening =>
        (outcome.kind = "NeedCredentials" <=> \A i \in DOMAIN cands : ~Wired(cands[i]))

\* open returns, whatever the credentials and the evidence.
OpenEnds == <>(outcome # Opening)
=============================================================================
