------------------------------- MODULE Unlock -------------------------------
(***************************************************************************)
(* One call of BitLockerVolume::unlock_with_password and its siblings:     *)
(* find a metadata block among the three copies, gate the cipher method,   *)
(* open the VMK with the credential and the FVEK with the VMK, and build   *)
(* the sector cipher.  Every read of the evidence may fail.                *)
(*                                                                         *)
(* A read of a header or a block is one step here; the loop that assembles *)
(* it from short reads is read_available, which ReadAt models.             *)
(*                                                                         *)
(* A name with a suffix, such as SkipCopy_Stays, is its namesake with a    *)
(* plausible mistake in it; the specification does not use it.             *)
(***************************************************************************)
EXTENDS Metadata, Method, FiniteSets

CONSTANTS
    Images,   \* the evidence considered: a header and the blocks by position
    Requests  \* the calls considered

(***************************************************************************)
(* A request is the function called, the secret given, whether a recovery  *)
(* password has the right form, and the entries of a startup-key file.     *)
(***************************************************************************)
Request(call, secret, valid, bek) ==
    [call |-> call, secret |-> secret, valid |-> valid, bek |-> bek]

\* Entries are a sequence, and so are the entries nested in one; a protection
\* type is a u16.
IsEntries(s) == /\ s \in Seq(Range(s))
                /\ \A e \in Range(s) : /\ e.nested \in Seq(Range(e.nested))
                                        /\ e.protection \in U16

\* Evidence is a header of integers and, by position, blocks of entries; the
\* signature of a block, 8 bytes, lies below 2^64.
IsEvidence(i) ==
    /\ i.header.bytes_per_sector \in Nat /\ i.header.sectors_per_cluster \in Nat
    /\ \A w \in HeaderWords : i.header.words[w] \in Nat
    /\ \A o \in DOMAIN i.blocks : /\ o \in Nat /\ o + 8 =< U64
                                  /\ IsEntries(i.blocks[o].entries)
                                  /\ i.blocks[o].method \in Nat

ASSUME EvidenceAssumption ==
    /\ U64 \in Nat
    /\ \A i \in Images : IsEvidence(i)
    /\ \A r \in Requests : /\ r.call \in {"password", "recovery", "clear", "startup"}
                           /\ IsEntries(r.bek)

VARIABLES
    image,    \* the evidence; nothing writes to it
    request,  \* the call
    pc,       \* where it is: "call", "header", "copies", "gate", "protector",
              \* "unwrap", "vmk", "fvek", "end" or "done"
    copy,     \* the metadata copy tried next
    meta,     \* the parsed metadata
    kind,     \* the sector cipher kind
    vmk,      \* the VMK entry selected
    key,      \* the key at hand: credential, unwrapping key, VMK or FVEK
    result    \* what the call returns

attemptVars == <<request, pc, copy, meta, kind, vmk, key, result>>
unlockVars == <<image, attemptVars>>

NoMeta == [encryption_method |-> 0, entries |-> <<>>, encrypted_volume_size |-> 0,
           volume_header_offset |-> 0, volume_header_size |-> 0,
           metadata_offsets |-> <<0, 0, 0>>, metadata_size |-> 0]
NoEntry == Entry(0, 0, 0, 0, <<>>, <<>>)
NoKey == <<"none">>
NoCipher == [kind |-> "none", container |-> NoKey]
Pending == [tag |-> "pending", what |-> "", cipher |-> NoCipher]

\* A call that has not begun.
Attempt(r) ==
    /\ request = r /\ pc = "call" /\ copy = 1 /\ meta = NoMeta /\ kind = "none"
    /\ vmk = NoEntry /\ key = NoKey /\ result = Pending

\* The same as a step.
Begin(r) ==
    /\ request' = r /\ pc' = "call" /\ copy' = 1 /\ meta' = NoMeta /\ kind' = "none"
    /\ vmk' = NoEntry /\ key' = NoKey /\ result' = Pending

Init == image \in Images /\ \E r \in Requests : Attempt(r)

\* An early return: the error reaches the caller through unlock's `?`.
Fail(tag, what) ==
    /\ pc' = "done"
    /\ result' = [Pending EXCEPT !.tag = tag, !.what = what]
    /\ UNCHANGED <<image, request, copy, meta, kind, vmk, key>>

Go(next) == pc' = next /\ UNCHANGED <<image, request, result>>

-----------------------------------------------------------------------------
(* The public functions, up to their call of unlock. *)

CallPassword ==
    /\ pc = "call" /\ request.call = "password"
    /\ key' = password_hash(request.secret)
    /\ Go("header") /\ UNCHANGED <<copy, meta, kind, vmk>>

CallRecovery ==
    /\ pc = "call" /\ request.call = "recovery"
    /\ IF ~request.valid THEN Fail("InvalidRecoveryPassword", "")
       ELSE /\ key' = recovery_key_hash(request.secret)
            /\ Go("header") /\ UNCHANGED <<copy, meta, kind, vmk>>

CallClearKey ==
    /\ pc = "call" /\ request.call = "clear"
    /\ Go("header") /\ UNCHANGED <<copy, meta, kind, vmk, key>>

\* The first external-key entry, its first KEY property, and 32 bytes of key at
\* offset 4 of that.
parse_startup_key(bek) ==
    LET Parsed(tag, what, k) == [tag |-> tag, what |-> what, key |-> k]
        i == Find(bek, LAMBDA e : e.value_type = VALUE_TYPE_EXTERNAL_KEY)
        inner == nested(bek[i], 24)
        j == Find(inner, LAMBDA e : e.value_type = VALUE_TYPE_KEY)
    IN  IF i = 0 THEN Parsed("MissingKeyMaterial", "external key", NoKey)
        ELSE IF j = 0 THEN Parsed("MissingKeyMaterial", "external key property", NoKey)
        ELSE IF ~Holds(inner[j].len, 4, 32) THEN Parsed("MalformedKeyContainer", "external key", NoKey)
        ELSE Parsed("Ok", "", inner[j].content)

CallStartupKey ==
    /\ pc = "call" /\ request.call = "startup"
    /\ LET p == parse_startup_key(request.bek)
       IN  IF p.tag # "Ok" THEN Fail(p.tag, p.what)
           ELSE key' = p.key /\ Go("header") /\ UNCHANGED <<copy, meta, kind, vmk>>

ProtectorType(r) ==
    CASE r.call = "password" -> PROTECTION_PASSWORD
      [] r.call = "recovery" -> PROTECTION_RECOVERY
      [] r.call = "clear" -> PROTECTION_CLEAR
      [] r.call = "startup" -> PROTECTION_STARTUP_KEY

-----------------------------------------------------------------------------
(* read_metadata. *)

volume_header == ParseHeader(image.header)
Offsets == volume_header.fve_metadata_offsets

ReadHeader ==
    /\ pc = "header"
    /\ IF volume_header.variant = "none" THEN Fail("NotBitLocker", "")
       ELSE Go("copies") /\ UNCHANGED <<copy, meta, kind, vmk, key>>

\* Past the end of the evidence there is nothing to read.
BlockAt(offset) ==
    IF offset \in DOMAIN image.blocks THEN image.blocks[offset]
    ELSE Block(FALSE, 0, 0, 0, <<>>, Geometry(0, 0, 0, <<0, 0, 0>>))

SkipCopy_Stays ==
    /\ pc = "copies" /\ copy =< 3 /\ Offsets[copy] = 0
    /\ Go("copies") /\ UNCHANGED <<copy, meta, kind, vmk, key>>

SkipCopy ==
    /\ pc = "copies" /\ copy =< 3 /\ Offsets[copy] = 0
    /\ copy' = copy + 1
    /\ Go("copies") /\ UNCHANGED <<meta, kind, vmk, key>>

\* A block is read and taken if it is signed; `next` is the copy to try if not.
TakeCopyOr(next) ==
    /\ pc = "copies" /\ copy =< 3 /\ Offsets[copy] # 0
    /\ LET block == BlockAt(Offsets[copy])
       IN  IF block.signed
           THEN /\ meta' = Parse(block, volume_header.bytes_per_sector)
                /\ Go("gate") /\ UNCHANGED <<copy, kind, vmk, key>>
           ELSE copy' = next /\ Go("copies") /\ UNCHANGED <<meta, kind, vmk, key>>

ReadCopy_WantsEntries ==
    /\ pc = "copies" /\ copy =< 3 /\ Offsets[copy] # 0
    /\ LET block == BlockAt(Offsets[copy])
       IN  IF block.signed /\ EntriesOf(block) # <<>>
           THEN /\ meta' = Parse(block, volume_header.bytes_per_sector)
                /\ Go("gate") /\ UNCHANGED <<copy, kind, vmk, key>>
           ELSE copy' = copy + 1 /\ Go("copies") /\ UNCHANGED <<meta, kind, vmk, key>>

ReadCopy_FirstOnly == TakeCopyOr(4)
ReadCopy_SkipsOne == TakeCopyOr(copy + 2)
ReadCopy == TakeCopyOr(copy + 1)

NoCopyLeft ==
    /\ pc = "copies" /\ copy > 3
    /\ Fail("NoValidMetadata", "")

-----------------------------------------------------------------------------
(* unlock and derive_cipher. *)

GateMethod ==
    /\ pc = "gate"
    /\ LET m == decode(meta.encryption_method)
       IN  IF m = NoMethod THEN Fail("UnsupportedEncryptionMethod", "")
           ELSE IF validated_kind(m) = "none" THEN Fail("UnvalidatedEncryptionMethod", "")
           ELSE kind' = validated_kind(m) /\ Go("protector") /\ UNCHANGED <<copy, meta, vmk, key>>

FindProtector ==
    /\ pc = "protector"
    /\ LET i == Find(meta.entries,
                     LAMBDA e : is_vmk(e) /\ protection_type(e) = ProtectorType(request))
       IN  IF i = 0 THEN Fail("NoUnlockProtector", "")
           ELSE vmk' = meta.entries[i] /\ Go("unwrap") /\ UNCHANGED <<copy, meta, kind, key>>

Props(v) == nested(v, 28)
Prop(v, value_type) == Find(Props(v), LAMBDA e : e.value_type = value_type)

\* The key that opens the VMK: the credential stretched with the salt, the
\* stored clear key, or the external key as it is.
ObtainUnwrapKey ==
    /\ pc = "unwrap"
    /\ LET s == Prop(vmk, VALUE_TYPE_STRETCH)
           c == Prop(vmk, VALUE_TYPE_KEY)
       IN  IF Prop(vmk, VALUE_TYPE_AES_CCM) = 0
           THEN Fail("MissingKeyMaterial", "VMK AES-CCM key")
           ELSE \/ /\ request.call \in {"password", "recovery"}
                   /\ IF s = 0 THEN Fail("MissingKeyMaterial", "stretch key")
                      ELSE IF ~Holds(Props(vmk)[s].len, 4, 16)
                      THEN Fail("MissingKeyMaterial", "stretch salt")
                      ELSE /\ key' = stretch_key(key, Props(vmk)[s].content)
                           /\ Go("vmk") /\ UNCHANGED <<copy, meta, kind, vmk>>
                \/ /\ request.call = "clear"
                   /\ IF c = 0 THEN Fail("MissingKeyMaterial", "clear key")
                      ELSE IF ~Holds(Props(vmk)[c].len, 4, 32)
                      THEN Fail("MalformedKeyContainer", "clear")
                      ELSE /\ key' = Props(vmk)[c].content
                           /\ Go("vmk") /\ UNCHANGED <<copy, meta, kind, vmk>>
                \/ /\ request.call = "startup"
                   /\ Go("vmk") /\ UNCHANGED <<copy, meta, kind, vmk, key>>

OpenVmk_Unauthenticated ==
    /\ pc = "vmk"
    /\ LET e == Props(vmk)[Prop(vmk, VALUE_TYPE_AES_CCM)]
       IN  IF ~Holds(e.content.len, 12, 32)
           THEN Fail("MalformedKeyContainer", "volume master key")
           ELSE key' = e.content.key /\ Go("fvek") /\ UNCHANGED <<copy, meta, kind, vmk>>

OpenVmk ==
    /\ pc = "vmk"
    /\ LET e == Props(vmk)[Prop(vmk, VALUE_TYPE_AES_CCM)]
       IN  IF ~aes_ccm_unwrap(key, e) THEN Fail("AuthenticationFailed", "volume master key")
           ELSE IF ~Holds(e.content.len, 12, 32)
           THEN Fail("MalformedKeyContainer", "volume master key")
           ELSE key' = e.content.key /\ Go("fvek") /\ UNCHANGED <<copy, meta, kind, vmk>>

\* The FVEK container, and the slices of it the kind needs.
OpenFvek ==
    /\ pc = "fvek"
    /\ LET i == fvek_entry(meta)
           container == meta.entries[i].content
       IN  IF i = 0 THEN Fail("MissingKeyMaterial", "FVEK entry")
           ELSE IF ~aes_ccm_unwrap(key, meta.entries[i]) THEN Fail("AuthenticationFailed", "FVEK")
           ELSE IF \/ ~Holds(container.len, 12, FvekLen(kind))
                   \/ TweakLen(kind) # 0 /\ ~Holds(container.len, 44, TweakLen(kind))
           THEN Fail("MalformedKeyContainer", "FVEK")
           ELSE key' = container.key /\ Go("end") /\ UNCHANGED <<copy, meta, kind, vmk>>

\* seek(End(0)) gives total_size; the volume is unlocked.
SeekEnd ==
    /\ pc = "end"
    /\ pc' = "done"
    /\ result' = [tag |-> "Ok", what |-> "",
                  cipher |-> [kind |-> kind, container |-> key]]
    /\ UNCHANGED <<image, request, copy, meta, kind, vmk, key>>

ReaderFails ==
    /\ \/ pc \in {"header", "end"}
       \/ pc = "copies" /\ copy =< 3 /\ Offsets[copy] # 0
    /\ Fail("Io", "")

Progress == \/ CallPassword \/ CallRecovery \/ CallClearKey \/ CallStartupKey
            \/ ReadHeader \/ SkipCopy \/ ReadCopy \/ NoCopyLeft \/ GateMethod
            \/ FindProtector \/ ObtainUnwrapKey \/ OpenVmk \/ OpenFvek \/ SeekEnd

Step == Progress \/ ReaderFails

Spec == Init /\ [][Step]_unlockVars

\* Nothing in the call waits: a caller that keeps running finishes it.  That a
\* read fails is never counted on.
FairSpec == Spec /\ WF_unlockVars(Progress)

-----------------------------------------------------------------------------
(***************************************************************************)
(* What a credential opens, without regard to the order in which entries   *)
(* and copies are searched.                                                *)
(***************************************************************************)
OfType(entries, value_type) == {e \in Range(entries) : e.value_type = value_type}

\* The keys a request can unwrap a VMK with; a malformed recovery password has
\* none.
CredentialKeys(v, r) ==
    CASE r.call \in {"password", "recovery"} ->
           {<<r.call, r.secret>> \o e.content :
              e \in {x \in OfType(Props(v), VALUE_TYPE_STRETCH) :
                       x.len >= 20 /\ (r.call = "recovery" => r.valid)}}
      [] r.call = "clear" ->
           {e.content : e \in {x \in OfType(Props(v), VALUE_TYPE_KEY) : x.len >= 36}}
      [] r.call = "startup" ->
           {e.content : e \in {x \in UNION {OfType(nested(b, 24), VALUE_TYPE_KEY) :
                                              b \in OfType(r.bek, VALUE_TYPE_EXTERNAL_KEY)} :
                                 x.len >= 36}}

\* The VMKs the request opens, and the FVEKs those open.
OpenedVmks(m, r) ==
    UNION {{e.content.key : e \in {x \in OfType(Props(v), VALUE_TYPE_AES_CCM) :
                                     x.len >= 28 /\ x.content.under \in CredentialKeys(v, r)}} :
             v \in {x \in Range(m.entries) : is_vmk(x) /\ protection_type(x) = ProtectorType(r)}}

Fveks(m) == {e \in OfType(m.entries, VALUE_TYPE_AES_CCM) : e.entry_type = ENTRY_TYPE_FVEK}

OpenedFveks(m, r) ==
    {e.content.key : e \in {x \in Fveks(m) : x.len >= 28 /\ x.content.under \in OpenedVmks(m, r)}}

\* Metadata as BitLocker writes it for a volume with at most one protector of
\* a type: every property once and whole, and an FVEK that fits the cipher.
Once(entries, value_type) ==
    \A i, j \in DOMAIN entries :
        entries[i].value_type = value_type /\ entries[j].value_type = value_type => i = j

WellFormed(m) ==
    LET k == validated_kind(decode(m.encryption_method))
    IN  /\ k # "none"
        /\ \A i, j \in DOMAIN m.entries :
              /\ is_vmk(m.entries[i]) /\ is_vmk(m.entries[j])
              /\ protection_type(m.entries[i]) = protection_type(m.entries[j])
              => i = j
        /\ \A v \in {e \in Range(m.entries) : is_vmk(e)} :
              /\ \A t \in {VALUE_TYPE_AES_CCM, VALUE_TYPE_STRETCH, VALUE_TYPE_KEY} : Once(Props(v), t)
              /\ \A e \in Range(Props(v)) :
                    /\ e.value_type = VALUE_TYPE_AES_CCM => e.len >= 28 /\ e.content.len >= 44
                    /\ e.value_type = VALUE_TYPE_STRETCH => e.len >= 20
                    /\ e.value_type = VALUE_TYPE_KEY => e.len >= 36
        /\ \E f \in Fveks(m) : /\ Fveks(m) = {f} /\ f.len >= 28
                               /\ f.content.len >= 12 + FvekLen(k)
                               /\ TweakLen(k) # 0 => f.content.len >= 44 + TweakLen(k)

\* A startup-key file as BitLocker writes it: one external key with one key.
WellFormedBek(bek) ==
    /\ Once(bek, VALUE_TYPE_EXTERNAL_KEY)
    /\ \A b \in OfType(bek, VALUE_TYPE_EXTERNAL_KEY) : Once(nested(b, 24), VALUE_TYPE_KEY)

\* The copies whose block carries the signature, and what the first of them in
\* the order of the header says.
SignedCopies == {c \in 1..3 : Offsets[c] # 0 /\ BlockAt(Offsets[c]).signed}
FirstSigned == Parse(BlockAt(Offsets[Min(SignedCopies)]), volume_header.bytes_per_sector)

-----------------------------------------------------------------------------
\* A call has a result exactly once it is over, and looks at three copies.
TypeOK ==
    /\ request \in Requests
    /\ pc \in {"call", "header", "copies", "gate", "protector", "unwrap", "vmk", "fvek",
               "end", "done"}
    /\ copy \in 1..4
    /\ (pc = "done") = (result.tag # "pending")
    /\ kind \in {"none", "Cbc128Diffuser", "Cbc128", "Cbc256", "Xts128", "Xts256"}

\* An unlocked volume got its key, and its geometry, from one block: the first
\* signed copy.  The credential opened a protector of its own type in it, and
\* that VMK the FVEK the cipher is built from; nothing is made up from a copy
\* that is cut short with the help of another.
UnlockIsSound ==
    result.tag = "Ok" =>
        /\ SignedCopies # {} /\ meta = FirstSigned
        /\ result.cipher.container \in OpenedFveks(meta, request)

\* Losing copies does not matter: as long as the first block that still carries
\* the signature is good, unlocking succeeds exactly for the credentials that
\* open the volume, unless reading the evidence fails.  Only the first external
\* key of a startup-key file is looked at, so a file has to have just one.
UnlockDecides ==
    /\ result.tag \notin {"pending", "Io"}
    /\ volume_header.variant # "none"
    /\ SignedCopies # {} /\ WellFormed(FirstSigned)
    /\ request.call = "startup" => WellFormedBek(request.bek)
    => (result.tag = "Ok" <=> OpenedFveks(FirstSigned, request) # {})

\* A Vista header locates its block by a cluster number.  One that is out of the
\* range of u64 finds no metadata; it never wraps around to another block.
VistaStaysInRange ==
    /\ volume_header.variant = "WindowsVista" /\ meta # NoMeta
    => image.header.words[56] * cluster_size(image.header) < U64

\* A volume that was unlocked is encrypted with one of the five ciphers: the
\* read path's METHOD_NONE case never applies to it.
UnlockedIsEncrypted ==
    result.tag = "Ok" => meta.encryption_method \in {32768, 32770, 32771, 32772, 32773}

\* Every call ends, with a volume or an error.
UnlockEnds == <>(pc = "done")

-----------------------------------------------------------------------------
(***************************************************************************)
(* What the repository says of unlocking and the code does not do.         *)
(***************************************************************************)
\* error.rs:80-81, on AuthenticationFailed: "for a password unlock this means the
\* supplied password is wrong".  Only the first protector of the type is tried.
AuthFailureMeansWrongCredential ==
    /\ request.call = "password"
    /\ result.tag = "AuthenticationFailed" /\ result.what = "volume master key"
    => OpenedVmks(meta, request) = {}
=============================================================================
