------------------------------- MODULE Session -------------------------------
(***************************************************************************)
(* From the evidence to the plaintext: a volume is written, one of its     *)
(* credentials unlocks it, and sectors are read back.  Unlock's call, the  *)
(* regions of the read path and the sector ciphers work here on one image; *)
(* where the geometry and the keys come from is the metadata the call has  *)
(* parsed, while the image was laid out from `truth`, which the reader     *)
(* never sees.                                                             *)
(* A name with a suffix is a plausible mistake in the operator before the  *)
(* underscore.                                                             *)
(***************************************************************************)
EXTENDS Unlock, Writer, Regions, SectorCipher

CONSTANTS
    Truths,       \* the volumes written
    BlockCount,   \* AES blocks in a sector, 32 in the code
    ReadSectors   \* the sectors asked for: multiples of 512

(***************************************************************************)
(* A truth is how a volume is laid out and encrypted: the signature and    *)
(* the boot entry of its layout, the sector size its BPB states, its       *)
(* method, the extent of encryption, the relocated header, the copies of   *)
(* the metadata, those of them that are lost, and whether the place of the *)
(* header is given by an entry, wholly or in part, or by the block header. *)
(***************************************************************************)
VARIABLE got  \* the sector read last: its address and its content

sessionVars == <<unlockVars, got>>

NoData == [sector |-> 0, tag |-> "none", data |-> <<>>]
ZeroData == [i \in 1..BlockCount |-> {}]

-----------------------------------------------------------------------------
(* The volume on disk. *)

\* The plaintext of the volume, every block of it different.
Original(s) == [i \in 1..BlockCount |-> {<<"plain", s, i>>}]

InHeaderCopy(t, p) == t.header_offset =< p /\ p < t.header_offset + t.header_size

\* What is kept at a physical sector: the relocated header, or the sector itself.
Content(t, p) == Original(IF InHeaderCopy(t, p) THEN p - t.header_offset ELSE p)

\* The keys each method is used with, and where its container has them.
WriterCipher(t) ==
    LET c == TheFvek
    IN  CASE t.method = 32768 -> new(Slice(c, 12, 16), Slice(c, 44, 16))
          [] t.method = 32770 -> new_cbc(Slice(c, 12, 16))
          [] t.method = 32771 -> new_cbc256(Slice(c, 12, 32))
          [] t.method = 32772 -> new_xts128(Slice(c, 12, 32))
          [] t.method = 32773 -> new_xts256(Slice(c, 12, 64))

Disk(t, p) ==
    IF t.encrypted # 0 /\ p >= t.encrypted THEN Content(t, p)
    ELSE encrypt_sector(WriterCipher(t), Content(t, p), p)

WrittenEntries(t) ==
    (CASE t.place = "entry" -> <<HeaderEntry(t.header_offset, t.header_size)>>
       [] t.place = "offset" -> <<HeaderEntry(t.header_offset, 0)>>
       [] t.place = "block" -> <<>>)
    \o <<PasswordVmk("p1", "s1"), RecoveryVmk("r1", "s2"), ClearVmk("k0"), StartupVmk("k1"),
         FvekEntry(76)>>

\* The block header counts the relocated sectors, of 512 bytes each.
WrittenBlock(t) ==
    WholeBlock(t.method, WrittenEntries(t),
               Geometry(t.encrypted, t.header_size \div 512,
                        IF t.place = "offset" THEN 0 ELSE t.header_offset, t.offsets))

Written(t) ==
    [header |-> WrittenHeader(t.signature, t.win7, t.bytes, 1, t.offsets),
     blocks |-> [o \in {t.offsets[k] : k \in 1..3} |->
                    [WrittenBlock(t) EXCEPT !.signed = \E k \in 1..3 \ t.lost : t.offsets[k] = o]],
     truth |-> t]

WrittenImages == {Written(t) : t \in Truths}

\* A volume that is written lies below 2^64 with its metadata and its header, the
\* header a number of whole sectors, and no metadata at 0, where the volume
\* begins.  Other evidence has no truth.
ASSUME VolumesAssumption ==
    /\ BlockCount \in Nat \ {0}
    /\ \A s \in ReadSectors : s \in Nat /\ s % 512 = 0
    /\ \A i \in Images : "truth" \notin DOMAIN i
    /\ \A t \in Truths :
          /\ t.bytes \in Nat \ {0} /\ t.method \in Nat /\ t.encrypted \in Nat
          /\ t.header_offset \in Nat /\ t.header_size \in Nat
          /\ t.header_size % 512 = 0 /\ t.header_offset + t.header_size =< U64
          /\ t.place \in {"entry", "offset", "block"}
          /\ \A k \in 1..3 : /\ t.offsets[k] \in Nat \ {0}
                             /\ t.offsets[k] + WrittenBlock(t).metadata_size < U64

-----------------------------------------------------------------------------
(* Besides the volumes written here, those of Images are unlocked: evidence *)
(* of which only header and metadata are given, so that nothing is read.    *)

IsWritten == "truth" \in DOMAIN image

SessionInit == /\ image \in Images \cup WrittenImages
               /\ \E r \in Requests : Attempt(r)
               /\ got = NoData

UnlockStep == Step /\ UNCHANGED got

\* The end of derive_cipher: the slices of the container for the kind.
derive_cipher(k, container) ==
    CASE k = "Cbc128Diffuser" -> new(Slice(container, 12, 16), Slice(container, 44, 16))
      [] k = "Cbc128" -> new_cbc(Slice(container, 12, 16))
      [] k = "Cbc256" -> new_cbc256(Slice(container, 12, 32))
      [] k = "Xts128" -> new_xts128(Slice(container, 12, 32))
      [] k = "Xts256" -> new_xts256(Slice(container, 12, 64))

cipher == derive_cipher(result.cipher.kind, result.cipher.container)

\* With the geometry the metadata gave; `address` is where the cipher thinks the
\* ciphertext comes from.
Decrypted(s, address) ==
    LET p == Physical(meta, s)
        ct == Disk(image.truth, p)
    IN  IF Blanked(meta, s) THEN ZeroData
        ELSE IF StoredAsPlaintext(meta, p) THEN ct
        ELSE decrypt_sector(cipher, ct, address)

decrypt_logical_sector_LogicalAddress(s) == Decrypted(s, s)
decrypt_logical_sector(s) == Decrypted(s, Physical(meta, s))

\* read_at of one whole sector, and the reader failing in it.
ReadSector(s) ==
    /\ result.tag = "Ok" /\ IsWritten
    /\ got' = [sector |-> s, tag |-> "Ok", data |-> decrypt_logical_sector(s)]
    /\ UNCHANGED unlockVars

SectorFails(s) ==
    /\ result.tag = "Ok" /\ IsWritten /\ ~Blanked(meta, s)
    /\ got' = [NoData EXCEPT !.sector = s, !.tag = "Io"]
    /\ UNCHANGED unlockVars

SessionNext == \/ UnlockStep
               \/ \E s \in ReadSectors : ReadSector(s) \/ SectorFails(s)

\* The call keeps running, whether or not a read fails; what is read afterwards
\* is up to the caller.
SessionSpec == /\ SessionInit /\ [][SessionNext]_sessionVars
               /\ WF_sessionVars(Progress /\ UNCHANGED got)

-----------------------------------------------------------------------------
\* What a sector of the volume reads as: its original content, the metadata as
\* zeros, and the sectors the header was moved to as the header.
AsWritten(t, s) ==
    LET p == IF s < t.header_size THEN t.header_offset + s ELSE s
    IN  IF \E k \in 1..3 : t.offsets[k] =< s /\ s < t.offsets[k] + meta.metadata_size
        THEN ZeroData ELSE Content(t, p)

\* The size of the relocated header, as an entry or else the block header gives it:
\* a number of sectors, which the code takes to be as large as those of the BPB
\* and docs/RESEARCH.md:157-158 as 512 bytes.
ClaimedSize(t) == IF t.place = "entry" THEN t.header_size ELSE (t.header_size \div 512) * t.bytes

\* A sector that is inside the header, or outside, by either reckoning.
GeometryKnown(t, s) == s < t.header_size <=> s < ClaimedSize(t)

\* Whoever opens the volume gets back what was written to it, through any of
\* the protectors, with any of the ciphers, layouts, sector sizes and ways to
\* locate the volume header.  Where the size of the header is in doubt, that is
\* so of every sector but those in doubt.
ReadsBackWhatWasWritten ==
    got.tag = "Ok" /\ GeometryKnown(image.truth, got.sector) => got.data = AsWritten(image.truth, got.sector)

\* A sector is readable at its own address only: ciphertext that is moved, or
\* read from the wrong place, does not decrypt to its content.  Two sectors
\* with the same content are not stored alike.
SectorsAreBoundToAddresses ==
    result.tag = "Ok" /\ IsWritten =>
        \A p, q \in {s \in ReadSectors : ~StoredAsPlaintext(meta, s)} :
           p # q => /\ decrypt_sector(cipher, Disk(image.truth, p), q) # Content(image.truth, p)
                    /\ encrypt_sector(cipher, Original(0), p) # encrypt_sector(cipher, Original(0), q)
=============================================================================
