----------------------------- MODULE VolumeView -----------------------------
(***************************************************************************)
(* What an unlocked BitLocker volume looks like in plaintext.              *)
(*                                                                         *)
(* PlainByte gives the byte every logical address must read back as, in    *)
(* unbounded arithmetic: metadata blocks are blanked, the volume header is *)
(* fetched from where it was relocated to, what lies past the encrypted    *)
(* region is taken as stored, and everything else is decrypted with the    *)
(* physical address as the sector address.  It says nothing of cursors,    *)
(* partial reads or loops; those belong to ReadAt.                         *)
(***************************************************************************)
EXTENDS Regions

CONSTANTS
    SectorSize,       \* SECTOR_SIZE, 512 in the code
    Image(_),         \* the byte the evidence stores at a physical address
    Decrypt(_, _, _), \* Decrypt(ct, physical, j): byte j of decrypt_sector(ct, physical)
    Zero              \* the byte 0

\* An address space is a whole number of sectors (512 divides 2^64).
ASSUME WordAssumption ==
    /\ SectorSize \in Nat \ {0}
    /\ U64 \in Nat \ {0}
    /\ U64 % SectorSize = 0

Word == 0..(U64 - 1)
SectorBytes == 0..(SectorSize - 1)

(***************************************************************************)
(* The fields of DecryptedVolume the read path uses: the image length and  *)
(* the geometry and method taken from the FVE metadata.                    *)
(***************************************************************************)
Volume == [total_size : Word, encryption_method : Nat,
           encrypted_volume_size : Word,
           volume_header_offset : Word, volume_header_size : Word,
           metadata_offsets : [MetadataCopies -> Word], metadata_size : Word]

SectorOf(a) == a - (a % SectorSize)

InMetadata(v, s) ==
    \E k \in MetadataCopies :
        /\ v.metadata_offsets[k] # 0
        /\ v.metadata_offsets[k] =< s
        /\ s < v.metadata_offsets[k] + v.metadata_size

Home(v, s) ==
    IF s < v.volume_header_size THEN v.volume_header_offset + s ELSE s

\* The stored sector at p; what lies beyond the end of the image is zero.
Stored(v, p) ==
    [j \in SectorBytes |-> IF p + j < v.total_size THEN Image(p + j) ELSE Zero]

PlainSector(v, s) ==
    IF InMetadata(v, s) THEN [j \in SectorBytes |-> Zero]
    ELSE IF StoredAsPlaintext(v, Home(v, s)) THEN Stored(v, Home(v, s))
    ELSE [j \in SectorBytes |-> Decrypt(Stored(v, Home(v, s)), Home(v, s), j)]

PlainByte(v, a) == PlainSector(v, SectorOf(a))[a % SectorSize]

PlainBytes(v, offset, len) == [i \in 0..(len - 1) |-> PlainByte(v, offset + i)]

(***************************************************************************)
(* The reads whose address arithmetic stays within u64.  A volume whose    *)
(* metadata or header region ends past 2^64 cannot exist on a disk, but    *)
(* can be claimed by a metadata block.                                     *)
(***************************************************************************)
Fits(v, offset, len) ==
    /\ offset + len =< U64
    /\ v.volume_header_offset + v.volume_header_size =< U64
    /\ \A k \in MetadataCopies : v.metadata_offsets[k] + v.metadata_size < U64
=============================================================================
