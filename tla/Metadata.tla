------------------------------ MODULE Metadata ------------------------------
(***************************************************************************)
(* FVE metadata blocks and their entries, as the unlock path, the read     *)
(* path and the auditor look at them.                                      *)
(*                                                                         *)
(* Keys, salts and ciphertexts are symbolic: a sealed container opens with *)
(* the key it was sealed under and with no other.  Lengths are kept, since *)
(* every field is read through a bounds check that yields 0 when the data  *)
(* ends before it, and entries end where the data does.                    *)
(***************************************************************************)
EXTENDS VolumeHeader, FiniteSets, Sequences

ENTRY_TYPE_VMK == 2
ENTRY_TYPE_FVEK == 3
ENTRY_TYPE_VOLUME_HEADER == 15
VALUE_TYPE_KEY == 1
VALUE_TYPE_STRETCH == 3
VALUE_TYPE_AES_CCM == 5
VALUE_TYPE_VMK == 8
VALUE_TYPE_EXTERNAL_KEY == 9
PROTECTION_CLEAR == 0
PROTECTION_STARTUP_KEY == 512
PROTECTION_RECOVERY == 2048
PROTECTION_PASSWORD == 8192

(***************************************************************************)
(* An entry is its types, the length of its data and what the data holds:  *)
(* the protection type of a VMK, nested entries, a key, a salt or a sealed *)
(* container, or where the volume header is and how long it is.            *)
(***************************************************************************)
Entry(entry_type, value_type, len, protection, nested, content) ==
    [entry_type |-> entry_type, value_type |-> value_type, len |-> len,
     protection |-> protection, nested |-> nested, content |-> content]

is_vmk(e) == e.entry_type = ENTRY_TYPE_VMK /\ e.value_type = VALUE_TYPE_VMK

protection_type(e) == Field(e.len, 26, 2, e.protection)

\* Where the n-th entry ends: each is a header of 8 bytes and its data.
Extent(entries, n) ==
    LET end[i \in 0..n] == IF i = 0 THEN 0 ELSE end[i - 1] + 8 + entries[i].len
    IN  end[n]

\* Whole entries only: the first that runs past the end of the data is dropped
\* with all that follow it.
parse_sequence(entries, room) ==
    LET whole == {n \in DOMAIN entries : Extent(entries, n) =< room}
    IN  SubSeq(entries, 1, Cardinality(whole))

\* The nested entries behind a fixed part of the data.
nested(e, offset) == parse_sequence(e.nested, e.len - offset)

\* The position of the first entry with a property, 0 if there is none: find().
Find(entries, Test(_)) ==
    LET found == {i \in 1..Len(entries) : Test(entries[i])}
    IN  IF found # {} THEN Min(found) ELSE 0

(***************************************************************************)
(* A block as found on disk: whether it begins with the signature, how     *)
(* many of its bytes could be read, and what its fields say.  `regions` is *)
(* the geometry in the block header: the encrypted bytes, the sectors and  *)
(* the offset of the relocated volume header, and the three blocks.        *)
(***************************************************************************)
Block(signed, len, method, size, entries, regions) ==
    [signed |-> signed, len |-> len, method |-> method, metadata_size |-> size,
     entries |-> entries, regions |-> regions]

Geometry(encrypted, sectors, header_offset, offsets) ==
    [encrypted |-> encrypted, sectors |-> sectors, header_offset |-> header_offset,
     offsets |-> offsets]

\* The entries begin at 112 and end where the metadata or the block does.
EntriesOf(block) ==
    parse_sequence(block.entries, Min({64 + Field(block.len, 64, 4, block.metadata_size), block.len}) - 112)

\* Offset and size of the relocated volume header: the entry of type 0x000f
\* where it has them, the block header otherwise.
RelocatedHeader(block, bytes) ==
    LET es == EntriesOf(block)
        i == Find(es, LAMBDA e : e.entry_type = ENTRY_TYPE_VOLUME_HEADER)
        Own(k) == IF i = 0 THEN 0 ELSE Field(es[i].len, 8 * (k - 1), 8, es[i].content[k])
        Or(a, b) == IF a # 0 THEN a ELSE b
    IN  <<Or(Own(1), Field(block.len, 56, 8, block.regions.header_offset)),
          Or(Own(2), Field(block.len, 28, 4, block.regions.sectors) * bytes)>>

\* FveMetadata::parse, of a signed block; the GUID and the creation time, which
\* nothing depends on, are left out.
Parse(block, bytes) ==
    [encryption_method |-> Field(block.len, 100, 2, block.method),
     entries |-> EntriesOf(block),
     encrypted_volume_size |-> Field(block.len, 16, 8, block.regions.encrypted),
     volume_header_offset |-> RelocatedHeader(block, bytes)[1],
     volume_header_size |-> RelocatedHeader(block, bytes)[2],
     metadata_offsets |-> [k \in 1..3 |-> Field(block.len, 24 + 8 * k, 8, block.regions.offsets[k])],
     metadata_size |-> Field(block.len, 64, 4, block.metadata_size)]

\* Sequences one after the other.
Flatten(ss) ==
    LET upto[i \in 0..Len(ss)] == IF i = 0 THEN <<>> ELSE upto[i - 1] \o ss[i]
    IN  upto[Len(ss)]

vmk_entries(m) ==
    Flatten([i \in DOMAIN m.entries |->
                IF is_vmk(m.entries[i]) THEN <<m.entries[i]>> ELSE <<>>])

protector_types(m) == [i \in DOMAIN vmk_entries(m) |-> protection_type(vmk_entries(m)[i])]

fvek_entry(m) ==
    Find(m.entries, LAMBDA e : /\ e.entry_type = ENTRY_TYPE_FVEK
                               /\ e.value_type = VALUE_TYPE_AES_CCM)

-----------------------------------------------------------------------------
(* Credentials: symbolic hashes, each injective and apart from the others. *)

password_hash(password) == <<"password", password>>
recovery_key_hash(recovery) == <<"recovery", recovery>>
stretch_key(key_hash, salt) == key_hash \o salt

-----------------------------------------------------------------------------
(* AES-CCM key containers. *)

\* nonce, tag and ciphertext of a container with `len` bytes holding `key`.
aes_ccm_wrap(under, key, len) == [under |-> under, key |-> key, len |-> len]

\* The tag verifies under the sealing key; 28 bytes of nonce and tag precede
\* the ciphertext.
aes_ccm_unwrap(key, e) == e.len >= 28 /\ e.content.under = key

\* take_key16, take_key32, take_key64: the key at `off`, if it is all there.
Holds(len, off, n) == off + n =< len
=============================================================================
