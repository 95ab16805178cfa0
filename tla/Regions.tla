------------------------------- MODULE Regions -------------------------------
(***************************************************************************)
(* Where a logical sector is found: the branches of decrypt_logical_sector *)
(* on the geometry of the volume.  `v` is any record with the fields of    *)
(* FveMetadata that give the geometry and the method.                      *)
(***************************************************************************)
EXTENDS Bytes

METHOD_NONE == 0
MetadataCopies == 1..3

\* metadata_offsets: any of the three regions, by the sector's first byte.
Blanked(v, s) ==
    \E k \in MetadataCopies :
        LET m == v.metadata_offsets[k]
        IN  m # 0 /\ s >= m /\ s < Add64(m, v.metadata_size)

\* The relocated volume header is read where it was moved to.
Physical(v, s) ==
    IF s < v.volume_header_size THEN Add64(v.volume_header_offset, s) ELSE s

\* No decryption: of a volume without encryption, and past its encrypted part.
StoredAsPlaintext(v, p) ==
    \/ v.encryption_method = METHOD_NONE
    \/ v.encrypted_volume_size # 0 /\ p >= v.encrypted_volume_size
=============================================================================
