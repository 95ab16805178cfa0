-------------------------- MODULE MCBitlockerSource --------------------------
(* Two threads over images of a few two-byte sectors. *)
EXTENDS BitlockerSource

MCImage(a) == <<"stored", a>>
MCDecrypt(ct, p, j) == <<"decrypted", p, ct, j>>
MCZero == <<"zero", 0>>
MCStale == <<"stale", 0>>

Geometry(total, evs, vho, vhs, offset) ==
    [total_size |-> total, encryption_method |-> 32770, encrypted_volume_size |-> evs,
     volume_header_offset |-> vho, volume_header_size |-> vhs,
     metadata_offsets |-> [k \in MetadataCopies |-> IF k = 1 THEN offset ELSE 0],
     metadata_size |-> 2]

\* An image that ends in mid-sector, and one with a plaintext tail; both with
\* the header relocated and one metadata block blanked.
MCVolumes == {Geometry(7, 0, 4, 2, 2), Geometry(8, 6, 4, 3, 2)}
MCOffsets == {1, 4, 7}
MCLens == {2, 5}
=============================================================================
