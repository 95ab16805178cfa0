-------------------------- MODULE MCDecryptedVolume --------------------------
(* Sectors of two bytes in an address space of sixteen. *)
EXTENDS DecryptedVolume

MCImage(a) == <<"stored", a>>
MCDecrypt(ct, p, j) == <<"decrypted", p, ct, j>>
MCZero == <<"zero", 0>>
MCStale == <<"stale", 0>>

Copies(a, b, c) == [k \in MetadataCopies |-> CASE k = 1 -> a [] k = 2 -> b [] k = 3 -> c]

Geometry(total, evs, vho, vhs, offsets) ==
    [total_size |-> total, encryption_method |-> 32770, encrypted_volume_size |-> evs,
     volume_header_offset |-> vho, volume_header_size |-> vhs,
     metadata_offsets |-> offsets, metadata_size |-> 2]

\* Images that end on and off a sector boundary, with and without a relocated
\* header and a plaintext tail, and with regions that touch the last address.
MCVolumes ==
    {Geometry(8, 0, 6, 2, Copies(2, 0, 0)),
     Geometry(7, 0, 4, 3, Copies(2, 0, 0)),
     Geometry(7, 6, 6, 2, Copies(4, 0, 2)),
     Geometry(5, 0, 14, 4, Copies(0, 0, 0)),
     Geometry(8, 4, 0, 0, Copies(4, 14, 0)),
     Geometry(8, 0, 0, 0, Copies(0, 0, 14))}
MCOffsets == {0, 1, 3, 15}
MCLens == {0, 2, 5}
MCDeltas == {-1, 1}
=============================================================================
