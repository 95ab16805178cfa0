----------------------------- MODULE VolumeHeader -----------------------------
(***************************************************************************)
(* VolumeHeader::parse.  A sector is its signature, whether it begins with *)
(* the boot entry of Windows 7, and the integers at the offsets any of the *)
(* three layouts looks at; all of them are there in every sector, whatever *)
(* its layout.  read_fill is a read_exact: evidence shorter than a sector  *)
(* is an error of the reader, ReaderFails in Unlock and AuditHeaderFails   *)
(* in Audit, and never parsed.  The GUID, which nothing depends on, is     *)
(* left out.                                                               *)
(* A name with a suffix, as in VistaBlock1_Wraps, is a plausible mistake   *)
(* in the operator before the underscore.                                  *)
(***************************************************************************)
EXTENDS Bytes

SIG_FVE == "-FVE-FS-"
SIG_TO_GO == "MSWIN4.1"

\* Where the u64 fields are: Vista's cluster number, and three block offsets
\* each of Windows 7 and of BitLocker To Go.
HeaderWords == {56, 176, 184, 192, 440, 448, 456}

HeaderSector(signature, boot_win7, bytes, sectors, words) ==
    [signature |-> signature, boot_win7 |-> boot_win7, bytes_per_sector |-> bytes,
     sectors_per_cluster |-> sectors, words |-> words]

bytes_per_sector(s) == IF s.bytes_per_sector = 0 THEN 512 ELSE s.bytes_per_sector

cluster_size(s) == bytes_per_sector(s) * Max({s.sectors_per_cluster, 1})

VistaBlock1_Wraps(s) == (s.words[56] * cluster_size(s)) % U64

\* A cluster number times the cluster size.
VistaBlock1(s) == saturating_mul(s.words[56], cluster_size(s))

\* Err(NotBitLocker) is the variant "none".
ParseHeader(s) ==
    LET Header(variant, offsets) ==
            [variant |-> variant, bytes_per_sector |-> bytes_per_sector(s),
             fve_metadata_offsets |-> offsets]
    IN  CASE s.signature = SIG_TO_GO ->
               Header("BitLockerToGo", <<s.words[440], s.words[448], s.words[456]>>)
          [] s.signature = SIG_FVE /\ s.boot_win7 ->
               Header("Windows7OrLater", <<s.words[176], s.words[184], s.words[192]>>)
          [] s.signature = SIG_FVE /\ ~s.boot_win7 ->
               Header("WindowsVista", <<VistaBlock1(s), 0, 0>>)
          [] OTHER -> Header("none", <<0, 0, 0>>)
=============================================================================
