---------------------------- MODULE MCEntryParser ----------------------------
(* Entry headers of two bytes in buffers of up to six. *)
EXTENDS EntryParser

MCLens == 0..6
MCSizes == {0, 2, 3, 9}
MCClaims == {0, 2, 3, 4, 8}
=============================================================================
