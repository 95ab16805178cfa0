------------------------------- MODULE Method -------------------------------
(***************************************************************************)
(* The classification of the 16-bit encryption method: method.rs for the   *)
(* unlock path, and the auditor's own table in forensic/src/lib.rs.        *)
(***************************************************************************)
EXTENDS Integers

NoMethod == [raw |-> 0, key_bits |-> 0, mode |-> "none", diffuser |-> FALSE]

\* The methods from 0x8000 to 0x8000 + last: the lowest bit is the key size, the
\* others select mode and diffuser.  None, for any other value, is NoMethod.
DecodeUpTo(raw, last) ==
    LET index == raw - 32768
        Decoded(mode, diffuser) == [raw |-> raw, key_bits |-> IF index % 2 = 1 THEN 256 ELSE 128,
                                    mode |-> mode, diffuser |-> diffuser]
    IN  IF index < 0 \/ index > last THEN NoMethod
        ELSE CASE index \div 2 = 0 -> Decoded("Cbc", TRUE)
               [] index \div 2 = 1 -> Decoded("Cbc", FALSE)
               [] OTHER -> Decoded("Xts", FALSE)

\* A plausible mistake in decode: the bound is one too high.
decode_AcceptsSix(raw) == DecodeUpTo(raw, 6)
decode(raw) == DecodeUpTo(raw, 5)

\* The kinds with a decryption; anything else is None, here "none".
validated_kind(m) ==
    CASE m.mode = "Cbc" /\ m.key_bits = 128 /\ m.diffuser -> "Cbc128Diffuser"
      [] m.mode = "Cbc" /\ m.key_bits = 128 /\ ~m.diffuser -> "Cbc128"
      [] m.mode = "Cbc" /\ m.key_bits = 256 /\ ~m.diffuser -> "Cbc256"
      [] m.mode = "Xts" /\ m.key_bits = 128 /\ ~m.diffuser -> "Xts128"
      [] m.mode = "Xts" /\ m.key_bits = 256 /\ ~m.diffuser -> "Xts256"
      [] OTHER -> "none"

\* The bytes of key the FVEK container must hold at offset 12 for a kind, and
\* those of the TWEAK key at offset 44.
FvekLen(kind) ==
    CASE kind \in {"Cbc128Diffuser", "Cbc128"} -> 16
      [] kind \in {"Cbc256", "Xts128"} -> 32
      [] kind = "Xts256" -> 64
TweakLen(kind) == IF kind = "Cbc128Diffuser" THEN 16 ELSE 0

-----------------------------------------------------------------------------
(* The auditor. *)

is_aes_xts_Only128(method) == method = 32772
is_aes_xts(method) == method \in {32772, 32773}
=============================================================================
