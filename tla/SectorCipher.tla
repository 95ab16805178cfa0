---------------------------- MODULE SectorCipher ----------------------------
(***************************************************************************)
(* SectorCipher: how the AES primitives, the diffuser and the sector's     *)
(* address are put together into the sector ciphers of BitLocker.          *)
(*                                                                         *)
(* The value of an AES block is symbolic: a set of atoms, whose exclusive  *)
(* or is the symmetric difference.  AES, the diffuser and multiplication   *)
(* in the XTS field are opaque but for what makes them invertible.  A      *)
(* sector is a sequence of blocks, as in the read path, which never        *)
(* passes a part of a block.                                               *)
(* A name with a suffix, as in le128_Constant, is a plausible mistake in   *)
(* the operator before the underscore.                                     *)
(***************************************************************************)
EXTENDS Integers, Sequences

Xor(a, b) == (a \ b) \cup (b \ a)

\* x is the image of one value under a primitive of this name and key.
IsImage(x, tag, k) == \E a \in x : x = {a} /\ a[1] = tag /\ a[2] = k
Preimage(x) == (CHOOSE a \in x : TRUE)[3]

\* encrypt_block and decrypt_block of the aes crate.
Enc(k, x) == IF IsImage(x, "dec", k) THEN Preimage(x) ELSE {<<"enc", k, x>>}
Dec(k, x) == IF IsImage(x, "enc", k) THEN Preimage(x) ELSE {<<"dec", k, x>>}

\* cbc::Encryptor and cbc::Decryptor without padding.
CbcEncrypt(k, iv, p) ==
    LET c[i \in 0..Len(p)] == IF i = 0 THEN iv ELSE Enc(k, Xor(p[i], c[i - 1]))
    IN  [i \in 1..Len(p) |-> c[i]]
CbcDecrypt(k, iv, c) ==
    [i \in 1..Len(c) |-> Xor(Dec(k, c[i]), IF i = 1 THEN iv ELSE c[i - 1])]

\* elephant_diffuser: a permutation of whole sectors for every sector key.
Diffuse(k, p) == [i \in 1..Len(p) |-> {<<"diffused", k, p, i>>}]
Undiffuse(k, c) ==
    IF \E a \in c[1] : a[1] = "diffused" /\ c = Diffuse(k, a[3]) THEN Preimage(c[1])
    ELSE [i \in 1..Len(c) |-> {<<"undiffused", k, c, i>>}]

\* The xts_mode crate: the tweak of block i is that of the sector times x^(i-1).
XtsMask(tweak_key, tweak, i) == {<<"times", Enc(tweak_key, tweak), i>>}
XtsEncrypt(t, p, tweak) ==
    [i \in 1..Len(p) |-> LET m == XtsMask(t.tweak, tweak, i)
                         IN  Xor(Enc(t.fvek, Xor(p[i], m)), m)]
XtsDecrypt(t, c, tweak) ==
    [i \in 1..Len(c) |-> LET m == XtsMask(t.tweak, tweak, i)
                         IN  Xor(Dec(t.fvek, Xor(c[i], m)), m)]

-----------------------------------------------------------------------------
(* Keys are slices of an unwrapped container; a transform owns the keys its *)
(* mode needs.  For XTS, `fvek` is the data key.                            *)

Slice(container, off, n) == <<container, off, n>>
Part(k, off, n) == <<k[1], k[2] + off, n>>
NoTweak == <<>>

Transform(mode, fvek, tweak) == [mode |-> mode, fvek |-> fvek, tweak |-> tweak]

new(fvek, tweak) == Transform("Cbc", fvek, tweak)
new_cbc(fvek) == Transform("Cbc", fvek, NoTweak)
new_cbc256(fvek) == Transform("Cbc", fvek, NoTweak)
new_xts128(fvek) == Transform("Xts", Part(fvek, 0, 16), Part(fvek, 16, 16))
new_xts256(fvek) == Transform("Xts", Part(fvek, 0, 32), Part(fvek, 32, 32))

ecb(k, block) == Enc(k, block)

\* Sixteen bytes: the little-endian offset, zeros, and the last byte.
Padded(byte_offset, last) == {<<"le128", byte_offset, last>>}
le128_Constant(byte_offset) == Padded(0, 0)
le128(byte_offset) == Padded(byte_offset, 0)

sector_key(tweak, byte_offset) ==
    <<ecb(tweak, le128(byte_offset)), ecb(tweak, Padded(byte_offset, 128))>>

\* get_tweak_default of the sector number.
xts_decrypt_sector(t, buf, byte_offset) == XtsDecrypt(t, buf, Padded(byte_offset \div 512, 0))
xts_encrypt_sector(t, buf, byte_offset) == XtsEncrypt(t, buf, Padded(byte_offset \div 512, 0))

decrypt_sector(t, cipher, byte_offset) ==
    LET cbc_iv == ecb(t.fvek, le128(byte_offset))
    IN  IF t.mode = "Xts" THEN xts_decrypt_sector(t, cipher, byte_offset)
        ELSE IF t.tweak = NoTweak THEN CbcDecrypt(t.fvek, cbc_iv, cipher)
        ELSE Undiffuse(sector_key(t.tweak, byte_offset), CbcDecrypt(t.fvek, cbc_iv, cipher))

encrypt_sector(t, plain, byte_offset) ==
    LET cbc_iv == ecb(t.fvek, le128(byte_offset))
    IN  IF t.mode = "Xts" THEN xts_encrypt_sector(t, plain, byte_offset)
        ELSE IF t.tweak = NoTweak THEN CbcEncrypt(t.fvek, cbc_iv, plain)
        ELSE CbcEncrypt(t.fvek, cbc_iv, Diffuse(sector_key(t.tweak, byte_offset), plain))
=============================================================================
