------------------------------- MODULE Writer -------------------------------
(***************************************************************************)
(* BitLocker volumes as the repository's tests author them: the entries of *)
(* each kind of protector, the metadata block around them and the volume   *)
(* header that points at it.  The format is BitLocker's; this is the part  *)
(* of it the tests write down, for the other modules to read back.         *)
(***************************************************************************)
EXTENDS Metadata, Method

\* The properties of a VMK: a sealed container, a salt, a key.
CcmEntry(entry_type, under, held, n) ==
    Entry(entry_type, VALUE_TYPE_AES_CCM, 28 + n, 0, <<>>, aes_ccm_wrap(under, held, n))
StretchEntry(len, salt) == Entry(0, VALUE_TYPE_STRETCH, len, 0, <<>>, <<salt>>)
KeyEntry(len, k) == Entry(0, VALUE_TYPE_KEY, len, 0, <<>>, <<"key", k>>)

Vmk(protection, props) ==
    Entry(ENTRY_TYPE_VMK, VALUE_TYPE_VMK, 28 + Extent(props, Len(props)), protection, props, <<>>)

TheVmk == <<"key", "vmk">>
TheFvek == <<"key", "fvek">>
SealedVmk(under) == CcmEntry(0, under, TheVmk, 44)

PasswordVmk(p, salt) ==
    Vmk(PROTECTION_PASSWORD,
        <<StretchEntry(20, salt), SealedVmk(stretch_key(password_hash(p), <<salt>>))>>)
RecoveryVmk(r, salt) ==
    Vmk(PROTECTION_RECOVERY,
        <<StretchEntry(20, salt), SealedVmk(stretch_key(recovery_key_hash(r), <<salt>>))>>)
ClearVmk(k) == Vmk(PROTECTION_CLEAR, <<KeyEntry(36, k), SealedVmk(<<"key", k>>)>>)
StartupVmk(k) == Vmk(PROTECTION_STARTUP_KEY, <<SealedVmk(<<"key", k>>)>>)

FvekEntry(n) == CcmEntry(ENTRY_TYPE_FVEK, TheVmk, TheFvek, n)

\* Where the relocated volume header is, and its size.
HeaderEntry(offset, size) ==
    Entry(ENTRY_TYPE_VOLUME_HEADER, ENTRY_TYPE_VOLUME_HEADER, 16, 0, <<>>, <<offset, size>>)

\* A .BEK file: an external key whose nested entries are given.
Bek(inner) ==
    <<Entry(0, VALUE_TYPE_EXTERNAL_KEY, 24 + Extent(inner, Len(inner)), 0, inner, <<>>)>>

\* A whole block: the metadata is its header of 48 bytes and the entries.
WholeBlock(method, entries, geometry) ==
    Block(TRUE, 65536, method, 48 + Extent(entries, Len(entries)), entries, geometry)

\* A header sector with the offsets where each layout has them.
WrittenHeader(signature, win7, bytes, sectors, offsets) ==
    HeaderSector(signature, win7, bytes, sectors,
                 [w \in HeaderWords |->
                     IF w = 56 THEN offsets[1] \div (bytes * sectors)
                     ELSE offsets[CASE w \in {176, 440} -> 1 [] w \in {184, 448} -> 2
                                    [] OTHER -> 3]])
=============================================================================
