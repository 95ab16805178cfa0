------------------------------ MODULE MCUnlock ------------------------------
(* Volumes with every protector the code knows, whole and with one defect. *)
EXTENDS Unlock, Writer

Other == Entry(7, 2, 20, 0, <<>>, <<>>)
Ccm(len, under, n) == [CcmEntry(0, under, TheVmk, n) EXCEPT !.len = len]
P1 == <<"password", "p1", "s1">>

Whole == <<Other, RecoveryVmk("r1", "s2"), PasswordVmk("p1", "s1"), StartupVmk("k1"),
           ClearVmk("k0"), FvekEntry(76)>>

Replace(i, e) == [Whole EXCEPT ![i] = e]

Defective ==
    {<<PasswordVmk("p2", "s3")>> \o Whole,                          \* two passwords
     <<RecoveryVmk("r2", "s3")>> \o Whole,                          \* two recovery passwords
     Replace(3, Other), Replace(6, Other), <<>>,                    \* absent entries
     \* a VMK without a protection type, and one whose properties do not fit
     Replace(3, Entry(ENTRY_TYPE_VMK, VALUE_TYPE_VMK, 20, PROTECTION_PASSWORD, <<>>, <<>>)),
     Replace(3, [PasswordVmk("p1", "s1") EXCEPT !.len = @ - 1]),
     \* properties that are missing or too short
     Replace(3, Vmk(PROTECTION_PASSWORD, <<StretchEntry(20, "s1")>>)),
     Replace(3, Vmk(PROTECTION_PASSWORD, <<SealedVmk(P1)>>)),
     Replace(3, Vmk(PROTECTION_PASSWORD, <<StretchEntry(19, "s1"), SealedVmk(P1)>>)),
     Replace(3, Vmk(PROTECTION_PASSWORD, <<StretchEntry(20, "s1"), Ccm(27, P1, 0)>>)),
     Replace(3, Vmk(PROTECTION_PASSWORD, <<StretchEntry(20, "s1"), Ccm(71, P1, 43)>>)),
     Replace(5, Vmk(PROTECTION_CLEAR, <<SealedVmk(<<"key", "k0">>)>>)),
     Replace(5, Vmk(PROTECTION_CLEAR, <<KeyEntry(35, "k0"), SealedVmk(<<"key", "k0">>)>>)),
     \* an FVEK sealed under another VMK
     Replace(6, CcmEntry(ENTRY_TYPE_FVEK, <<"key", "other">>, TheFvek, 76))}

TheMethods == {0, 32767, 32768, 32769, 32770, 32771, 32772, 32773, 32774, 65535}

Holding(method, es) == WholeBlock(method, es, Geometry(0, 16, 20480, <<4096, 8192, 12288>>))
Good == Holding(32770, Whole)
Lost == [Good EXCEPT !.signed = FALSE]
Cut(len) == [Good EXCEPT !.len = len]

At(signature, win7, cluster, os, b1, b2, b3) ==
    [header |-> [WrittenHeader(signature, win7, 512, 8, os) EXCEPT !.words[56] = cluster],
     blocks |-> [o \in {4096, 8192, 12288} |-> CASE o = 4096 -> b1 [] o = 8192 -> b2 [] OTHER -> b3]]

\* One block shared by three copies.
Same(b) == At(SIG_FVE, TRUE, 0, <<4096, 8192, 12288>>, b, b, b)

MCImages ==
         {Same(Holding(m, Whole)) : m \in TheMethods}
    \cup {Same(Holding(32770, es)) : es \in Defective}
    \* FVEK containers around the lengths the ciphers need
    \cup {Same(Holding(m, Replace(6, FvekEntry(n)))) :
            m \in {32768, 32770, 32771, 32772, 32773}, n \in {27, 28, 43, 44, 59, 60, 75, 76}}
    \* a metadata size that ends within the header, and within the entries
    \cup {Same([Good EXCEPT !.metadata_size = size]) : size \in {0, 48, 48 + Extent(Whole, 5)}}
    \* copies lost, cut short, missing, and past the end of the evidence
    \cup {At(sig, TRUE, 0, os, b1, b2, b3) : sig \in {"NTFS    ", SIG_FVE, SIG_TO_GO},
            os \in {<<4096, 8192, 12288>>, <<0, 8192, 12288>>, <<36864, 0, 12288>>, <<0, 0, 0>>},
            b1 \in {Good, Lost, Cut(80), Cut(110), Cut(111 + Extent(Whole, 3)), Cut(112 + Extent(Whole, 5))},
            b2 \in {Good, Lost}, b3 \in {Good, Lost}}
    \* Vista, with a cluster that is out of range: 2^20 + 2^12 bytes
    \cup {At(SIG_FVE, FALSE, cluster, <<8192, 8192, 8192>>, b1, Good, Good) :
            cluster \in {0, 1, 257}, b1 \in {Good, Lost}}

MCRequests ==
    {Request("password", p, TRUE, <<>>) : p \in {"p1", "wrong"}}
    \cup {Request("recovery", "r1", TRUE, <<>>), Request("recovery", "malformed", FALSE, <<>>)}
    \cup {Request("clear", "", TRUE, <<>>)}
    \cup {Request("startup", "", TRUE, bek) :
            bek \in {<<>>, Bek(<<Other>>), Bek(<<Other, KeyEntry(35, "k1")>>),
                     <<Other>> \o Bek(<<Other, KeyEntry(36, "k1")>>), Bek(<<KeyEntry(36, "k9")>>),
                     Bek(<<Other>>) \o Bek(<<KeyEntry(36, "k1")>>)}}
=============================================================================
