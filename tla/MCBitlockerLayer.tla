-------------------------- MODULE MCBitlockerLayer --------------------------
(* Up to three credentials offered for a volume with two protectors. *)
EXTENDS BitlockerLayer, Writer

Both == <<PasswordVmk("p1", "s1"), RecoveryVmk("r1", "s2"), FvekEntry(76)>>
Good(entries) == WholeBlock(32772, entries, Geometry(0, 16, 16384, <<4096, 8192, 12288>>))
Lost == [Good(<<>>) EXCEPT !.signed = FALSE]

MCImages ==
    {[header |-> WrittenHeader(sig, TRUE, 512, 8, <<4096, 8192, 12288>>),
      blocks |-> [o \in {4096, 8192} |-> IF o = 4096 THEN b ELSE Good(es)]] :
        sig \in {"NTFS    ", SIG_FVE}, es \in {Both, Tail(Both)}, b \in {Lost, Good(Both)}}

Credentials == {Request("password", "p1", TRUE, <<>>), Request("password", "wrong", TRUE, <<>>),
                Request("recovery", "r1", TRUE, <<>>),
                Request("recovery", "malformed", FALSE, <<>>),
                Request("keybytes", "k", TRUE, <<>>)}

MCOffers == UNION {[1..n -> Credentials] : n \in 0..3}
=============================================================================
