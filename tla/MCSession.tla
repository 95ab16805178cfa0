----------------------------- MODULE MCSession -----------------------------
(* The evidence and the calls of MCUnlock, and volumes of 18 to 20 KiB in each *)
(* layout, with sectors of two blocks, that are read once they are unlocked.   *)
EXTENDS Session, MCUnlock

Layouts == {<<SIG_FVE, TRUE>>, <<SIG_FVE, FALSE>>, <<SIG_TO_GO, TRUE>>}

Truth(layout, bytes, method, encrypted, place, lost) ==
    [signature |-> layout[1], win7 |-> layout[2], bytes |-> bytes, method |-> method,
     encrypted |-> encrypted, header_offset |-> 16384, header_size |-> 1024,
     offsets |-> <<4096, 8192, 12288>>, lost |-> lost, place |-> place]

Places == {"entry", "offset", "block"}

\* Every cipher, extent and way to give the place of the header; then the
\* layouts, with the sector size and the copy lost that they differ by.
MCTruths ==
         {Truth(<<SIG_FVE, TRUE>>, 512, m, e, place, {}) :
            m \in {32768, 32770, 32771, 32772, 32773}, e \in {0, 18432}, place \in Places}
    \cup {Truth(l, b, m, 18432, place, lost) : l \in Layouts, b \in {512, 4096},
            m \in {32768, 32772}, place \in Places, lost \in {{}, {1}}}

\* Both sectors of the header and the one after it, a metadata block and what
\* follows it, the relocated header, and the last encrypted and first other.
MCReadSectors == {0, 512, 1024, 4096, 6144, 16384, 17920, 18432}
=============================================================================
