------------------------------- MODULE ReadAt -------------------------------
(***************************************************************************)
(* DecryptedVolume::read_at as the steps one call takes.                   *)
(*                                                                         *)
(* A frame is the state of a call in progress: read_at's loop variables    *)
(* together with those of decrypt_logical_sector and read_available, which *)
(* it calls.  Each operator below is the effect of one stretch of code on  *)
(* the frame; the modules that extend this one say who runs it and when,   *)
(* and what happens to the reader's cursor, which frames share.            *)
(*                                                                         *)
(* A name with a suffix, such as Take_Unclamped, is its namesake with a    *)
(* plausible mistake in it; the specifications do not use it.              *)
(***************************************************************************)
EXTENDS VolumeView

CONSTANT Stale  \* what the caller's buffer holds before the call

ZeroSector == [j \in SectorBytes |-> Zero]

\* pc: "head" at the loop test of read_at, "fill" in read_available's loop,
\*     "plain" once the sector is in ct, "ok" and "err" when the call is over.
Frame(offset, len) ==
    [pc |-> "head", offset |-> offset, len |-> len, done |-> 0,
     buf |-> [i \in 0..(len - 1) |-> Stale],
     physical |-> 0, filled |-> 0, ct |-> ZeroSector]

Pos(f) == Add64(f.offset, f.done)
SectorStart(f) == Pos(f) - (Pos(f) % SectorSize)
Within(f) == Pos(f) - SectorStart(f)
Take_Unclamped(f) == SectorSize - Within(f)
Take(f) == Min({SectorSize - Within(f), f.len - f.done})

\* buf[done..done + take].copy_from_slice(&plain[within..within + take])
Copy(f, plain) ==
    [f EXCEPT !.pc = "head", !.done = @ + Take(f),
              !.buf = [i \in 0..(f.len - 1) |->
                          IF f.done =< i /\ i < f.done + Take(f)
                          THEN plain[Within(f) + (i - f.done)] ELSE f.buf[i]]]

\* reader.seek succeeded; read_available is about to fill a fresh sector.
Seeked(f, p) == [f EXCEPT !.pc = "fill", !.physical = p, !.filled = 0,
                          !.ct = ZeroSector]

\* reader.read, called at `cursor`, returned n > 0 bytes.
Received(f, cursor, n) ==
    [f EXCEPT !.pc = IF f.filled + n = SectorSize THEN "plain" ELSE "fill",
              !.filled = @ + n,
              !.ct = [j \in SectorBytes |->
                         IF f.filled =< j /\ j < f.filled + n
                         THEN Image(cursor + (j - f.filled)) ELSE f.ct[j]]]

\* reader.read returned 0: the rest of the sector is zeroed.
EndOfImage(f) ==
    [f EXCEPT !.pc = "plain",
              !.ct = [j \in SectorBytes |-> IF j < f.filled THEN f.ct[j] ELSE Zero]]

\* The tail of decrypt_logical_sector: the sector as stored, or decrypted.
Plain(v, f) ==
    IF StoredAsPlaintext(v, f.physical) THEN f.ct
    ELSE [j \in SectorBytes |-> Decrypt(f.ct, f.physical, j)]

Finished(f, pc) == [f EXCEPT !.pc = pc]

\* How much one reader.read at `cursor` may return to a frame filling ct: any
\* positive amount up to what is asked for and what is left, or 0 at the end.
ReadSizes(v, f, cursor) ==
    1..Min({SectorSize - f.filled,
            IF cursor < v.total_size THEN v.total_size - cursor ELSE 0})
=============================================================================
