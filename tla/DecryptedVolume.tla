--------------------------- MODULE DecryptedVolume ---------------------------
(***************************************************************************)
(* One caller using a DecryptedVolume through read_at, Read and Seek, over *)
(* a reader that may return short counts, be interrupted or fail.          *)
(* A name with a suffix, as in ReturnErr_Advances, is a plausible mistake  *)
(* in the operator before the underscore.                                  *)
(***************************************************************************)
EXTENDS ReadAt

CONSTANTS
    Volumes,  \* the unlocked volumes considered
    Offsets,  \* the addresses a caller asks for
    Lens,     \* the buffer lengths a caller passes
    Deltas,   \* the relative displacements a caller seeks by
    BlockHeaderLen  \* 64: a metadata block is its header and metadata_size bytes

ASSUME CallAssumption ==
    /\ Volumes \subseteq Volume
    /\ Offsets \subseteq Word
    /\ Lens \subseteq Nat
    /\ Deltas \subseteq Int
    /\ BlockHeaderLen \in Nat

VARIABLES
    vol,       \* total_size and the metadata of the unlocked volume
    cursor,    \* where the underlying reader stands
    position,  \* the position of the Read + Seek view
    op,        \* the call in progress: "idle", "read" or "read_at"
    frame,     \* its frame
    ret        \* the result of the last call, until the next one begins

vars == <<vol, cursor, position, op, frame, ret>>

Abstract == INSTANCE PlainView WITH vol <- vol, position <- position, ret <- ret

Init == /\ vol \in Volumes
        /\ cursor = vol.total_size  \* unlock ends with seek(End(0))
        /\ position = 0
        /\ op = "idle"
        /\ frame = Frame(0, 0)
        /\ ret = Abstract!NoResult

Return(result) == op' = "idle" /\ frame' = Frame(0, 0) /\ ret' = result

Begin(o, offset, len) ==
    /\ op = "idle"
    /\ op' = o
    /\ frame' = Frame(offset, len)
    /\ ret' = Abstract!NoResult
    /\ UNCHANGED <<vol, cursor, position>>

CallReadAt(offset, len) == Begin("read_at", offset, len)

CallRead(len) ==
    /\ position < vol.total_size
    /\ Begin("read", position, Min({len, vol.total_size - position}))

CallReadAtEnd ==
    /\ op = "idle"
    /\ position >= vol.total_size
    /\ Return(Abstract!Result("read", TRUE, position, Abstract!NoBytes))
    /\ UNCHANGED <<vol, cursor, position>>

\* The target is computed in i128, so only its conversion back to u64 wraps.
SeekTo(target) ==
    /\ op = "idle"
    /\ target >= 0
    /\ position' = target % U64
    /\ Return(Abstract!Result("seek", TRUE, target % U64, Abstract!NoBytes))
    /\ UNCHANGED <<vol, cursor>>

SeekBeforeStart(target) ==
    /\ op = "idle"
    /\ target < 0
    /\ Return(Abstract!Result("seek", FALSE, position, Abstract!NoBytes))
    /\ UNCHANGED <<vol, cursor, position>>

SeekTargets == Offsets \cup {vol.total_size + d : d \in Deltas} \cup {position + d : d \in Deltas}

-----------------------------------------------------------------------------
(* The steps of the call in progress. *)

LoopDone ==
    /\ op # "idle" /\ frame.pc = "head"
    /\ frame.done = frame.len
    /\ frame' = Finished(frame, "ok")
    /\ UNCHANGED <<vol, cursor, position, op, ret>>

BlankSector ==
    /\ op # "idle" /\ frame.pc = "head"
    /\ frame.done < frame.len
    /\ Blanked(vol, SectorStart(frame))
    /\ frame' = Copy(frame, ZeroSector)
    /\ UNCHANGED <<vol, cursor, position, op, ret>>

SeekSector ==
    /\ op # "idle" /\ frame.pc = "head"
    /\ frame.done < frame.len
    /\ ~Blanked(vol, SectorStart(frame))
    /\ cursor' = Physical(vol, SectorStart(frame))
    /\ frame' = Seeked(frame, cursor')
    /\ UNCHANGED <<vol, position, op, ret>>

ReadChunk ==
    /\ op # "idle" /\ frame.pc = "fill"
    /\ \E n \in ReadSizes(vol, frame, cursor) :
          /\ frame' = Received(frame, cursor, n)
          /\ cursor' = cursor + n
    /\ UNCHANGED <<vol, position, op, ret>>

ReadEof_KeepsReading ==
    /\ op # "idle" /\ frame.pc = "fill"
    /\ cursor >= vol.total_size
    /\ UNCHANGED vars

ReadEof ==
    /\ op # "idle" /\ frame.pc = "fill"
    /\ cursor >= vol.total_size
    /\ frame' = EndOfImage(frame)
    /\ UNCHANGED <<vol, cursor, position, op, ret>>

ReadInterrupted_Breaks ==
    /\ op # "idle" /\ frame.pc = "fill"
    /\ frame' = EndOfImage(frame)
    /\ UNCHANGED <<vol, cursor, position, op, ret>>

\* ErrorKind::Interrupted: read_available calls reader.read again.
ReadInterrupted ==
    /\ op # "idle" /\ frame.pc = "fill"
    /\ UNCHANGED vars

\* reader.seek or reader.read fails; read_at gives up on the whole call.
ReaderFails ==
    /\ op # "idle"
    /\ \/ frame.pc = "fill"
       \/ /\ frame.pc = "head" /\ frame.done < frame.len
          /\ ~Blanked(vol, SectorStart(frame))
    /\ frame' = Finished(frame, "err")
    /\ UNCHANGED <<vol, cursor, position, op, ret>>

DecryptSector ==
    /\ op # "idle" /\ frame.pc = "plain"
    /\ frame' = Copy(frame, Plain(vol, frame))
    /\ UNCHANGED <<vol, cursor, position, op, ret>>

ReturnOk ==
    /\ op # "idle" /\ frame.pc = "ok"
    /\ position' = IF op = "read" THEN position + frame.len ELSE position
    /\ Return(Abstract!Result(op, TRUE, frame.offset, frame.buf))
    /\ UNCHANGED <<vol, cursor>>

ReturnErr_Advances ==
    /\ op # "idle" /\ frame.pc = "err"
    /\ position' = IF op = "read" THEN position + frame.len ELSE position
    /\ Return(Abstract!Result(op, FALSE, frame.offset, Abstract!NoBytes))
    /\ UNCHANGED <<vol, cursor>>

ReturnErr ==
    /\ op # "idle" /\ frame.pc = "err"
    /\ Return(Abstract!Result(op, FALSE, frame.offset, Abstract!NoBytes))
    /\ UNCHANGED <<vol, cursor, position>>

Progress == \/ LoopDone \/ BlankSector \/ SeekSector \/ ReadChunk \/ ReadEof
            \/ DecryptSector \/ ReturnOk \/ ReturnErr

Next == \/ \E o \in Offsets, n \in Lens : CallReadAt(o, n)
        \/ \E n \in Lens : CallRead(n)
        \/ CallReadAtEnd
        \/ \E t \in SeekTargets : SeekTo(t) \/ SeekBeforeStart(t)
        \/ Progress
        \/ ReaderFails \/ ReadInterrupted

Spec == Init /\ [][Next]_vars

\* The caller's thread keeps running, and a reader is not interrupted forever;
\* that it fails is never counted on.
FairSpec == Spec /\ WF_vars(Progress)

-----------------------------------------------------------------------------
\* A call's indices stay inside its buffer and its sector: no slice panics.
TypeOK ==
    /\ vol \in Volumes
    /\ cursor \in Nat
    /\ position \in Word
    /\ op \in {"idle", "read", "read_at"}
    /\ frame.pc \in {"head", "fill", "plain", "ok", "err"}
    /\ frame.offset \in Word /\ frame.len \in Nat /\ frame.done \in 0..frame.len
    /\ DOMAIN frame.buf = 0..(frame.len - 1)
    /\ frame.filled \in 0..SectorSize
    /\ DOMAIN frame.ct = SectorBytes

\* Whatever the reader did (short counts, interruptions, the end of the image
\* in mid-sector) and whatever calls came before and left the cursor anywhere,
\* the part of the buffer read_at has written is the plaintext of the
\* addresses asked for: the sector loop neither skips nor repeats a byte.
DeliversPlaintext ==
    op # "idle" /\ Fits(vol, frame.offset, frame.len) =>
        \A i \in 0..(frame.done - 1) : frame.buf[i] = PlainByte(vol, frame.offset + i)

\* The Read + Seek view behaves as the atomic view does: a failed call, at
\* whichever sector it failed, moves nothing, and a successful read moves the
\* position by exactly what it delivered.
RefinesPlainView == Abstract!Spec

\* Every call returns: read_available's loop ends whether the sector fills up,
\* the image ends, or the reader fails.
CallsReturn == op # "idle" ~> op = "idle"

-----------------------------------------------------------------------------
(***************************************************************************)
(* What the repository says of the view and the code does not do.          *)
(***************************************************************************)
\* volume.rs:381, on read_at: "(bytes past the end of the volume read back as
\* zero)".  The missing bytes are zero-filled before decryption, not after.
PastEndReadsZero ==
    op # "idle" => \A i \in 0..(frame.done - 1) :
        frame.offset + i >= vol.total_size => frame.buf[i] = Zero

\* metadata.rs:126, on metadata_offsets: "Byte offsets of the three metadata
\* blocks (read back as zeros)".  The region blanked is metadata_size long, but
\* metadata_size does not count the 64-byte block header in front of it, and a
\* sector that begins in the last 64 bytes of a block is decrypted.
MetadataBlocksReadZero ==
    op # "idle" => \A i \in 0..(frame.done - 1), k \in MetadataCopies :
        LET m == vol.metadata_offsets[k]
            a == frame.offset + i
        IN  m # 0 /\ m =< a /\ a < m + BlockHeaderLen + vol.metadata_size /\ m + vol.metadata_size < U64
                => frame.buf[i] = Zero

\* SECURITY.md:44-45: "arithmetic is checked or saturating".  A sum past 2^64 would
\* then be refused or stay at the top; here it comes out small.  A seek forward
\* lands behind where it was, a read goes on at the start of the volume, the
\* relocated header is looked for before the place it was moved to, and a
\* metadata region ends before it begins, so that its sectors are decrypted.
ArithmeticDoesNotWrap ==
    [][/\ \A t \in SeekTargets : SeekTo(t) /\ position =< t => position =< position'
       /\ SeekSector =>
             LET s == SectorStart(frame)
             IN  /\ frame.offset =< Pos(frame)
                 /\ s < vol.volume_header_size => vol.volume_header_offset =< cursor'
                 /\ ~InMetadata(vol, s)]_vars
=============================================================================
