------------------------ MODULE DecryptedVolumeProofs ------------------------
(***************************************************************************)
(* DecryptedVolume delivers plaintext and implements the atomic view, for  *)
(* every sector size, address width, image, cipher, set of volumes and set *)
(* of calls.                                                               *)
(***************************************************************************)
EXTENDS DecryptedVolume, ReadAtProofs

\* The inductive invariant: the frame's own invariant at the reader's actual
\* cursor, and what Read::read computed before it called read_at.
Inv ==
    /\ vol \in Volumes
    /\ cursor \in Nat
    /\ position \in Word
    /\ op \in {"idle", "read", "read_at"}
    /\ FrameInv(vol, frame, cursor)
    /\ op = "read" => frame.offset = position /\ position + frame.len =< vol.total_size
    /\ op = "read_at" => frame.len \in Lens

\* No call is in progress in the initial states.
LEMMA InitInv == Init => Inv
<1>1. SUFFICES ASSUME Init PROVE Inv
  OBVIOUS
<1>2. vol \in Volume /\ cursor \in Nat
  BY <1>1, CallAssumption, WordAssumption DEF Init, Volume, Word
<1>3. 0 \in Word
  BY WordAssumption DEF Word
<1>4. FrameInv(vol, frame, cursor)
  BY <1>1, <1>3, FrameStarts DEF Init
<1>5. QED
  BY <1>1, <1>2, <1>3, <1>4 DEF Init, Inv

\* Every step of the caller, of read_at and of the reader preserves it.
LEMMA NextInv == Inv /\ [Next]_vars => Inv'
<1>1. SUFFICES ASSUME Inv, [Next]_vars PROVE Inv'
  OBVIOUS
<1>2. /\ vol \in Volume /\ vol.total_size \in Nat /\ vol.total_size < U64
      /\ position \in Nat /\ FrameType(frame) /\ 0 \in Word
  BY <1>1, CallAssumption, WordAssumption DEF Inv, Volume, Word, FrameInv
<1>3. FrameInv(vol, Frame(0, 0), cursor)
  BY <1>2, FrameStarts
<1>4. ASSUME NEW o \in Offsets, NEW n \in Lens, CallReadAt(o, n) PROVE Inv'
  <2>1. o \in Word /\ n \in Nat
    BY CallAssumption
  <2>2. FrameInv(vol, Frame(o, n), cursor) /\ Frame(o, n).len = n
    BY <2>1, FrameStarts DEF Frame
  <2>3. QED
    BY <1>1, <1>4, <2>2 DEF Inv, CallReadAt, Begin
<1>5. ASSUME NEW n \in Lens, CallRead(n) PROVE Inv'
  <2> DEFINE m == Min({n, vol.total_size - position})
  <2>1. n \in Nat /\ position < vol.total_size
    BY <1>5, CallAssumption DEF CallRead
  <2>2. m \in Nat /\ position + m =< vol.total_size
    BY <1>2, <2>1, MinTwo
  <2> HIDE DEF m
  <2>3. /\ FrameInv(vol, Frame(position, m), cursor)
        /\ Frame(position, m).offset = position /\ Frame(position, m).len = m
    BY <1>1, <2>2, FrameStarts DEF Frame, Inv
  <2>4. /\ op' = "read" /\ frame' = Frame(position, m)
        /\ UNCHANGED <<vol, cursor, position>>
    BY <1>5 DEF CallRead, Begin, m
  <2>5. QED
    BY <1>1, <2>2, <2>3, <2>4 DEF Inv
<1>6. CASE CallReadAtEnd
  BY <1>1, <1>3, <1>6 DEF Inv, CallReadAtEnd, Return
<1>7. ASSUME NEW t \in SeekTargets, SeekTo(t) \/ SeekBeforeStart(t) PROVE Inv'
  <2>1. t \in Int
    <3>1. Offsets \subseteq Int /\ Deltas \subseteq Int
      BY CallAssumption, WordAssumption DEF Word
    <3>2. QED
      BY <1>2, <3>1 DEF SeekTargets
  <2>2. CASE SeekTo(t)
    <3>1. (t % U64) \in Word
      BY <2>1, <2>2, ModRange, WordAssumption DEF SeekTo, Word
    <3>2. QED
      BY <1>1, <1>3, <2>2, <3>1 DEF SeekTo, Return, Inv
  <2>3. CASE SeekBeforeStart(t)
    BY <1>1, <1>3, <2>3 DEF SeekBeforeStart, Return, Inv
  <2>4. QED
    BY <1>7, <2>2, <2>3
<1>8. CASE LoopDone
  <2>1. FrameInv(vol, Finished(frame, "ok"), cursor)
    BY <1>1, <1>8, FinishedInv DEF Inv, LoopDone
  <2>2. QED
    BY <1>1, <1>2, <1>8, <2>1, StepsKeepCall DEF Inv, LoopDone, SameCall
<1>9. CASE BlankSector
  <2>1. FrameInv(vol, Copy(frame, ZeroSector), cursor)
    BY <1>1, <1>2, <1>9, BlankInv DEF Inv, BlankSector
  <2>2. QED
    BY <1>1, <1>2, <1>9, <2>1, StepsKeepCall DEF Inv, BlankSector, SameCall
<1>10. CASE SeekSector
  <2>1. cursor' \in Nat
    BY <1>2, <1>10, FramePos, PhysicalType, WordAssumption DEF SeekSector, Word
  <2>2. FrameInv(vol, Seeked(frame, cursor'), cursor')
    BY <1>1, <1>2, <1>10, SeekedInv DEF Inv, SeekSector
  <2>3. QED
    BY <1>1, <1>2, <1>10, <2>1, <2>2, StepsKeepCall DEF Inv, SeekSector, SameCall
<1>11. CASE ReadChunk
  <2>1. PICK n \in ReadSizes(vol, frame, cursor) :
           frame' = Received(frame, cursor, n) /\ cursor' = cursor + n
    BY <1>11 DEF ReadChunk
  <2>2. FrameInv(vol, Received(frame, cursor, n), cursor + n)
    BY <1>1, <1>2, <1>11, ReceivedInv DEF Inv, ReadChunk
  <2>3. cursor + n \in Nat
    <3>1. n \in Nat
      BY DEF ReadSizes
    <3>2. QED
      BY <1>1, <3>1 DEF Inv
  <2>4. QED
    BY <1>1, <1>2, <1>11, <2>1, <2>2, <2>3, StepsKeepCall DEF Inv, ReadChunk, SameCall
<1>12. CASE ReadEof
  <2>1. FrameInv(vol, EndOfImage(frame), cursor)
    BY <1>1, <1>2, <1>12, EndOfImageInv DEF Inv, ReadEof
  <2>2. QED
    BY <1>1, <1>2, <1>12, <2>1, StepsKeepCall DEF Inv, ReadEof, SameCall
<1>13. CASE ReaderFails
  <2>1. FrameInv(vol, Finished(frame, "err"), cursor)
    BY <1>1, FinishedInv DEF Inv
  <2>2. QED
    BY <1>1, <1>2, <1>13, <2>1, StepsKeepCall DEF Inv, ReaderFails, SameCall
<1>14. CASE DecryptSector
  <2>1. FrameInv(vol, Copy(frame, Plain(vol, frame)), cursor)
    BY <1>1, <1>2, <1>14, PlainInv DEF Inv, DecryptSector
  <2>2. QED
    BY <1>1, <1>2, <1>14, <2>1, StepsKeepCall DEF Inv, DecryptSector, SameCall
<1>15. CASE ReturnOk
  <2>1. position' \in Word
    <3>1. frame.len \in Nat
      BY <1>2 DEF FrameType
    <3>2. CASE op = "read"
      BY <1>1, <1>2, <1>15, <3>1, <3>2, WordAssumption DEF Inv, ReturnOk, Return, Word
    <3>3. CASE op # "read"
      BY <1>1, <1>15, <3>3 DEF Inv, ReturnOk, Return
    <3>4. QED
      BY <3>2, <3>3
  <2>2. QED
    BY <1>1, <1>3, <1>15, <2>1 DEF Inv, ReturnOk, Return
<1>16. CASE ReturnErr
  BY <1>1, <1>3, <1>16 DEF Inv, ReturnErr, Return
<1>17. CASE UNCHANGED vars
  BY <1>1, <1>17 DEF Inv, vars
<1>18. QED
  BY <1>1, <1>4, <1>5, <1>6, <1>7, <1>8, <1>9, <1>10, <1>11, <1>12, <1>13, <1>14,
     <1>15, <1>16, <1>17 DEF Next, Progress, ReadInterrupted

\* The invariant holds throughout every behaviour.
THEOREM Invariance == Spec => []Inv
BY InitInv, NextInv, PTL DEF Spec

\* The state of the volume and of the call in progress has its type.
THEOREM TypeCorrect == Spec => []TypeOK
<1>1. Inv => TypeOK
  <2>1. ASSUME Inv PROVE TypeOK
    BY <2>1 DEF Inv, TypeOK, FrameInv, FrameType
  <2>2. QED
    BY <2>1
<1>2. QED
  BY <1>1, Invariance, PTL

\* read_at's buffer holds the plaintext of the requested addresses, whatever
\* the reader did and wherever earlier calls left the cursor.
THEOREM PlaintextDelivered == Spec => []DeliversPlaintext
<1>1. Inv => DeliversPlaintext
  BY DEF Inv, FrameInv, Written, DeliversPlaintext
<1>2. QED
  BY <1>1, Invariance, PTL

-----------------------------------------------------------------------------
(***************************************************************************)
(* Refinement: only the steps that end a call are visible in the view, and *)
(* each is one of its atomic operations.                                   *)
(***************************************************************************)
\* The view's plaintext is the plaintext the frame is measured against.
LEMMA SameView ==
    ASSUME NEW v, NEW o, NEW n
    PROVE  /\ Abstract!PlainBytes(v, o, n) = PlainBytes(v, o, n)
           /\ Abstract!Fits(v, o, n) <=> Fits(v, o, n)
<1>1. Abstract!PlainBytes(v, o, n) = PlainBytes(v, o, n)
  BY DEF PlainBytes, PlainByte, PlainSector, SectorOf, InMetadata, Home, StoredAsPlaintext,
         Stored, MetadataCopies, SectorBytes, METHOD_NONE,
         Abstract!PlainBytes, Abstract!PlainByte, Abstract!PlainSector, Abstract!SectorOf,
         Abstract!InMetadata, Abstract!Home, Abstract!StoredAsPlaintext, Abstract!Stored,
         Abstract!MetadataCopies, Abstract!SectorBytes, Abstract!METHOD_NONE
<1>2. Abstract!Fits(v, o, n) <=> Fits(v, o, n)
  BY DEF Fits, MetadataCopies, Abstract!Fits, Abstract!MetadataCopies
<1>3. QED
  BY <1>1, <1>2

\* A call that returns Ok delivers what the view prescribes.
LEMMA ReturnDelivers ==
    ASSUME Inv, ReturnOk
    PROVE  Abstract!Delivers(op, frame.offset, frame.len)
<1>1. ret' = Abstract!Result(op, TRUE, frame.offset, frame.buf)
  BY DEF ReturnOk, Return
<1>2. ret'.data = frame.buf
  BY <1>1 DEF Abstract!Result
<1>3. frame.buf = [i \in 0..(frame.len - 1) |-> frame.buf[i]] /\ frame.done = frame.len
  BY DEF Inv, FrameInv, FrameType, ReturnOk
<1>4. ASSUME Fits(vol, frame.offset, frame.len)
      PROVE  frame.buf = PlainBytes(vol, frame.offset, frame.len)
  <2>1. \A i \in 0..(frame.len - 1) : frame.buf[i] = PlainByte(vol, frame.offset + i)
    BY <1>3, <1>4 DEF Inv, FrameInv, Written
  <2>2. QED
    BY <1>3, <2>1 DEF PlainBytes
<1>5. DOMAIN ret'.data = 0..(frame.len - 1)
  BY <1>2, <1>3
<1>6. ret' = Abstract!Result(op, TRUE, frame.offset, ret'.data)
  BY <1>1, <1>2
<1>7. Abstract!Fits(vol, frame.offset, frame.len) =>
         ret'.data = Abstract!PlainBytes(vol, frame.offset, frame.len)
  BY <1>2, <1>4, SameView
<1>8. QED
  BY <1>5, <1>6, <1>7 DEF Abstract!Delivers

\* Every step of the volume is a step of the view or leaves it unchanged.
LEMMA NextRefines == Inv /\ [Next]_vars => [Abstract!Next]_(Abstract!vars)
<1>1. SUFFICES ASSUME Inv, [Next]_vars PROVE [Abstract!Next]_(Abstract!vars)
  OBVIOUS
<1>2. vol.total_size \in Nat /\ position \in Nat /\ frame.len \in Nat /\ frame.offset \in Word
  BY <1>1, CallAssumption, WordAssumption DEF Inv, Volume, Word, FrameInv, FrameType
<1>3. ASSUME NEW o, NEW x, NEW n, Begin(o, x, n) PROVE Abstract!Next
  BY <1>3 DEF Begin, Abstract!Next, Abstract!Pending
<1>4. CASE CallReadAtEnd
  <2>1. ret' = Abstract!Result("read", TRUE, position, Abstract!NoBytes)
    BY <1>4 DEF CallReadAtEnd, Return
  <2>2. ret'.data = Abstract!NoBytes
    BY <2>1 DEF Abstract!Result
  <2>3. Abstract!NoBytes = PlainBytes(vol, position, 0) /\ DOMAIN Abstract!NoBytes = 0..(0 - 1)
    BY DEF Abstract!NoBytes, PlainBytes
  <2>4. Abstract!Delivers("read", position, 0)
    BY <2>1, <2>2, <2>3, SameView DEF Abstract!Delivers
  <2>5. 0 \in 0..vol.total_size /\ position' = position + 0 /\ vol' = vol
    BY <1>2, <1>4 DEF CallReadAtEnd
  <2>6. QED
    BY <2>4, <2>5 DEF Abstract!Next, Abstract!Read
<1>5. ASSUME NEW t \in SeekTargets, SeekTo(t) \/ SeekBeforeStart(t) PROVE Abstract!Next
  <2>1. CASE SeekTo(t)
    <3>1. t \in Int
      <4>1. Offsets \subseteq Int /\ Deltas \subseteq Int
        BY CallAssumption, WordAssumption DEF Word
      <4>2. QED
        BY <1>2, <4>1 DEF SeekTargets
    <3>2. (t % U64) \in Word
      BY <2>1, <3>1, ModRange, WordAssumption DEF SeekTo, Word
    <3>3. Abstract!Seek
      BY <2>1, <3>2 DEF SeekTo, Return, Abstract!Seek, Abstract!Word, Word
    <3>4. QED
      BY <2>1, <3>3 DEF SeekTo, Abstract!Next
  <2>2. CASE SeekBeforeStart(t)
    BY <1>1, <2>2 DEF SeekBeforeStart, Return, Inv, Abstract!Next, Abstract!Fail, Abstract!Word, Word
  <2>3. QED
    BY <1>5, <2>1, <2>2
<1>6. CASE ReturnOk
  <2>1. Abstract!Delivers(op, frame.offset, frame.len) /\ vol' = vol
    BY <1>1, <1>6, ReturnDelivers DEF ReturnOk
  <2>2. CASE op = "read"
    <3>1. /\ frame.offset = position /\ frame.len \in 0..vol.total_size
          /\ position + frame.len =< vol.total_size /\ position' = position + frame.len
      BY <1>1, <1>2, <1>6, <2>2 DEF Inv, ReturnOk
    <3>2. QED
      BY <2>1, <2>2, <3>1 DEF Abstract!Next, Abstract!Read
  <2>3. CASE op = "read_at"
    <3>1. frame.len \in Lens /\ position' = position
      BY <1>1, <1>6, <2>3 DEF Inv, ReturnOk
    <3>2. QED
      BY <1>2, <2>1, <2>3, <3>1 DEF Abstract!Next, Abstract!ReadAt, Abstract!Word, Word
  <2>4. QED
    BY <1>1, <1>6, <2>2, <2>3 DEF Inv, ReturnOk
<1>7. CASE ReturnErr
  BY <1>1, <1>2, <1>7 DEF ReturnErr, Return, Inv, Abstract!Next, Abstract!Fail, Abstract!Word, Word
<1>8. ASSUME UNCHANGED <<vol, position, ret>> PROVE UNCHANGED Abstract!vars
  BY <1>8 DEF Abstract!vars
<1>9. QED
  BY <1>1, <1>3, <1>4, <1>5, <1>6, <1>7, <1>8
  DEF Next, Progress, CallReadAt, CallRead, LoopDone, BlankSector, SeekSector, ReadChunk,
      ReadEof, ReadInterrupted, ReaderFails, DecryptSector, vars

\* DecryptedVolume implements the atomic plaintext view.
THEOREM Refinement == Spec => RefinesPlainView
<1>1. Init => Abstract!Init
  BY CallAssumption DEF Init, Abstract!Init, Abstract!Volume, Volume, Word, Abstract!Word,
     MetadataCopies, Abstract!MetadataCopies
<1>2. QED
  BY <1>1, NextRefines, Invariance, PTL DEF Spec, Abstract!Spec, RefinesPlainView
=============================================================================
