------------------------ MODULE BitlockerSourceProofs ------------------------
(***************************************************************************)
(* Concurrent reads of a BitlockerSource deliver plaintext, for every set  *)
(* of threads, calls, volumes, sector size, address width and cipher.      *)
(***************************************************************************)
EXTENDS BitlockerSource, ReadAtProofs

\* What one thread relies on.  Only the owner of the Mutex has a frame past
\* its first step, so only the owner depends on where the cursor stands.
ThreadInv(t) ==
    /\ stage[t] \in {"idle", "lock", "inside"}
    /\ stage[t] = "inside" <=> owner = t
    /\ FrameInv(vol, frame[t], cursor)
    /\ stage[t] # "inside" => frame[t].pc = "head"
    /\ frame[t].len = 0 \/ frame[t].offset + frame[t].len =< vol.total_size

\* A result is the plaintext of what was asked for.
ResultInv(r) ==
    /\ r.kind \in {"none", "ok", "err", "panic"}
    /\ r.kind = "ok" =>
          /\ r.len = 0 \/ r.at + r.len =< vol.total_size
          /\ Fits(vol, r.at, r.len) => r.data = PlainBytes(vol, r.at, r.len)

Inv ==
    /\ vol \in Volumes
    /\ cursor \in Nat
    /\ owner \in Threads \cup {NoThread}
    /\ poisoned \in BOOLEAN
    /\ DOMAIN stage = Threads /\ DOMAIN frame = Threads /\ DOMAIN ret = Threads
    /\ \A t \in Threads : ThreadInv(t)
    /\ \A t \in Threads : ResultInv(ret[t])

\* No thread is in a call in the initial states.
LEMMA InitInv == Init => Inv
<1>1. SUFFICES ASSUME Init PROVE Inv
  OBVIOUS
<1>2. vol \in Volume /\ cursor \in Nat /\ 0 \in Word
  BY <1>1, SourceAssumption, WordAssumption DEF Init, Volume, Word
<1>3. ASSUME NEW t \in Threads PROVE ThreadInv(t)
  <2>1. FrameInv(vol, Frame(0, 0), cursor) /\ Frame(0, 0).pc = "head" /\ Frame(0, 0).len = 0
    BY <1>2, FrameStarts DEF Frame
  <2>2. QED
    BY <1>1, <2>1, SourceAssumption DEF Init, ThreadInv
<1>4. ASSUME NEW t \in Threads PROVE ResultInv(ret[t])
  BY <1>1 DEF Init, ResultInv, NoResult, Result
<1>5. QED
  BY <1>1, <1>2, <1>3, <1>4 DEF Init, Inv

\* A step that thread t takes inside the Mutex: no other thread has a frame
\* that depends on the cursor, so it is enough to look at t's own.
LEMMA InsideStep ==
    ASSUME Inv, NEW t \in Threads, stage[t] = "inside", NEW f, NEW c \in Nat,
           Steps(t, f, c), FrameInv(vol, f, c),
           f.offset = frame[t].offset, f.len = frame[t].len
    PROVE  Inv'
<1>1. vol' = vol /\ owner' = owner /\ stage' = stage /\ ret' = ret /\ poisoned' = poisoned
      /\ cursor' = c /\ frame' = [frame EXCEPT ![t] = f]
  BY DEF Steps
<1>2. owner = t /\ frame'[t] = f /\ DOMAIN frame' = Threads
  BY <1>1 DEF Inv, ThreadInv
<1>3. ThreadInv(t)'
  BY <1>1, <1>2 DEF Inv, ThreadInv
<1>4. ASSUME NEW u \in Threads, u # t PROVE ThreadInv(u)'
  <2>1. frame'[u] = frame[u] /\ stage[u] # "inside" /\ ThreadInv(u)
    BY <1>1, <1>2, <1>4 DEF Inv, ThreadInv
  <2>2. FrameInv(vol, frame[u], c)
    BY <2>1, CursorFree DEF ThreadInv
  <2>3. QED
    BY <1>1, <2>1, <2>2 DEF ThreadInv
<1>5. \A u \in Threads : ResultInv(ret[u])'
  BY <1>1 DEF Inv, ResultInv
<1>6. QED
  BY <1>1, <1>2, <1>3, <1>4, <1>5 DEF Inv

\* Leaving the Mutex, by returning or by unwinding, whatever the cursor.
LEMMA LeaveStep ==
    ASSUME Inv, NEW t \in Threads, stage[t] = "inside", NEW r, Leave(t, r),
           owner' = NoThread, vol' = vol, cursor' \in Nat, poisoned' \in BOOLEAN,
           ResultInv(r)
    PROVE  Inv'
<1>1. owner = t /\ owner' \notin Threads /\ 0 \in Word
  BY SourceAssumption, WordAssumption DEF Inv, ThreadInv, Word
<1>2. /\ DOMAIN stage' = Threads /\ DOMAIN frame' = Threads /\ DOMAIN ret' = Threads
      /\ stage'[t] = "idle" /\ frame'[t] = Frame(0, 0) /\ ret'[t] = r
      /\ \A u \in Threads \ {t} : stage'[u] = stage[u] /\ frame'[u] = frame[u] /\ ret'[u] = ret[u]
  BY DEF Inv, Leave
<1>3. ThreadInv(t)'
  <2>1. FrameInv(vol, Frame(0, 0), cursor') /\ Frame(0, 0).pc = "head" /\ Frame(0, 0).len = 0
    BY <1>1, FrameStarts DEF Frame
  <2>2. QED
    BY <1>1, <1>2, <2>1 DEF ThreadInv
<1>4. ASSUME NEW u \in Threads, u # t PROVE ThreadInv(u)'
  <2>1. stage[u] # "inside" /\ ThreadInv(u)
    BY <1>1, <1>4 DEF Inv, ThreadInv
  <2>2. FrameInv(vol, frame[u], cursor')
    BY <2>1, CursorFree DEF ThreadInv
  <2>3. QED
    BY <1>1, <1>2, <1>4, <2>1, <2>2 DEF ThreadInv
<1>5. ASSUME NEW u \in Threads PROVE ResultInv(ret[u])'
  BY <1>2 DEF Inv, ResultInv
<1>6. QED
  BY <1>2, <1>3, <1>4, <1>5 DEF Inv

\* A call that has clamped its length waits with a fresh frame.
LEMMA CallStep ==
    ASSUME Inv, NEW t \in Threads, NEW o \in Offsets, NEW n \in Lens, Call(t, o, n)
    PROVE  Inv'
<1> DEFINE m == Want(o, n)
<1>1. /\ vol.total_size \in Nat /\ o \in Nat /\ n \in Nat /\ o < vol.total_size /\ o \in Word
  BY SourceAssumption, WordAssumption DEF Inv, Volume, Word, Call
<1>2. m \in Nat /\ o + m =< vol.total_size
  BY <1>1, MinTwo DEF Want
<1>3. /\ vol' = vol /\ cursor' = cursor /\ owner' = owner /\ poisoned' = poisoned
      /\ stage[t] = "idle" /\ stage' = [stage EXCEPT ![t] = "lock"]
      /\ frame' = [frame EXCEPT ![t] = Frame(o, m)]
      /\ ret' = [ret EXCEPT ![t] = NoResult]
  BY DEF Call
<1> HIDE DEF m
<1>4. /\ DOMAIN stage' = Threads /\ DOMAIN frame' = Threads /\ DOMAIN ret' = Threads
      /\ stage'[t] = "lock" /\ frame'[t] = Frame(o, m) /\ ret'[t] = NoResult
      /\ \A u \in Threads \ {t} : stage'[u] = stage[u] /\ frame'[u] = frame[u] /\ ret'[u] = ret[u]
  BY <1>3 DEF Inv
<1>5. ThreadInv(t)'
  <2>1. /\ FrameInv(vol, Frame(o, m), cursor) /\ Frame(o, m).pc = "head"
        /\ Frame(o, m).len = m /\ Frame(o, m).offset = o
    BY <1>1, <1>2, FrameStarts DEF Frame
  <2>2. QED
    BY <1>2, <1>3, <1>4, <2>1 DEF Inv, ThreadInv
<1>6. ASSUME NEW u \in Threads, u # t PROVE ThreadInv(u)'
  BY <1>3, <1>4, <1>6 DEF Inv, ThreadInv
<1>7. ASSUME NEW u \in Threads PROVE ResultInv(ret[u])'
  <2>1. ResultInv(NoResult)
    BY DEF ResultInv, NoResult, Result
  <2>2. QED
    BY <1>3, <1>4, <2>1 DEF Inv, ResultInv
<1>8. QED
  BY <1>3, <1>4, <1>5, <1>6, <1>7 DEF Inv

\* A read past the end of the volume delivers nothing.
LEMMA PastEndStep ==
    ASSUME Inv, NEW t \in Threads, NEW o \in Offsets, CallPastEnd(t, o)
    PROVE  Inv'
<1> DEFINE r == Result("ok", o, 0, NoBytes)
<1>1. r.kind = "ok" /\ r.len = 0 /\ r.data = NoBytes /\ r.at = o
  BY DEF Result
<1>2. NoBytes = PlainBytes(vol, o, 0)
  BY DEF NoBytes, PlainBytes
<1>3. ResultInv(r)
  BY <1>1, <1>2 DEF ResultInv
<1>4. /\ UNCHANGED <<vol, cursor, owner, poisoned, stage, frame>>
      /\ ret' = [ret EXCEPT ![t] = r]
  BY DEF CallPastEnd
<1> HIDE DEF r
<1>5. \A u \in Threads : ThreadInv(u)'
  BY <1>4 DEF Inv, ThreadInv
<1>6. ASSUME NEW u \in Threads PROVE ResultInv(ret[u])'
  BY <1>3, <1>4 DEF Inv, ResultInv
<1>7. DOMAIN ret' = Threads
  BY <1>4 DEF Inv
<1>8. QED
  BY <1>4, <1>5, <1>6, <1>7 DEF Inv

\* A free Mutex has no thread inside, so its taker is alone there.
LEMMA LockStep ==
    ASSUME Inv, NEW t \in Threads, Lock(t)
    PROVE  Inv'
<1>1. /\ owner = NoThread /\ owner' = t /\ stage[t] = "lock"
      /\ stage' = [stage EXCEPT ![t] = "inside"]
      /\ UNCHANGED <<vol, cursor, poisoned, frame, ret>>
  BY DEF Lock
<1>2. \A u \in Threads : ThreadInv(u)'
  BY <1>1, SourceAssumption DEF Inv, ThreadInv
<1>3. \A u \in Threads : ResultInv(ret[u])'
  BY <1>1 DEF Inv, ResultInv
<1>4. DOMAIN stage' = Threads
  BY <1>1 DEF Inv
<1>5. QED
  BY <1>1, <1>2, <1>3, <1>4 DEF Inv

\* A call that is over hands its bytes to the caller.
LEMMA ReturnStep ==
    ASSUME Inv, NEW t \in Threads, Return(t)
    PROVE  Inv'
<1> DEFINE f == frame[t]
           good == Result("ok", f.offset, f.len, f.buf)
           bad == Result("err", f.offset, 0, NoBytes)
<1>1. /\ owner' = NoThread /\ vol' = vol /\ cursor' \in Nat /\ poisoned' \in BOOLEAN
      /\ FrameInv(vol, f, cursor) /\ stage[t] = "inside"
      /\ f.len = 0 \/ f.offset + f.len =< vol.total_size
  BY DEF Return, Inv, ThreadInv, At
<1>2. CASE At(t, "ok") /\ Leave(t, good)
  <2>1. f.done = f.len /\ f.buf = [i \in 0..(f.len - 1) |-> f.buf[i]]
    BY <1>1, <1>2 DEF FrameInv, FrameType, At
  <2>2. ASSUME Fits(vol, f.offset, f.len) PROVE f.buf = PlainBytes(vol, f.offset, f.len)
    <3>1. \A i \in 0..(f.len - 1) : f.buf[i] = PlainByte(vol, f.offset + i)
      BY <1>1, <2>1, <2>2 DEF FrameInv, Written
    <3>2. QED
      BY <2>1, <3>1 DEF PlainBytes
  <2>3. good.kind = "ok" /\ good.at = f.offset /\ good.len = f.len /\ good.data = f.buf
    BY DEF Result
  <2>4. ResultInv(good)
    BY <1>1, <2>2, <2>3 DEF ResultInv
  <2>5. QED
    BY <1>1, <1>2, <2>4, LeaveStep
<1>3. CASE At(t, "err") /\ Leave(t, bad)
  <2>1. ResultInv(bad)
    BY DEF ResultInv, Result
  <2>2. QED
    BY <1>1, <1>3, <2>1, LeaveStep
<1>4. QED
  BY <1>2, <1>3 DEF Return

\* A panic leaves nothing behind that another thread could stumble over.
LEMMA PanicStep ==
    ASSUME Inv, NEW t \in Threads, Panic(t)
    PROVE  Inv'
<1>1. /\ owner' = NoThread /\ vol' = vol /\ cursor' \in Nat /\ poisoned' \in BOOLEAN
      /\ stage[t] = "inside"
  BY SourceAssumption, WordAssumption DEF Panic, UsesReader, At, Word
<1>2. ResultInv(Result("panic", frame[t].offset, 0, NoBytes))
  BY DEF ResultInv, Result
<1>3. QED
  BY <1>1, <1>2, LeaveStep DEF Panic

\* Every step of every thread preserves the invariant.
LEMMA NextInv == Inv /\ [Next]_vars => Inv'
<1>1. SUFFICES ASSUME Inv, [Next]_vars PROVE Inv'
  OBVIOUS
<1>2. vol \in Volume /\ cursor \in Nat
  BY <1>1, SourceAssumption DEF Inv
<1>3. ASSUME NEW t \in Threads, Inside(t) \/ ReaderFails(t) \/ Panic(t) PROVE Inv'
  <2> DEFINE f == frame[t]
  <2>1. FrameInv(vol, f, cursor) /\ FrameType(f)
    BY <1>1 DEF Inv, ThreadInv, FrameInv
  <2> HIDE DEF f
  <2>2. CASE LoopDone(t)
    <3>1. FrameInv(vol, Finished(f, "ok"), cursor)
      BY <2>1, <2>2, FinishedInv DEF LoopDone, f
    <3>2. Steps(t, Finished(f, "ok"), cursor) /\ stage[t] = "inside"
      BY <2>2 DEF LoopDone, At, f
    <3>3. QED
      BY <1>1, <1>2, <2>1, <3>1, <3>2, StepsKeepCall, InsideStep DEF SameCall, f
  <2>3. CASE BlankSector(t)
    <3>1. FrameInv(vol, Copy(f, ZeroSector), cursor)
      BY <1>2, <2>1, <2>3, BlankInv DEF BlankSector, f
    <3>2. Steps(t, Copy(f, ZeroSector), cursor) /\ stage[t] = "inside"
      BY <2>3 DEF BlankSector, At, f
    <3>3. QED
      BY <1>1, <1>2, <2>1, <3>1, <3>2, StepsKeepCall, InsideStep DEF SameCall, f
  <2>4. CASE SeekSector(t)
    <3> DEFINE p == Physical(vol, SectorStart(f))
    <3>1. p \in Nat
      BY <1>2, <2>1, FramePos, PhysicalType, WordAssumption DEF Word
    <3>2. FrameInv(vol, Seeked(f, p), p)
      BY <1>2, <2>1, <2>4, SeekedInv DEF SeekSector, At, f
    <3>3. Steps(t, Seeked(f, p), p) /\ stage[t] = "inside"
      BY <2>4 DEF SeekSector, At, f
    <3> HIDE DEF p
    <3>4. QED
      BY <1>1, <2>1, <3>1, <3>2, <3>3, StepsKeepCall, InsideStep DEF SameCall, f
  <2>5. CASE ReadChunk(t)
    <3>1. PICK n \in ReadSizes(vol, f, cursor) : Steps(t, Received(f, cursor, n), cursor + n)
      BY <2>5 DEF ReadChunk, f
    <3>2. FrameInv(vol, Received(f, cursor, n), cursor + n) /\ stage[t] = "inside"
      BY <1>2, <2>1, <2>5, ReceivedInv DEF ReadChunk, At, f
    <3>3. cursor + n \in Nat
      <4>1. n \in Nat
        BY DEF ReadSizes
      <4>2. QED
        BY <1>2, <4>1
    <3> DEFINE g == Received(f, cursor, n)
               c == cursor + n
    <3>4. Steps(t, g, c) /\ FrameInv(vol, g, c) /\ c \in Nat
      BY <3>1, <3>2, <3>3
    <3>5. g.offset = frame[t].offset /\ g.len = frame[t].len
      BY <2>1, StepsKeepCall DEF SameCall, f
    <3> HIDE DEF g, c
    <3>6. QED
      BY <1>1, <3>2, <3>4, <3>5, InsideStep
  <2>6. CASE ReadEof(t)
    <3>1. FrameInv(vol, EndOfImage(f), cursor)
      BY <1>2, <2>1, <2>6, EndOfImageInv DEF ReadEof, At, f
    <3>2. Steps(t, EndOfImage(f), cursor) /\ stage[t] = "inside"
      BY <2>6 DEF ReadEof, At, f
    <3>3. QED
      BY <1>1, <1>2, <2>1, <3>1, <3>2, StepsKeepCall, InsideStep DEF SameCall, f
  <2>7. CASE ReaderFails(t)
    <3>1. FrameInv(vol, Finished(f, "err"), cursor)
      BY <2>1, FinishedInv
    <3>2. Steps(t, Finished(f, "err"), cursor) /\ stage[t] = "inside"
      BY <2>7 DEF ReaderFails, UsesReader, At, f
    <3>3. QED
      BY <1>1, <1>2, <2>1, <3>1, <3>2, StepsKeepCall, InsideStep DEF SameCall, f
  <2>8. CASE DecryptSector(t)
    <3>1. FrameInv(vol, Copy(f, Plain(vol, f)), cursor)
      BY <1>2, <2>1, <2>8, PlainInv DEF DecryptSector, At, f
    <3>2. Steps(t, Copy(f, Plain(vol, f)), cursor) /\ stage[t] = "inside"
      BY <2>8 DEF DecryptSector, At, f
    <3>3. QED
      BY <1>1, <1>2, <2>1, <3>1, <3>2, StepsKeepCall, InsideStep DEF SameCall, f
  <2>9. QED
    BY <1>1, <1>3, <2>2, <2>3, <2>4, <2>5, <2>6, <2>7, <2>8, ReturnStep, PanicStep DEF Inside
<1>4. CASE UNCHANGED vars
  BY <1>1, <1>4 DEF vars, Inv, ThreadInv, ResultInv
<1>5. QED
  BY <1>1, <1>3, <1>4, CallStep, PastEndStep, LockStep DEF Next

\* The invariant holds throughout every behaviour.
THEOREM Invariance == Spec => []Inv
BY InitInv, NextInv, PTL DEF Spec

\* The shared state and every thread's call have their types.
THEOREM TypeCorrect == Spec => []TypeOK
<1>1. ASSUME Inv PROVE TypeOK
  BY <1>1 DEF Inv, ThreadInv, ResultInv, FrameInv, FrameType, TypeOK
<1>2. QED
  BY <1>1, Invariance, PTL

\* The Mutex keeps the cursor of a thread that is filling a sector in place.
THEOREM CursorOwned == Spec => []CursorIsOwned
<1>1. ASSUME Inv PROVE CursorIsOwned
  BY <1>1 DEF Inv, ThreadInv, FrameInv, CursorIsOwned, At
<1>2. QED
  BY <1>1, Invariance, PTL

\* Reads that return Ok delivered the plaintext of addresses within the
\* volume, whatever other threads did, panics included.
THEOREM ReadsIsolated == Spec => []ReadsAreIsolated
<1>1. ASSUME Inv PROVE ReadsAreIsolated
  BY <1>1 DEF Inv, ResultInv, ReadsAreIsolated
<1>2. QED
  BY <1>1, Invariance, PTL

-----------------------------------------------------------------------------
(***************************************************************************)
(* Refinement: a thread's view changes only with its own results, and each *)
(* of them is an atomic operation of the view.                             *)
(***************************************************************************)
\* A thread without a result sees a view without one.
LEMMA SeenNothing ==
    ASSUME NEW u
    PROVE  Seen(NoResult) = View(u)!NoResult
<1>1. /\ NoResult.kind = "none" /\ NoResult.at = 0 /\ NoResult.data = NoBytes
  BY DEF NoResult, Result
<1>2. (NoResult.kind = "ok") = FALSE
  BY <1>1
<1>3. QED
  BY <1>1, <1>2 DEF Seen, View!NoResult, View!Result, View!NoBytes, NoBytes

\* A result that is not Ok is seen as a failed call.
LEMMA SeenFailure ==
    ASSUME NEW u, NEW k \in {"err", "panic"}, NEW o
    PROVE  Seen(Result(k, o, 0, NoBytes)) = View(u)!Result("read_at", FALSE, o, View(u)!NoBytes)
<1> DEFINE r == Result(k, o, 0, NoBytes)
<1>1. r.kind = k /\ r.at = o /\ r.data = NoBytes
  BY DEF Result
<1> HIDE DEF r
<1>2. (r.kind = "ok") = FALSE /\ (r.kind = "none") = FALSE
  BY <1>1
<1>3. Seen(r) = View(u)!Result("read_at", FALSE, o, View(u)!NoBytes)
  BY <1>1, <1>2 DEF Seen, View!Result, View!NoBytes, NoBytes
<1>4. QED
  BY <1>3 DEF r

\* The view's plaintext is the plaintext the frames are measured against.
LEMMA SameView ==
    ASSUME NEW u, NEW v, NEW o, NEW n
    PROVE  /\ View(u)!PlainBytes(v, o, n) = PlainBytes(v, o, n)
           /\ View(u)!Fits(v, o, n) <=> Fits(v, o, n)
<1>1. View(u)!PlainBytes(v, o, n) = PlainBytes(v, o, n)
  BY DEF PlainBytes, PlainByte, PlainSector, SectorOf, InMetadata, Home, StoredAsPlaintext,
         Stored, MetadataCopies, SectorBytes, METHOD_NONE,
         View!PlainBytes, View!PlainByte, View!PlainSector, View!SectorOf,
         View!InMetadata, View!Home, View!StoredAsPlaintext, View!Stored,
         View!MetadataCopies, View!SectorBytes, View!METHOD_NONE
<1>2. View(u)!Fits(v, o, n) <=> Fits(v, o, n)
  BY DEF Fits, MetadataCopies, View!Fits, View!MetadataCopies
<1>3. QED
  BY <1>1, <1>2

\* Ok with the plaintext of its addresses is the view's read_at.
LEMMA OkIsReadAt ==
    ASSUME NEW u, NEW o \in Word, NEW n \in Word, NEW data,
           DOMAIN data = 0..(n - 1),
           Fits(vol, o, n) => data = PlainBytes(vol, o, n),
           vol' = vol, ret'[u] = Result("ok", o, n, data)
    PROVE  View(u)!Next
<1> DEFINE r == Result("ok", o, n, data)
<1>1. r.kind = "ok" /\ r.at = o /\ r.data = data
  BY DEF Result
<1>2. ret'[u] = r
  OBVIOUS
<1> HIDE DEF r
<1>3. (r.kind = "ok") = TRUE /\ (r.kind = "none") = FALSE
  BY <1>1
<1>4. Seen(r) = View(u)!Result("read_at", TRUE, o, data) /\ Seen(r).data = data
  BY <1>1, <1>3 DEF Seen, View!Result
<1>5. View(u)!Fits(vol, o, n) => data = View(u)!PlainBytes(vol, o, n)
  BY SameView
<1>6. View(u)!Delivers("read_at", o, n)
  BY <1>2, <1>4, <1>5 DEF View!Delivers
<1>7. View(u)!ReadAt
  BY <1>6 DEF View!ReadAt, View!Word, Word
<1>8. QED
  BY <1>7 DEF View!Next

\* A new result of thread t changes what t sees and nothing another sees.
LEMMA OthersSeeNothing ==
    ASSUME Inv, NEW t \in Threads, NEW u \in Threads, NEW r,
           ret' = [ret EXCEPT ![t] = r], vol' = vol, u # t
    PROVE  UNCHANGED View(u)!vars
<1>1. ret'[u] = ret[u]
  BY DEF Inv
<1>2. QED
  BY <1>1 DEF View!vars

\* Every step of the threads is a step of each view or leaves it unchanged.
LEMMA ViewStep ==
    ASSUME Inv, [Next]_vars, NEW u \in Threads
    PROVE  UNCHANGED View(u)!vars \/ View(u)!Next
<1>1. vol \in Volume /\ vol.total_size \in Word /\ DOMAIN ret = Threads
  BY SourceAssumption DEF Inv, Volume
<1>2. ASSUME NEW t \in Threads, NEW o \in Offsets, NEW n \in Lens, Call(t, o, n)
      PROVE  UNCHANGED View(u)!vars \/ View(u)!Next
  <2>1. ret' = [ret EXCEPT ![t] = NoResult] /\ vol' = vol
    BY <1>2 DEF Call
  <2>2. CASE u = t
    <3>1. ret'[u] = NoResult
      BY <1>1, <2>1, <2>2
    <3>2. View(u)!Pending
      BY <3>1, SeenNothing DEF View!Pending
    <3>3. QED
      BY <2>1, <3>2 DEF View!Next
  <2>3. QED
    BY <2>1, <2>2, OthersSeeNothing
<1>3. ASSUME NEW t \in Threads, NEW o \in Offsets, CallPastEnd(t, o)
      PROVE  UNCHANGED View(u)!vars \/ View(u)!Next
  <2>1. ret' = [ret EXCEPT ![t] = Result("ok", o, 0, NoBytes)] /\ vol' = vol
    BY <1>3 DEF CallPastEnd
  <2>2. CASE u = t
    <3>1. ret'[u] = Result("ok", o, 0, NoBytes)
      BY <1>1, <2>1, <2>2
    <3>2. NoBytes = PlainBytes(vol, o, 0) /\ DOMAIN NoBytes = 0..(0 - 1)
      BY DEF NoBytes, PlainBytes
    <3>3. o \in Word /\ 0 \in Word
      BY SourceAssumption, WordAssumption DEF Word
    <3>4. QED
      BY <2>1, <3>1, <3>2, <3>3, OkIsReadAt
  <2>3. QED
    BY <2>1, <2>2, OthersSeeNothing
<1>4. ASSUME NEW t \in Threads, NEW k \in {"err", "panic"},
             Leave(t, Result(k, frame[t].offset, 0, NoBytes)), vol' = vol
      PROVE  UNCHANGED View(u)!vars \/ View(u)!Next
  <2>1. ret' = [ret EXCEPT ![t] = Result(k, frame[t].offset, 0, NoBytes)]
    BY <1>4 DEF Leave
  <2>2. CASE u = t
    <3>1. ret'[u] = Result(k, frame[t].offset, 0, NoBytes) /\ frame[t].offset \in Word
      BY <1>1, <2>1, <2>2 DEF Inv, ThreadInv, FrameInv, FrameType
    <3>2. View(u)!Fail
      BY <3>1, SeenFailure DEF View!Fail, View!Word, Word
    <3>3. QED
      BY <1>4, <3>2 DEF View!Next
  <2>3. QED
    BY <1>4, <2>1, <2>2, OthersSeeNothing
<1>5. ASSUME NEW t \in Threads, At(t, "ok"), vol' = vol,
             Leave(t, Result("ok", frame[t].offset, frame[t].len, frame[t].buf))
      PROVE  UNCHANGED View(u)!vars \/ View(u)!Next
  <2> DEFINE f == frame[t]
  <2>1. ret' = [ret EXCEPT ![t] = Result("ok", f.offset, f.len, f.buf)]
    BY <1>5 DEF Leave
  <2>2. FrameInv(vol, f, cursor) /\ (f.len = 0 \/ f.offset + f.len =< vol.total_size)
    BY DEF Inv, ThreadInv
  <2> HIDE DEF f
  <2>3. /\ f.offset \in Word /\ f.len \in Nat /\ f.done = f.len
        /\ f.buf = [i \in 0..(f.len - 1) |-> f.buf[i]]
    BY <1>5, <2>2 DEF FrameInv, FrameType, At, f
  <2>4. f.len \in Word
    BY <1>1, <2>2, <2>3, WordAssumption DEF Word
  <2>5. ASSUME Fits(vol, f.offset, f.len) PROVE f.buf = PlainBytes(vol, f.offset, f.len)
    <3>1. \A i \in 0..(f.len - 1) : f.buf[i] = PlainByte(vol, f.offset + i)
      BY <2>2, <2>3, <2>5 DEF FrameInv, Written
    <3>2. QED
      BY <2>3, <3>1 DEF PlainBytes
  <2>6. CASE u = t
    <3>1. ret'[u] = Result("ok", f.offset, f.len, f.buf)
      BY <1>1, <2>1, <2>6
    <3>2. DOMAIN f.buf = 0..(f.len - 1)
      BY <2>3
    <3>3. QED
      BY <1>5, <2>3, <2>4, <2>5, <3>1, <3>2, OkIsReadAt
  <2>7. QED
    BY <1>5, <2>1, <2>6, OthersSeeNothing
<1>6. ASSUME UNCHANGED <<vol, ret>> PROVE UNCHANGED View(u)!vars
  BY <1>6 DEF View!vars
<1>7. ASSUME NEW t \in Threads, Return(t) \/ Panic(t)
      PROVE  UNCHANGED View(u)!vars \/ View(u)!Next
  BY <1>4, <1>5, <1>7 DEF Return, Panic
<1>8. ASSUME NEW t \in Threads, Inside(t) \/ ReaderFails(t) \/ Lock(t)
      PROVE  UNCHANGED <<vol, ret>> \/ Return(t)
  BY <1>8 DEF Inside, ReaderFails, Lock, Steps, LoopDone, BlankSector, SeekSector, ReadChunk,
              ReadEof, DecryptSector
<1>9. QED
  BY <1>2, <1>3, <1>6, <1>7, <1>8 DEF Next, vars

\* Each thread has the atomic plaintext view to itself, for every number of
\* threads, whatever the others read and however the reader fails or panics.
THEOREM ViewsAreSeparate == Spec => EachThreadHasItsView
<1>1. ASSUME Init PROVE \A t \in Threads : View(t)!Init
  <2>1. ASSUME NEW t \in Threads PROVE View(t)!Init
    <3>1. ret[t] = NoResult /\ vol \in Volume
      BY <1>1, SourceAssumption DEF Init
    <3>2. QED
      BY <3>1, SeenNothing DEF View!Init, View!Volume, View!Word, View!MetadataCopies,
                               Volume, Word, MetadataCopies
  <2>2. QED
    BY <2>1
<1>2. ASSUME Inv, [Next]_vars
      PROVE  [\A t \in Threads : UNCHANGED View(t)!vars \/ View(t)!Next]_<<vol, ret>>
  BY <1>2, ViewStep
<1>3. QED
  BY <1>1, <1>2, Invariance, PTL DEF Spec, EachThreadHasItsView
=============================================================================
