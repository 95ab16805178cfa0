--------------------------- MODULE BitlockerSource ---------------------------
(***************************************************************************)
(* Threads reading one decrypted volume through BitlockerSource::read_at.  *)
(*                                                                         *)
(* They share a reader, and so its cursor, behind a Mutex.  A panic inside *)
(* the reader unwinds through the guard and poisons the Mutex; lock()      *)
(* recovers the volume from a poisoned Mutex and goes on.                  *)
(* A name with a suffix, as in Lock_Shared, is a plausible mistake in the  *)
(* operator before the underscore.                                         *)
(***************************************************************************)
EXTENDS ReadAt

CONSTANTS
    Threads,
    NoThread,  \* the owner of a free Mutex
    Volumes,   \* the unlocked volumes considered
    Offsets,   \* the addresses a caller asks for
    Lens       \* the buffer lengths a caller passes

ASSUME SourceAssumption ==
    /\ NoThread \notin Threads
    /\ Volumes \subseteq Volume
    /\ Offsets \subseteq Word
    /\ Lens \subseteq Nat

VARIABLES
    vol,       \* total_size and the metadata of the unlocked volume
    cursor,    \* where the shared reader stands
    owner,     \* who holds the Mutex
    poisoned,  \* the Mutex's poison flag
    stage,     \* of each thread: "idle", "lock" (in lock()) or "inside"
    frame,     \* of each thread: its call of DecryptedVolume::read_at
    ret        \* of each thread: the result of its last call

vars == <<vol, cursor, owner, poisoned, stage, frame, ret>>

\* Ok(len) with the bytes delivered, an error, or a panic that was caught.
Result(kind, at, len, data) == [kind |-> kind, at |-> at, len |-> len, data |-> data]
NoBytes == [i \in {} |-> Zero]
NoResult == Result("none", 0, 0, NoBytes)

Init == /\ vol \in Volumes
        /\ cursor = vol.total_size
        /\ owner = NoThread
        /\ poisoned = FALSE
        /\ stage = [t \in Threads |-> "idle"]
        /\ frame = [t \in Threads |-> Frame(0, 0)]
        /\ ret = [t \in Threads |-> NoResult]

Want_Unclamped(offset, len) == len
Want(offset, len) == Min({len, vol.total_size - offset})

\* The address is in range: clamp the length and wait for the Mutex.
Call(t, offset, len) ==
    /\ stage[t] = "idle"
    /\ offset < vol.total_size
    /\ stage' = [stage EXCEPT ![t] = "lock"]
    /\ frame' = [frame EXCEPT ![t] = Frame(offset, Want(offset, len))]
    /\ ret' = [ret EXCEPT ![t] = NoResult]
    /\ UNCHANGED <<vol, cursor, owner, poisoned>>

\* avail == 0: Ok(0) without touching the Mutex.
CallPastEnd(t, offset) ==
    /\ stage[t] = "idle"
    /\ offset >= vol.total_size
    /\ ret' = [ret EXCEPT ![t] = Result("ok", offset, 0, NoBytes)]
    /\ UNCHANGED <<vol, cursor, owner, poisoned, stage, frame>>

Lock_Shared(t) ==
    /\ stage[t] = "lock"
    /\ owner' = t
    /\ stage' = [stage EXCEPT ![t] = "inside"]
    /\ UNCHANGED <<vol, cursor, poisoned, frame, ret>>

Lock_RefusesPoison(t) ==
    /\ stage[t] = "lock"
    /\ owner = NoThread /\ ~poisoned
    /\ owner' = t
    /\ stage' = [stage EXCEPT ![t] = "inside"]
    /\ UNCHANGED <<vol, cursor, poisoned, frame, ret>>

\* lock().unwrap_or_else(PoisonError::into_inner): poisoned or not.
Lock(t) ==
    /\ stage[t] = "lock"
    /\ owner = NoThread
    /\ owner' = t
    /\ stage' = [stage EXCEPT ![t] = "inside"]
    /\ UNCHANGED <<vol, cursor, poisoned, frame, ret>>

-----------------------------------------------------------------------------
(* The steps of DecryptedVolume::read_at under the guard.  A read that is  *)
(* interrupted is made again, which changes nothing.                       *)

At(t, pc) == stage[t] = "inside" /\ frame[t].pc = pc

Steps(t, f, c) ==
    /\ frame' = [frame EXCEPT ![t] = f]
    /\ cursor' = c
    /\ UNCHANGED <<vol, owner, poisoned, stage, ret>>

LoopDone(t) ==
    /\ At(t, "head") /\ frame[t].done = frame[t].len
    /\ Steps(t, Finished(frame[t], "ok"), cursor)

BlankSector(t) ==
    /\ At(t, "head") /\ frame[t].done < frame[t].len
    /\ Blanked(vol, SectorStart(frame[t]))
    /\ Steps(t, Copy(frame[t], ZeroSector), cursor)

SeekSector(t) ==
    LET p == Physical(vol, SectorStart(frame[t]))
    IN  /\ At(t, "head") /\ frame[t].done < frame[t].len
        /\ ~Blanked(vol, SectorStart(frame[t]))
        /\ Steps(t, Seeked(frame[t], p), p)

ReadChunk(t) ==
    /\ At(t, "fill")
    /\ \E n \in ReadSizes(vol, frame[t], cursor) :
          Steps(t, Received(frame[t], cursor, n), cursor + n)

ReadEof(t) ==
    /\ At(t, "fill") /\ cursor >= vol.total_size
    /\ Steps(t, EndOfImage(frame[t]), cursor)

\* The thread is in, or about to make, a call of the reader.
UsesReader(t) ==
    \/ At(t, "fill")
    \/ /\ At(t, "head") /\ frame[t].done < frame[t].len
       /\ ~Blanked(vol, SectorStart(frame[t]))

ReaderFails(t) ==
    /\ UsesReader(t)
    /\ Steps(t, Finished(frame[t], "err"), cursor)

DecryptSector(t) ==
    /\ At(t, "plain")
    /\ Steps(t, Copy(frame[t], Plain(vol, frame[t])), cursor)

\* The guard is dropped as read_at leaves, with Ok(want) or the mapped error.
Leave(t, result) ==
    /\ stage' = [stage EXCEPT ![t] = "idle"]
    /\ frame' = [frame EXCEPT ![t] = Frame(0, 0)]
    /\ ret' = [ret EXCEPT ![t] = result]

Return(t) ==
    /\ \/ At(t, "ok") /\ Leave(t, Result("ok", frame[t].offset, frame[t].len, frame[t].buf))
       \/ At(t, "err") /\ Leave(t, Result("err", frame[t].offset, 0, NoBytes))
    /\ owner' = NoThread
    /\ UNCHANGED <<vol, cursor, poisoned>>

Panic_KeepsGuard(t) ==
    /\ UsesReader(t)
    /\ cursor' \in Offsets
    /\ poisoned' = TRUE
    /\ Leave(t, Result("panic", frame[t].offset, 0, NoBytes))
    /\ UNCHANGED <<vol, owner>>

\* The reader panics, its cursor anywhere: the guard's drop
\* releases and poisons the Mutex, and the caller catches the unwinding.
Panic(t) ==
    /\ UsesReader(t)
    /\ cursor' \in Offsets
    /\ owner' = NoThread
    /\ poisoned' = TRUE
    /\ Leave(t, Result("panic", frame[t].offset, 0, NoBytes))
    /\ UNCHANGED vol

Inside(t) == \/ LoopDone(t) \/ BlankSector(t) \/ SeekSector(t) \/ ReadChunk(t) \/ ReadEof(t)
             \/ DecryptSector(t) \/ Return(t)

Next == \E t \in Threads :
            \/ \E o \in Offsets, n \in Lens : Call(t, o, n)
            \/ \E o \in Offsets : CallPastEnd(t, o)
            \/ Lock(t)
            \/ Inside(t)
            \/ ReaderFails(t)
            \/ Panic(t)

Spec == Init /\ [][Next]_vars

\* Threads inside the Mutex keep running, and a free Mutex is handed to some
\* waiter; std's Mutex does not promise more (no fairness between waiters).
\* That the reader fails or panics is never counted on.
FairSpec == /\ Spec
            /\ \A t \in Threads : WF_vars(Inside(t))
            /\ WF_vars(\E t \in Threads : Lock(t))

-----------------------------------------------------------------------------
\* A call's indices stay inside its buffer and its sector: no slice panics.
TypeOK ==
    /\ vol \in Volumes
    /\ cursor \in Nat
    /\ owner \in Threads \cup {NoThread}
    /\ poisoned \in BOOLEAN
    /\ \A t \in Threads :
          /\ stage[t] \in {"idle", "lock", "inside"}
          /\ frame[t].done \in 0..frame[t].len /\ frame[t].filled \in 0..SectorSize
          /\ DOMAIN frame[t].buf = 0..(frame[t].len - 1)
          /\ ret[t].kind \in {"none", "ok", "err", "panic"}

\* Every read that returns Ok delivered the plaintext of its addresses, all of
\* it within the volume, however the other threads' reads, failures and
\* panics came between: nobody moves the cursor between a seek and the reads
\* that follow it, and a poisoned volume still reads back right.
ReadsAreIsolated ==
    \A t \in Threads : LET r == ret[t]
                       IN  r.kind = "ok" =>
                              /\ r.len = 0 \/ r.at + r.len =< vol.total_size
                              /\ Fits(vol, r.at, r.len) => r.data = PlainBytes(vol, r.at, r.len)

\* A thread that is filling a sector finds the cursor where its own reads
\* left it.
CursorIsOwned ==
    \A t \in Threads : At(t, "fill") => cursor = frame[t].physical + frame[t].filled

\* The Mutex never stays held: every call ends, and a panic releases it.
MutexIsReleased == owner # NoThread ~> owner = NoThread

\* Once no new calls arrive, every pending call returns, also after a panic
\* has poisoned the Mutex.
PendingCallsReturn ==
    <>[][\A t \in Threads : stage[t] = "idle" => stage'[t] = "idle"]_vars
        => \A t \in Threads : stage[t] = "lock" ~> stage[t] = "idle"
(***************************************************************************)
(* What one thread sees of the volume: the results of its own calls, with  *)
(* failures of all kinds alike.                                            *)
(***************************************************************************)
Seen(r) == [call |-> IF r.kind = "none" THEN "none" ELSE "read_at",
            ok |-> r.kind = "ok", at |-> r.at, data |-> r.data]

View(t) == INSTANCE PlainView WITH
    Lens <- Word, vol <- vol, position <- 0, ret <- Seen(ret[t])

\* Sharing is invisible: to each thread, its calls are the atomic calls of a
\* view of its own, whose position read_at never moves.
EachThreadHasItsView ==
    /\ \A t \in Threads : View(t)!Init
    /\ [][\A t \in Threads : UNCHANGED View(t)!vars \/ View(t)!Next]_<<vol, ret>>
=============================================================================
