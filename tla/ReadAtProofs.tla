---------------------------- MODULE ReadAtProofs ----------------------------
(***************************************************************************)
(* Facts about one read_at call, for every sector size, address width,     *)
(* image and cipher.                                                       *)
(***************************************************************************)
EXTENDS ReadAt, TLAPS

(***************************************************************************)
(* Arithmetic of sector addresses.                                         *)
(***************************************************************************)
\* A remainder is a non-negative number below the divisor.
LEMMA ModRange ==
    ASSUME NEW s \in Nat \ {0}, NEW a \in Nat
    PROVE  (a % s) \in 0..(s - 1)
OBVIOUS

\* A number is its quotient times the divisor plus its remainder.
LEMMA DivMod ==
    ASSUME NEW s \in Nat \ {0}, NEW a \in Nat
    PROVE  a = s * (a \div s) + (a % s) /\ (a \div s) \in Nat
OBVIOUS

\* Quotient and remainder are unique.
LEMMA ModUnique ==
    ASSUME NEW s \in Nat \ {0}, NEW q \in Int, NEW p \in Int,
           NEW r \in 0..(s - 1), NEW t \in 0..(s - 1),
           s * q + r = s * p + t
    PROVE  r = t
<1>1. s * (q - p) = t - r
  OBVIOUS
<1>2. q - p < 1
  <2>1. SUFFICES ASSUME q - p >= 1 PROVE FALSE
    OBVIOUS
  <2>2. s * (q - p) >= s
    BY <2>1
  <2>3. QED
    BY <1>1, <2>2
<1>3. q - p > -1
  <2>1. SUFFICES ASSUME p - q >= 1 PROVE FALSE
    OBVIOUS
  <2>2. s * (p - q) >= s
    BY <2>1
  <2>3. s * (p - q) = r - t
    OBVIOUS
  <2>4. QED
    BY <2>2, <2>3
<1>4. q = p
  BY <1>2, <1>3
<1>5. QED
  BY <1>1, <1>4

\* A step that stays below the end of the sector moves only the remainder.
LEMMA ModAdd ==
    ASSUME NEW s \in Nat \ {0}, NEW a \in Nat, NEW j \in Nat, (a % s) + j < s
    PROVE  (a + j) % s = (a % s) + j
<1> DEFINE q == a \div s
           p == (a + j) \div s
           r == a % s
           t == (a + j) % s
<1>1. a = s * q + r /\ q \in Nat /\ r \in 0..(s - 1)
  BY ModRange, DivMod
<1>2. a + j \in Nat
  OBVIOUS
<1>3. a + j = s * p + t /\ p \in Nat /\ t \in 0..(s - 1)
  BY <1>2, ModRange, DivMod
<1>4. r + j \in 0..(s - 1)
  BY <1>1
<1> HIDE DEF q, p, r, t
<1>5. s * q + (r + j) = s * p + t
  BY <1>1, <1>3
<1>6. r + j = t
  BY <1>1, <1>3, <1>4, <1>5, ModUnique
<1>7. QED
  BY <1>6 DEF r, t

\* A word is its own remainder.
LEMMA ModSmall ==
    ASSUME NEW s \in Nat \ {0}, NEW a \in Nat, a < s
    PROVE  a % s = a
OBVIOUS

\* The smaller of two integers.
LEMMA MinTwo ==
    ASSUME NEW a \in Int, NEW b \in Int
    PROVE  Min({a, b}) = IF a =< b THEN a ELSE b
BY DEF Min

-----------------------------------------------------------------------------
(***************************************************************************)
(* Where no address overflows, the code's arithmetic is the view's.        *)
(***************************************************************************)
\* An in-range sum does not wrap.
LEMMA AddFits ==
    ASSUME NEW a \in Nat, NEW b \in Nat, a + b < U64
    PROVE  Add64(a, b) = a + b
BY WordAssumption, ModSmall DEF Add64

\* A sector address is at most the address and leaves the remainder.
LEMMA SectorFacts ==
    ASSUME NEW a \in Nat
    PROVE  /\ (a % SectorSize) \in SectorBytes
           /\ SectorOf(a) \in Int
           /\ a - SectorOf(a) = a % SectorSize
BY WordAssumption, ModRange DEF SectorOf, SectorBytes

\* Blanking covers exactly the metadata regions, and the physical address is
\* the sector's home.
LEMMA GeometryFits ==
    ASSUME NEW v \in Volume, NEW o \in Nat, NEW n \in Nat, Fits(v, o, n),
           NEW s \in Nat
    PROVE  /\ Blanked(v, s) <=> InMetadata(v, s)
           /\ Physical(v, s) = Home(v, s)
<1>1. \A k \in MetadataCopies :
         /\ v.metadata_offsets[k] \in Nat
         /\ v.metadata_size \in Nat
         /\ v.metadata_offsets[k] + v.metadata_size < U64
  BY WordAssumption DEF Volume, Word, Fits
<1>2. \A k \in MetadataCopies :
         Add64(v.metadata_offsets[k], v.metadata_size)
            = v.metadata_offsets[k] + v.metadata_size
  BY <1>1, AddFits
<1>3. Blanked(v, s) <=> InMetadata(v, s)
  BY <1>1, <1>2 DEF Blanked, InMetadata
<1>4. ASSUME s < v.volume_header_size
      PROVE  Add64(v.volume_header_offset, s) = v.volume_header_offset + s
  <2>1. v.volume_header_offset \in Nat /\ v.volume_header_size \in Nat
    BY WordAssumption DEF Volume, Word
  <2>2. v.volume_header_offset + s < U64
    BY <1>4, <2>1, WordAssumption DEF Fits
  <2>3. QED
    BY <2>1, <2>2, AddFits
<1>5. Physical(v, s) = Home(v, s)
  BY <1>4 DEF Physical, Home
<1>6. QED
  BY <1>3, <1>5

-----------------------------------------------------------------------------
(***************************************************************************)
(* The invariant of a frame.                                               *)
(***************************************************************************)
FrameFields == {"pc", "offset", "len", "done", "buf", "physical", "filled", "ct"}

FrameType(f) ==
    /\ DOMAIN f = FrameFields
    /\ f.pc \in {"head", "fill", "plain", "ok", "err"}
    /\ f.offset \in Word /\ f.len \in Nat /\ f.done \in 0..f.len
    /\ f.buf = [i \in 0..(f.len - 1) |-> f.buf[i]]
    /\ f.physical \in Word
    /\ f.filled \in 0..SectorSize
    /\ f.ct = [j \in SectorBytes |-> f.ct[j]]

\* The frame is working on a sector that has to be fetched.
Fetching(v, f) ==
    /\ f.done < f.len
    /\ ~Blanked(v, SectorStart(f))
    /\ f.physical = Physical(v, SectorStart(f))

\* The written part of the buffer is plaintext.
Written(v, f) ==
    Fits(v, f.offset, f.len) =>
        \A i \in 0..(f.done - 1) : f.buf[i] = PlainByte(v, f.offset + i)

\* What a frame has obtained so far.  While it fills a sector, `cursor` must
\* stand where the frame's own reads have brought it: this is what a second
\* user of the reader would break.
FrameInv(v, f, cursor) ==
    /\ FrameType(f)
    /\ f.pc = "fill" =>
          /\ Fetching(v, f)
          /\ f.filled < SectorSize
          /\ cursor = f.physical + f.filled
          /\ \A j \in 0..(f.filled - 1) : f.ct[j] = Stored(v, f.physical)[j]
    /\ f.pc = "plain" => Fetching(v, f) /\ f.ct = Stored(v, f.physical)
    /\ f.pc = "ok" => f.done = f.len
    /\ Written(v, f)

\* Only a frame that is filling a sector depends on the cursor.
LEMMA CursorFree ==
    ASSUME NEW v, NEW f, NEW c, NEW d, FrameInv(v, f, c), f.pc # "fill"
    PROVE  FrameInv(v, f, d)
BY DEF FrameInv

\* A fresh frame satisfies the invariant, wherever the cursor is.
LEMMA FrameStarts ==
    ASSUME NEW v, NEW o \in Word, NEW n \in Nat, NEW c
    PROVE  FrameInv(v, Frame(o, n), c)
<1> DEFINE f == Frame(o, n)
<1>1. FrameType(f)
  BY WordAssumption DEF FrameType, FrameFields, Frame, ZeroSector, Word
<1>2. f.pc = "head" /\ f.done = 0
  BY DEF Frame
<1>3. Written(v, f)
  BY <1>2 DEF Written
<1>4. QED
  BY <1>1, <1>2, <1>3 DEF FrameInv

\* The address a frame is at, its sector and its place in the sector.
LEMMA FramePos ==
    ASSUME NEW f, FrameType(f)
    PROVE  /\ Pos(f) \in Word
           /\ SectorStart(f) \in Word
           /\ Within(f) \in SectorBytes
           /\ Within(f) = Pos(f) % SectorSize
<1>1. f.offset + f.done \in Nat
  BY WordAssumption DEF FrameType, Word
<1>2. Pos(f) \in Word
  BY <1>1, WordAssumption, ModRange DEF Pos, Add64, Word
<1>3. Pos(f) \in Nat
  BY <1>2, WordAssumption DEF Word
<1>4. (Pos(f) % SectorSize) \in 0..(SectorSize - 1) /\ Pos(f) % SectorSize =< Pos(f)
  <2>1. (Pos(f) % SectorSize) \in 0..(SectorSize - 1)
    BY <1>3, WordAssumption, ModRange
  <2>2. CASE Pos(f) < SectorSize
    BY <1>3, <2>1, <2>2, WordAssumption, ModSmall
  <2>3. CASE Pos(f) >= SectorSize
    BY <1>3, <2>1, <2>3, WordAssumption
  <2>4. QED
    BY <1>3, <2>1, <2>2, <2>3, WordAssumption
<1>5. QED
  BY <1>2, <1>3, <1>4, WordAssumption DEF SectorStart, Within, SectorBytes, Word

\* A physical address is a word.
LEMMA PhysicalType ==
    ASSUME NEW v \in Volume, NEW s \in Word
    PROVE  Physical(v, s) \in Word
<1>1. v.volume_header_offset + s \in Nat
  BY WordAssumption DEF Volume, Word
<1>2. Add64(v.volume_header_offset, s) \in Word
  BY <1>1, WordAssumption, ModRange DEF Add64, Word
<1>3. QED
  BY <1>2 DEF Physical

\* Frames that agree on the call and on how far it is are at the same sector
\* and have written the same bytes.
LEMMA SameProgress ==
    ASSUME NEW v, NEW f, NEW g, Written(v, f),
           g.offset = f.offset, g.len = f.len, g.done = f.done, g.buf = f.buf
    PROVE  SectorStart(g) = SectorStart(f) /\ Written(v, g)
BY DEF SectorStart, Pos, Written

\* After the seek, the cursor is where the frame expects it.
LEMMA SeekedInv ==
    ASSUME NEW v \in Volume, NEW f, NEW c, FrameInv(v, f, c),
           f.pc = "head", f.done < f.len, ~Blanked(v, SectorStart(f)),
           NEW p, p = Physical(v, SectorStart(f))
    PROVE  FrameInv(v, Seeked(f, p), p)
<1> DEFINE g == Seeked(f, p)
<1>1. FrameType(f) /\ Written(v, f)
  BY DEF FrameInv
<1>2. p \in Word
  BY <1>1, FramePos, PhysicalType
<1>3. /\ g.offset = f.offset /\ g.len = f.len /\ g.done = f.done /\ g.buf = f.buf
      /\ g.pc = "fill" /\ g.physical = p /\ g.filled = 0 /\ g.ct = ZeroSector
  BY <1>1 DEF FrameType, FrameFields, Seeked
<1>4. DOMAIN g = FrameFields
  BY <1>1 DEF FrameType, FrameFields, Seeked
<1> HIDE DEF g
<1>5. FrameType(g)
  BY <1>1, <1>2, <1>3, <1>4, WordAssumption DEF FrameType, ZeroSector
<1>6. SectorStart(g) = SectorStart(f) /\ Written(v, g)
  BY <1>1, <1>3, SameProgress
<1>7. Fetching(v, g)
  BY <1>3, <1>6 DEF Fetching
<1>8. g.filled < SectorSize /\ p = g.physical + g.filled
  BY <1>2, <1>3, WordAssumption DEF Word
<1>9. \A j \in 0..(g.filled - 1) : g.ct[j] = Stored(v, g.physical)[j]
  BY <1>3
<1>10. FrameInv(v, g, p)
  BY <1>3, <1>5, <1>6, <1>7, <1>8, <1>9 DEF FrameInv
<1>11. QED
  BY <1>10 DEF g

\* A short read extends the fetched prefix of the sector.
LEMMA ReceivedInv ==
    ASSUME NEW v \in Volume, NEW f, NEW c, FrameInv(v, f, c), f.pc = "fill",
           NEW n \in ReadSizes(v, f, c)
    PROVE  FrameInv(v, Received(f, c, n), c + n)
<1> DEFINE g == Received(f, c, n)
<1>1. FrameType(f) /\ Written(v, f) /\ Fetching(v, f)
  BY DEF FrameInv
<1>2. /\ f.filled \in Nat /\ f.physical \in Nat /\ v.total_size \in Nat
      /\ f.filled < SectorSize /\ c = f.physical + f.filled
  BY <1>1, WordAssumption DEF FrameInv, FrameType, Volume, Word
<1>3. n \in Nat /\ n >= 1 /\ f.filled + n =< SectorSize /\ c + n =< v.total_size
  <2> DEFINE a == SectorSize - f.filled
             b == IF c < v.total_size THEN v.total_size - c ELSE 0
  <2>1. a \in Int /\ b \in Int
    BY <1>2, WordAssumption
  <2>2. Min({a, b}) = IF a =< b THEN a ELSE b
    BY <2>1, MinTwo
  <2>3. n \in 1..(IF a =< b THEN a ELSE b)
    BY <2>2 DEF ReadSizes
  <2>4. QED
    BY <1>2, <2>1, <2>3, WordAssumption
<1>4. /\ g.offset = f.offset /\ g.len = f.len /\ g.done = f.done /\ g.buf = f.buf
      /\ g.physical = f.physical
  BY <1>1 DEF FrameType, FrameFields, Received
<1>5. g.filled = f.filled + n
  BY <1>1 DEF FrameType, FrameFields, Received
<1>6. g.pc = IF f.filled + n = SectorSize THEN "plain" ELSE "fill"
  BY <1>1 DEF FrameType, FrameFields, Received
<1>7. g.ct = [j \in SectorBytes |->
                 IF f.filled =< j /\ j < f.filled + n
                 THEN Image(c + (j - f.filled)) ELSE f.ct[j]]
  BY <1>1 DEF FrameType, FrameFields, Received
<1>8. DOMAIN g = FrameFields
  BY <1>1 DEF FrameType, FrameFields, Received
<1> HIDE DEF g
<1>9. FrameType(g)
  <2>1. g.ct = [j \in SectorBytes |-> g.ct[j]]
    BY <1>7
  <2>2. g.filled \in 0..SectorSize /\ g.pc \in {"fill", "plain"}
    BY <1>2, <1>3, <1>5, <1>6, WordAssumption
  <2>3. QED
    BY <1>1, <1>4, <1>8, <2>1, <2>2 DEF FrameType
<1>10. SectorStart(g) = SectorStart(f) /\ Written(v, g)
  BY <1>1, <1>4, SameProgress
<1>11. Fetching(v, g)
  BY <1>1, <1>4, <1>10 DEF Fetching
<1>12. ASSUME NEW j \in 0..(g.filled - 1)
       PROVE  g.ct[j] = Stored(v, g.physical)[j]
  <2>1. j \in SectorBytes /\ j \in Nat /\ j < f.filled + n
    BY <1>2, <1>3, <1>5, <1>12, WordAssumption DEF SectorBytes
  <2>2. CASE j < f.filled
    <3>1. j \in 0..(f.filled - 1)
      BY <1>2, <2>1, <2>2
    <3>2. g.ct[j] = f.ct[j]
      BY <1>2, <1>7, <2>1, <2>2
    <3>3. QED
      BY <1>4, <3>1, <3>2 DEF FrameInv
  <2>3. CASE f.filled =< j
    <3>1. g.ct[j] = Image(c + (j - f.filled))
      BY <1>7, <2>1, <2>3
    <3>2. c + (j - f.filled) = f.physical + j /\ f.physical + j < v.total_size
      BY <1>2, <1>3, <2>1
    <3>3. QED
      BY <1>4, <2>1, <3>1, <3>2 DEF Stored
  <2>4. QED
    BY <1>2, <2>1, <2>2, <2>3
<1>13. ASSUME g.pc = "plain" PROVE g.ct = Stored(v, g.physical)
  <2>1. g.filled = SectorSize
    BY <1>5, <1>6, <1>13
  <2>2. \A j \in SectorBytes : g.ct[j] = Stored(v, g.physical)[j]
    BY <1>12, <2>1 DEF SectorBytes
  <2>3. QED
    BY <1>9, <2>2 DEF FrameType, Stored
<1>14. ASSUME g.pc = "fill"
       PROVE  g.filled < SectorSize /\ c + n = g.physical + g.filled
  <2>1. f.filled + n # SectorSize
    BY <1>6, <1>14
  <2>2. f.filled + n < SectorSize
    BY <1>2, <1>3, <2>1, WordAssumption
  <2>3. c + n = f.physical + (f.filled + n)
    BY <1>2, <1>3
  <2>4. QED
    BY <1>4, <1>5, <2>2, <2>3
<1>15. g.pc # "ok"
  BY <1>6
<1>16. FrameInv(v, g, c + n)
  BY <1>9, <1>10, <1>11, <1>12, <1>13, <1>14, <1>15 DEF FrameInv
<1>17. QED
  BY <1>16 DEF g

\* At the end of the image the rest of the sector is zero, as in the view.
LEMMA EndOfImageInv ==
    ASSUME NEW v \in Volume, NEW f, NEW c, FrameInv(v, f, c), f.pc = "fill",
           c >= v.total_size
    PROVE  FrameInv(v, EndOfImage(f), c)
<1> DEFINE g == EndOfImage(f)
<1>1. FrameType(f) /\ Written(v, f) /\ Fetching(v, f)
  BY DEF FrameInv
<1>2. /\ f.filled \in Nat /\ f.physical \in Nat /\ v.total_size \in Nat
      /\ c = f.physical + f.filled
  BY <1>1, WordAssumption DEF FrameInv, FrameType, Volume, Word
<1>3. /\ g.offset = f.offset /\ g.len = f.len /\ g.done = f.done /\ g.buf = f.buf
      /\ g.physical = f.physical /\ g.filled = f.filled /\ g.pc = "plain"
  BY <1>1 DEF FrameType, FrameFields, EndOfImage
<1>4. g.ct = [j \in SectorBytes |-> IF j < f.filled THEN f.ct[j] ELSE Zero]
  BY <1>1 DEF FrameType, FrameFields, EndOfImage
<1>5. DOMAIN g = FrameFields
  BY <1>1 DEF FrameType, FrameFields, EndOfImage
<1> HIDE DEF g
<1>6. FrameType(g)
  <2>1. g.ct = [j \in SectorBytes |-> g.ct[j]]
    BY <1>4
  <2>2. QED
    BY <1>1, <1>3, <1>5, <2>1 DEF FrameType
<1>7. SectorStart(g) = SectorStart(f) /\ Written(v, g)
  BY <1>1, <1>3, SameProgress
<1>8. Fetching(v, g)
  BY <1>1, <1>3, <1>7 DEF Fetching
<1>9. ASSUME NEW j \in SectorBytes PROVE g.ct[j] = Stored(v, g.physical)[j]
  <2>1. j \in Nat
    BY <1>9, WordAssumption DEF SectorBytes
  <2>2. CASE j < f.filled
    <3>1. j \in 0..(f.filled - 1)
      BY <1>2, <2>1, <2>2
    <3>2. g.ct[j] = f.ct[j]
      BY <1>4, <2>2
    <3>3. QED
      BY <1>3, <3>1, <3>2 DEF FrameInv
  <2>3. CASE ~(j < f.filled)
    <3>1. ~(f.physical + j < v.total_size)
      BY <1>2, <2>1, <2>3
    <3>2. QED
      BY <1>3, <1>4, <2>3, <3>1 DEF Stored
  <2>4. QED
    BY <2>2, <2>3
<1>10. g.ct = Stored(v, g.physical)
  BY <1>6, <1>9 DEF FrameType, Stored
<1>11. FrameInv(v, g, c)
  BY <1>3, <1>6, <1>7, <1>8, <1>10 DEF FrameInv
<1>12. QED
  BY <1>11 DEF g

\* Ending the call changes nothing that was written.
LEMMA FinishedInv ==
    ASSUME NEW v, NEW f, NEW c, FrameInv(v, f, c), NEW pc,
           pc = "err" \/ (pc = "ok" /\ f.done = f.len)
    PROVE  FrameInv(v, Finished(f, pc), c)
<1> DEFINE g == Finished(f, pc)
<1>1. FrameType(f) /\ Written(v, f)
  BY DEF FrameInv
<1>2. /\ g.offset = f.offset /\ g.len = f.len /\ g.done = f.done /\ g.buf = f.buf
      /\ g.physical = f.physical /\ g.filled = f.filled /\ g.ct = f.ct /\ g.pc = pc
  BY <1>1 DEF FrameType, FrameFields, Finished
<1>3. DOMAIN g = FrameFields
  BY <1>1 DEF FrameType, FrameFields, Finished
<1> HIDE DEF g
<1>4. FrameType(g)
  BY <1>1, <1>2, <1>3 DEF FrameType
<1>5. Written(v, g)
  BY <1>1, <1>2, SameProgress
<1>6. FrameInv(v, g, c)
  BY <1>2, <1>4, <1>5 DEF FrameInv
<1>7. QED
  BY <1>6 DEF g

\* Bytes of one sector: the addresses the copy covers lie in the sector of the
\* first one, at consecutive places.
LEMMA SameSector ==
    ASSUME NEW a \in Nat, NEW j \in Nat, (a % SectorSize) + j < SectorSize
    PROVE  /\ SectorOf(a + j) = SectorOf(a)
           /\ (a + j) % SectorSize = (a % SectorSize) + j
<1>1. (a + j) % SectorSize = (a % SectorSize) + j
  BY ModAdd, WordAssumption
<1>2. (a % SectorSize) \in Int
  BY ModRange, WordAssumption
<1>3. (a + j) - ((a % SectorSize) + j) = a - (a % SectorSize)
  BY <1>2
<1>4. QED
  BY <1>1, <1>3 DEF SectorOf

\* Copying the right sector extends the written plaintext.
LEMMA CopyInv ==
    ASSUME NEW v \in Volume, NEW f, NEW c, FrameInv(v, f, c), f.done < f.len,
           NEW plain,
           Fits(v, f.offset, f.len) => plain = PlainSector(v, SectorStart(f))
    PROVE  FrameInv(v, Copy(f, plain), c)
<1> DEFINE g == Copy(f, plain)
<1>1. FrameType(f) /\ Written(v, f)
  BY DEF FrameInv
<1>2. f.offset \in Nat /\ f.done \in Nat /\ f.len \in Nat
  BY <1>1, WordAssumption DEF FrameType, Word
<1>3. Within(f) \in SectorBytes /\ Within(f) = Pos(f) % SectorSize
  BY <1>1, FramePos
<1>4. /\ Take(f) \in Nat /\ Take(f) >= 1
      /\ f.done + Take(f) =< f.len /\ Within(f) + Take(f) =< SectorSize
  <2> DEFINE a == SectorSize - Within(f)
             b == f.len - f.done
  <2>1. a \in Int /\ b \in Int /\ a >= 1 /\ b >= 1
    BY <1>2, <1>3, WordAssumption DEF SectorBytes
  <2>2. Take(f) = IF a =< b THEN a ELSE b
    BY <2>1, MinTwo DEF Take
  <2>3. Within(f) \in Int
    BY <1>3, WordAssumption DEF SectorBytes
  <2>4. QED
    BY <1>2, <2>1, <2>2, <2>3, WordAssumption
<1>5. /\ g.offset = f.offset /\ g.len = f.len /\ g.pc = "head"
      /\ g.physical = f.physical /\ g.filled = f.filled /\ g.ct = f.ct
  BY <1>1 DEF FrameType, FrameFields, Copy
<1>6. g.done = f.done + Take(f)
  BY <1>1 DEF FrameType, FrameFields, Copy
<1>7. g.buf = [i \in 0..(f.len - 1) |->
                  IF f.done =< i /\ i < f.done + Take(f)
                  THEN plain[Within(f) + (i - f.done)] ELSE f.buf[i]]
  BY <1>1 DEF FrameType, FrameFields, Copy
<1>8. DOMAIN g = FrameFields
  BY <1>1 DEF FrameType, FrameFields, Copy
<1> HIDE DEF g
<1>9. FrameType(g)
  <2>1. g.buf = [i \in 0..(g.len - 1) |-> g.buf[i]]
    BY <1>5, <1>7
  <2>2. g.done \in 0..g.len
    BY <1>2, <1>4, <1>5, <1>6
  <2>3. QED
    BY <1>1, <1>5, <1>8, <2>1, <2>2 DEF FrameType
<1>10. ASSUME Fits(v, f.offset, f.len), NEW i \in 0..(g.done - 1)
       PROVE  g.buf[i] = PlainByte(v, f.offset + i)
  <2>1. i \in Nat /\ i < f.done + Take(f) /\ i \in 0..(f.len - 1)
    BY <1>2, <1>4, <1>6
  <2>2. CASE i < f.done
    <3>1. i \in 0..(f.done - 1)
      BY <1>2, <2>1, <2>2
    <3>2. g.buf[i] = f.buf[i]
      BY <1>2, <1>7, <2>1, <2>2
    <3>3. QED
      BY <1>1, <1>10, <3>1, <3>2 DEF Written
  <2>3. CASE f.done =< i
    <3> DEFINE a == f.offset + f.done
               j == i - f.done
    <3>1. a \in Nat /\ j \in Nat /\ a + j = f.offset + i /\ j < Take(f)
      BY <1>2, <2>1, <2>3, <1>4
    <3>2. Pos(f) = a
      <4>1. a < U64
        BY <1>2, <1>10, WordAssumption DEF Fits
      <4>2. QED
        BY <1>2, <4>1, AddFits DEF Pos
    <3>3. SectorStart(f) = SectorOf(a) /\ Within(f) = a % SectorSize
      BY <1>3, <3>2 DEF SectorStart, SectorOf
    <3>4. (a % SectorSize) + j < SectorSize
      <4>1. Within(f) \in Int
        BY <1>3, WordAssumption DEF SectorBytes
      <4>2. Within(f) + j < SectorSize
        BY <1>4, <3>1, <4>1, WordAssumption
      <4>3. QED
        BY <3>3, <4>2
    <3>5. /\ SectorOf(f.offset + i) = SectorOf(a)
          /\ (f.offset + i) % SectorSize = (a % SectorSize) + j
      BY <3>1, <3>4, SameSector
    <3>6. g.buf[i] = plain[Within(f) + j]
      BY <1>7, <2>1, <2>3
    <3>7. plain = PlainSector(v, SectorOf(a))
      BY <1>10, <3>3
    <3>8. QED
      BY <3>3, <3>5, <3>6, <3>7 DEF PlainByte
  <2>4. QED
    BY <1>2, <2>1, <2>2, <2>3
<1>11. Written(v, g)
  BY <1>5, <1>10 DEF Written
<1>12. FrameInv(v, g, c)
  BY <1>5, <1>9, <1>11 DEF FrameInv
<1>13. QED
  BY <1>12 DEF g

\* The addresses of a frame are numbers.
LEMMA FrameNats ==
    ASSUME NEW f, FrameType(f)
    PROVE  SectorStart(f) \in Nat /\ f.offset \in Nat /\ f.len \in Nat
<1>1. f.offset \in Word /\ f.len \in Nat
  BY DEF FrameType
<1>2. SectorStart(f) \in Word
  BY FramePos
<1>3. \A w \in Word : w \in Nat
  BY WordAssumption DEF Word
<1>4. QED
  BY <1>1, <1>2, <1>3

\* A blanked sector is copied as zeros, as the view has it.
LEMMA BlankInv ==
    ASSUME NEW v \in Volume, NEW f, NEW c, FrameInv(v, f, c),
           f.done < f.len, Blanked(v, SectorStart(f))
    PROVE  FrameInv(v, Copy(f, ZeroSector), c)
<1>1. FrameType(f)
  BY DEF FrameInv
<1>2. SectorStart(f) \in Nat /\ f.offset \in Nat /\ f.len \in Nat
  BY <1>1, FrameNats
<1>3. ASSUME Fits(v, f.offset, f.len)
      PROVE  ZeroSector = PlainSector(v, SectorStart(f))
  <2>1. InMetadata(v, SectorStart(f))
    BY <1>2, <1>3, GeometryFits
  <2>2. QED
    BY <2>1 DEF PlainSector, ZeroSector
<1>4. QED
  BY <1>3, CopyInv

\* A fetched sector is copied as stored or decrypted, as the view has it.
LEMMA PlainInv ==
    ASSUME NEW v \in Volume, NEW f, NEW c, FrameInv(v, f, c), f.pc = "plain"
    PROVE  FrameInv(v, Copy(f, Plain(v, f)), c)
<1>1. FrameType(f) /\ Fetching(v, f) /\ f.ct = Stored(v, f.physical)
  BY DEF FrameInv
<1>2. SectorStart(f) \in Nat /\ f.offset \in Nat /\ f.len \in Nat
  BY <1>1, FrameNats
<1>3. ASSUME Fits(v, f.offset, f.len)
      PROVE  Plain(v, f) = PlainSector(v, SectorStart(f))
  <2>1. /\ ~InMetadata(v, SectorStart(f))
        /\ f.physical = Home(v, SectorStart(f))
    BY <1>1, <1>2, <1>3, GeometryFits DEF Fetching
  <2>2. QED
    BY <1>1, <2>1 DEF Plain, PlainSector, StoredAsPlaintext
<1>4. f.done < f.len
  BY <1>1 DEF Fetching
<1>5. QED
  BY <1>3, <1>4, CopyInv

\* A frame that changes only its sector or its progress is the same call.
SameCall(f, g) == g.offset = f.offset /\ g.len = f.len

\* No step of a call changes what it was asked for.
LEMMA StepsKeepCall ==
    ASSUME NEW f, FrameType(f), NEW p, NEW c, NEW n
    PROVE  /\ SameCall(f, Seeked(f, p))
           /\ SameCall(f, Received(f, c, n))
           /\ SameCall(f, EndOfImage(f))
           /\ SameCall(f, Finished(f, p))
           /\ SameCall(f, Copy(f, p))
<1>1. SameCall(f, Seeked(f, p))
  BY DEF SameCall, FrameType, FrameFields, Seeked
<1>2. SameCall(f, Received(f, c, n))
  BY DEF SameCall, FrameType, FrameFields, Received
<1>3. SameCall(f, EndOfImage(f))
  BY DEF SameCall, FrameType, FrameFields, EndOfImage
<1>4. SameCall(f, Finished(f, p))
  BY DEF SameCall, FrameType, FrameFields, Finished
<1>5. SameCall(f, Copy(f, p))
  BY DEF SameCall, FrameType, FrameFields, Copy
<1>6. QED
  BY <1>1, <1>2, <1>3, <1>4, <1>5
=============================================================================
