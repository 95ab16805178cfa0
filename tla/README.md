# A TLA+ verification of bitlocker-forensic

The repository reads BitLocker volumes: it parses the on-disk metadata, unlocks
a volume with a credential, presents it in plaintext through `Read + Seek` and
as a VFS source, and audits the metadata without unlocking. This directory
models the control of that code in TLA+, model-checks it with TLC on small
instances, and proves every safety property that its passing runs check with
TLAPS, for all values of the constants.

## The system and its parts

| Part | Code | Module | Status |
|---|---|---|---|
| decrypted view | `core/src/volume.rs` (`DecryptedVolume`, `read_available`) | `ReadAt`, `DecryptedVolume`, `Regions`; promise in `VolumeView`, `PlainView` | modelled, proved |
| VFS source, shared by threads | `core/src/vfs.rs` (`BitlockerSource`) | `BitlockerSource` | modelled, proved |
| unlocking | `core/src/volume.rs` (`unlock*`, `read_metadata`, `derive_cipher`) | `Unlock` | modelled, proved |
| VFS layer, loop over credentials | `core/src/vfs.rs` (`BitlockerLayer::open`) | `BitlockerLayer` (composes `Unlock`) | modelled, proved |
| volume header | `core/src/header.rs` | `VolumeHeader` | modelled, but for the GUID |
| FVE metadata | `core/src/metadata.rs` | `Metadata`, `Regions` | modelled, but for GUID and creation time |
| entry parser | `core/src/metadata.rs` (`parse_sequence`, `nested`) | `EntryParser` | modelled, proved |
| encryption methods | `core/src/method.rs` | `Method` | modelled |
| sector ciphers | `core/src/crypto.rs` (`SectorCipher`) | `SectorCipher` | modelled, over symbolic AES; proved in `SessionProofs` |
| from evidence to plaintext | `core/src/volume.rs`, with its test builders | `Writer`, `Session` (compose `Unlock`, `Regions`, `SectorCipher`) | modelled, proved |
| recovery password | `core/src/crypto.rs` (`recovery_key_hash`) | `RecoveryKey` | modelled, proved |
| auditor | `forensic/src/lib.rs` | `Audit` (composes `Unlock`) | modelled, but for wording; proved |
| key derivation and wrapping | `core/src/crypto.rs` | symbolic in `Metadata` | partly |
| byte helpers, errors | `core/src/bytes.rs`, `error.rs` | `Bytes`, `EntryParser`, `Unlock` | partly: no GUIDs, no texts |
| GUID formatting, fuzz target, oracle tests | | | not modelled |

How they interact: `unlock*` reads the header and one of up to three metadata
copies, gates the method, opens the VMK with the credential and the FVEK with
the VMK, and returns a `DecryptedVolume`. `BitlockerLayer::open` does this for
each credential offered and wraps the first volume that opens into a
`BitlockerSource`, which threads read through a `Mutex`. The auditor uses
`read_metadata` only.

## Modules, state and actions

**VolumeView** says which byte each logical address of an unlocked volume must
read as (`PlainByte`), in unbounded arithmetic. **PlainView** is the abstract
specification of the view: every call is one atomic step that delivers exactly
the plaintext, or fails and moves nothing.

**ReadAt** is `DecryptedVolume::read_at` with the two functions it calls, as
operators on a *frame* (offset, buffer, `done`, the sector being filled).
Additions wrap at `U64`, as they do in the release profile, which has no
overflow checks. **DecryptedVolume** runs a frame for one caller: `CallReadAt`,
`CallRead`, `CallReadAtEnd`, `SeekTo` and `SeekBeforeStart` are the calls,
`SeekSector`, `ReadChunk`, `ReadEof`, `ReadInterrupted`, `ReaderFails`,
`BlankSector`, `DecryptSector` and the returns their steps. **BitlockerSource**
runs one frame per thread over one shared cursor, under a Mutex with an owner
and a poison flag; `Panic` is a reader that panics under the guard.

**Regions** is the geometry of the read path in the code's wrapping arithmetic:
which sectors are blanked, where a sector really is, what is stored as
plaintext. **Bytes** has the integers: fields that read as 0 where the data ends
before them, wrapping addition, `saturating_mul`.

**VolumeHeader** is `VolumeHeader::parse` on a sector given by its signature and
the integers at the offsets any of the three layouts looks at. **Metadata** is
`FveMetadata::parse` and the queries on entries, **Method** the methods.
Lengths are kept where the code checks one; keys, salts and hashes are symbolic
tuples, and a sealed container opens with the key it was sealed under and with
no other. **Unlock** is one call from the public function to its result, its
control in `pc`. Reading a header or a block is one step here, which may fail;
the loop that assembles it from short reads is `read_available`, and is checked
in `DecryptedVolume`. Whether a recovery password has the right form is a flag
of the request; **RecoveryKey** is the function that decides it.

**SectorCipher** says how AES, the diffuser and a sector's address are put
together. The value of an AES block is a set of atoms and exclusive or is the
symmetric difference, so that CBC chaining and the XTS masks cancel as they do
on bytes; AES, the diffuser and the XTS field are opaque but for being
invertible. **Writer** has the protectors, blocks and headers that the tests of
`volume.rs` author. **Session** composes them: a volume is laid out and encrypted
from a `truth` that the reader never sees, one of its credentials unlocks it,
and sectors are read back with the geometry and the cipher the call derived from
the metadata. `Disk` is the image, `ReadSector` and `SectorFails` are reads.

**BitlockerLayer** extends `Unlock` with the loop over credentials: an attempt
is a run of `Unlock` from a fresh start. `unread` is a history variable: the
attempts that ended in a read error. **Audit** extends `Unlock` with
`audit_findings` and then an unlock of the same evidence; a finding is its
severity, code, category and evidence. The auditor's own constant for the clear
key (`PROT_CLEAR_KEY`) is a definition of its own, apart from the one `unlock` uses.

**EntryParser** walks a slice of a buffer given by the size field found at each
position. `BlockSlice` and `NestedSlice` are the slices its two callers pass.

In all of them a name with a suffix (`Lock_Shared`, `Take_Unclamped`) is a
plausible mistake in the operator before the underscore. No specification uses
it; substituting it makes TLC violate the property PROJECT.json names beside it.

## Runs

Passing runs:

| Run | Distinct states | What it shows |
|---|---|---|
| `view` | 35,317 | `DeliversPlaintext`: the sector loop neither skips nor repeats a byte, whatever the reader does. `RefinesPlainView`: a failed call moves nothing. `CallsReturn`. |
| `source` | 14,442 | `EachThreadHasItsView`: every thread sees an atomic `PlainView` of its own. `CursorIsOwned`, `ReadsAreIsolated`: threads do not disturb each other's reads, after panics too. `MutexIsReleased`, `PendingCallsReturn`. |
| `unlock` | 34,090 | `UnlockIsSound`: key and geometry came from the first signed copy, through the credential. `UnlockDecides`: if that copy is good, exactly the right credentials unlock. `VistaStaysInRange`: no cluster number wraps around to another block. `UnlockedIsEncrypted`, `UnlockEnds`. `ReadsBackWhatWasWritten`: whichever protector, cipher, layout and way to locate the header, the plaintext comes back. `SectorsAreBoundToAddresses`: ciphertext decrypts at its own address only. |
| `layer` | 36,378 | `OpenDecides`: the order of credentials does not matter. `AsksOnlyIfNothingTried`, `OpenEnds`. |
| `entries` | 96,454 | `EntriesTile`, `NothingDropped`, `MovesForward`, `ParserStops`. |
| `recovery_key` | 7,529 | `AcceptsExactlyTheForm`, `KeyDeterminesPassword`. |
| `audit` | 52,624 | `FindingsDescribeFirstCopy`: the protectors, the clear key and the layout published are those of the first signed copy, also where it has lost its entries and later copies have not. `InventoryMatchesUnlock`: the inventory predicts which protector unlocking finds. `GradesMatchUnlock`: what opens without a credential was graded High, and `BDE-WEAK-CIPHER` is published exactly for what is not decrypted with XTS. `SameEvidence`. |

Runs that exhibit a sentence of the repository the code does not live up to:

| Run | The sentence | What happens |
|---|---|---|
| `past_end` | volume.rs:381, bytes past the end "read back as zero" | they are decrypted zeros |
| `metadata_tail` | metadata.rs:126, metadata blocks are "read back as zeros" | a sector that begins in the last 64 bytes of a block is decrypted |
| `wrapped_sums` | SECURITY.md:44-45, "arithmetic is checked or saturating" | sums past 2^64 come out small: the place of the relocated header (the trace TLC gives), the end of a metadata region, a read and a seek; each of the four conjuncts is violated by itself too |
| `second_protector` | error.rs:80-81, "for a password unlock this means the supplied password is wrong" | only the first password protector is tried, and the password of a second one fails |
| `clear_key_note` | forensic lib.rs:104-105, with a clear key "the volume can be decrypted with no credential" | a truncated VMK entry reads as type 0 and is reported as a clear key on a volume without one |

Three more were met while modelling and need no run to see. Without an entry for
it, `FveMetadata::parse` takes the size of the relocated header as a number of BPB
sectors (metadata.rs:168), docs/RESEARCH.md:157-158 as
"`number_of_volume_header_sectors × 512`"; on a 4096-byte BPB the sectors between the two
are read from the wrong place. The comment in
`unlock` (volume.rs:152) and error.rs:41 list 0x8003 to 0x8005 as refused, but
`validated_kind` has a kind for each by now. `WeakCipher` is documented as
AES-CBC (forensic lib.rs:57) and reported for every method but AES-XTS, 0 and
undefined ones included.

### Bounds

Sectors have 2 bytes and addresses 16 values, so that a read spans up to four
sectors, starts and ends inside one, and wraps. The six volumes of `view` end
on and off a sector boundary, relocate the header inside, partly beyond and
wholly beyond the image, have a plaintext tail, and have metadata regions that
touch the last address. In the last three volumes a sum wraps, so `Fits` is
false and they exercise everything but the plaintext promise. `source` has two threads: the properties relate the
owner of the cursor and one other. `BlockHeaderLen` is 1 where the code has 64.

`unlock` takes a volume with all four protectors and varies one thing at a
time: the method (all defined ones and their neighbours), each entry (absent,
duplicate, one byte short), the length of the FVEK container around what each
cipher needs, and the three copies (good, lost, cut inside the header or before
the entries, unset, beyond the end). `U64` is 2^20 there, so that Vista's cluster
257 of 4096 bytes is out of range and, wrapped, would be that of a good block.
Of the volumes it reads back, a first family has every cipher, a whole and a
partly encrypted volume, and every way to give the place of the relocated
header; a second has the three layouts, BPB sector sizes of 512 and 4096, and
the first copy lost. Sectors have two AES blocks (`BlockCount`, 32 in the code):
enough for one chained and one first block. `ReadSectors` has both sectors of
the header and the next, a metadata block and what follows it, the place the
header was moved to, and the two sides of the end of encryption.
`ReadsBackWhatWasWritten` leaves out the sectors between the two reckonings of the
size of the header (`GeometryKnown`), on volumes of 4096-byte sectors without an
entry for it; every other sector of these volumes is to read back. `layer` tries all sequences of up to three
of five credentials; three is enough for one to fail before and after a good
one. `entries` scales the entry header to 2 bytes, and `recovery_key` the eight
groups to three, with one too many and all fewer.

`CHECK_DEADLOCK FALSE` is set where the modelled function returns and nothing
more is to happen.

### Fairness

`FairSpec` of `DecryptedVolume` and of the sequential modules says only that
the running thread keeps running: nothing there waits. Interruptions are left
out of the fair actions, so a reader that is interrupted forever is excluded,
which `read_available` assumes too. Failures and panics are left out as well, so
no call ends because its reader must fail: in `Unlock` the fair steps are
`Progress`, every step but `ReaderFails`, and in `BitlockerLayer` those of the
`Loop` and the `Progress` of an attempt. `SessionSpec` has the same fairness for
the steps of the unlock call and none for the reads after it, which are up to
the caller. In `BitlockerSource` each thread inside the
Mutex keeps running, and a free Mutex goes to some waiter, not to each: std's
Mutex promises no order. That is why `PendingCallsReturn` is conditional on no
new calls arriving.

## Proofs

| Module | Theorems | Argument |
|---|---|---|
| `ReadAtProofs` | lemmas | what each frame operator preserves |
| `DecryptedVolumeProofs` | `TypeCorrect`, `PlaintextDelivered`, `Refinement` | below |
| `BitlockerSourceProofs` | `TypeCorrect`, `CursorOwned`, `ReadsIsolated`, `ViewsAreSeparate` | below |
| `UnlockProofs` | `Soundness`, `OnlyValidatedCiphers`, `Completeness`, `VistaInRange`, `TypeCorrect` | below |
| `UnlockCallersProofs` | of the layer: `OpenTypeCorrect`, `OrderDoesNotMatter`, `AsksIfNothingTried`; of the auditor: `FindingsAreOfFirstCopy`, `InventoryHolds`, `GradesHold`, `EvidenceIsTheSame` | below |
| `SessionProofs` | `ReadsBack`, `BoundToAddresses` | below |
| `EntryParserProofs` | `TypeCorrect`, `Tiling`, `Complete`, `Forward` | the entries tile up to `pos`, and `done` only in front of a non-entry |
| `RecoveryKeyProofs` | `TypeCorrect`, `AcceptsExactly`, `KeyDetermines` | the groups passed are good and their words in place; a refusal has a cause |

`DeliversPlaintext` is not inductive: when a sector is copied into the buffer,
it must be known to be the right sector. The invariant adds that while a sector
is being filled, `ct[0..filled-1]` is what the image stores from `physical` on,
that the cursor is at `physical + filled`, and that a filled sector is the
stored sector at the home of the current address. Where the address arithmetic
fits in u64 (`Fits`), the wrapped sums of the code agree with the unbounded ones
of `VolumeView`. The refinement follows: every step but a call's last is a
stutter or `Pending` of `PlainView`, and `ReturnOk` delivers what the invariant
says is in the buffer. For threads, the same invariant holds of the one that
owns the Mutex, and only the owner is inside, so no other moves the cursor. Each
thread's calls then implement `PlainView`, with that thread's return values.

`UnlockIsSound` speaks of the result only. `SoundInv` carries what leads to it
through `pc`: the copies skipped so far are not signed and the metadata taken is
that of the first signed one (`CopyInv`); the key at hand is the credential's
hash, then one the credential can unwrap a VMK with, then a VMK it opens
(`KeyInv`); and the method has passed the gate (`GateInv`). Each handler moves
the key by one of these links. It is proved for arbitrary images and requests.

`UnlockDecides` is the converse: a credential that opens the volume is never
turned away. `DecidesInv` adds to `SoundInv` how a call has come to where it is
(`PathInv`: past the header only if there is one, past the gate with the cipher
of the method), what each error says of the evidence (`EndInv`), and, for
well-formed metadata, that the key at hand is the *only* one the credential leads
to (`OnlyKey`), so that a step that fails shows there was none (`Hopeless`).
Well-formed means that each type of protector, each property of a protector and
the FVEK are there once and whole; for a startup key, the file has one external
key with one key (`WellFormedBek`), since `parse_startup_key` looks at the first
only. Without the first condition the statement is false, as `second_protector`
shows. `VistaStaysInRange` follows from `PathInv` and the saturation at 2^64 - 1,
where no block has room for its signature.

The two callers of an unlock reuse these invariants step by step. `LoopInv` of
`BitlockerLayer::open`: an error is kept exactly if a wired credential was tried
before the current one (`TriedInv`), the credentials passed over open nothing or
their reads failed (`PassedInv`), and a source was handed out with a key that one
of them opens (`HandedInv`). `ExamInv` of an audit followed by an unlock: the
findings are those of the first signed copy, the same copy the unlock decides by
(`Reports`). That the inventory lists a type exactly if some VMK entry has it needs
what flattening the per-protector lists does, for every number of protectors.

For `ReadsBackWhatWasWritten` three arguments meet.

1. *The ciphers.* An output of a primitive is an atom of its own (`EncFresh`,
   `DecFresh`), so decryption undoes encryption at the sector's address
   (`SectorInverts`: CBC with and without the diffuser, XTS) and gives something else
   at any other address (`OtherSector`, `SectorElsewhere`), for sectors of any
   number of blocks.
2. *The metadata.* Whichever copy is the first signed one, parsing it yields the
   geometry and the keys the volume was written with (`CopyFields`, `HeaderFound`,
   `SignedIsCopy`), and the only key any request can reach is the volume's
   (`UnlockedKnows`, `UnlockedCipher`).
3. *The read.* `SessionInv` is the invariants of the call with `ReadInv`: what was
   read is the content of the sector the parsed geometry points at. `RegionsAreTrue`
   makes that the true one, unless the size of the relocated header is in doubt there.

CBC chaining, flattening and the extent of a list of entries are recursive. What is
proved of them for every length is proved by least counterexample: the set of
indices where the claim fails has a least element (`HasMin`), and unfolding the
function once there (`Recursion`) contradicts it. No induction theorem is needed.

Assumptions on constants, each evaluated by TLC on the passing runs:

- `WordAssumption`: the sector size divides the address space;
- `CallAssumption`, `SourceAssumption`: arguments are of their types;
- `EvidenceAssumption`: an image has integers in its header and, by position,
  blocks that are sequences of entries with u16 protection types; the 8 bytes of
  a block's signature lie below 2^64. Nothing is assumed of what the fields say;
- `OffersAssumption`: credentials are offered in a sequence;
- `VolumesAssumption`, on the volumes that are written and then read back: they lie
  below 2^64 with their metadata and relocated header, the header is a number of
  whole sectors, no metadata is at 0, where the boot sector is, and reads ask for whole
  sectors. It does not restrict the method, the extent of encryption, the layout,
  the copies lost, where regions lie relative to each other, or the number of blocks
  in a sector;
- `ParserAssumption`: lengths and size fields are naturals, and an entry header is not
  empty; `RecoveryAssumption`: a password is a sequence of groups, and there is at
  least one to expect.

In the proofs about `DecryptedVolume` and `BitlockerSource`, image and cipher are
arbitrary functions.

Only model-checked: the liveness properties `CallsReturn`, `PendingCallsReturn`,
`MutexIsReleased`, `UnlockEnds`, `OpenEnds` and `ParserStops`, because TLAPS does
not do ENABLED and fairness; and the five violation runs, which are
counterexamples.

## What is not modelled, and why

- The numbers in AES, the Elephant Diffuser, the XTS field, SHA-256 and AES-CCM:
  kernels of external crates. In `DecryptedVolume` the cipher is an arbitrary
  function of the stored sector and its address, in `SectorCipher` it is built
  from symbolic primitives. A collision of hashes or keys is excluded.
- Part of an AES block: the read path passes whole sectors.
- The count of the key-stretch loop: a pure hash chain without control.
- Wording: error texts, notes, names of protectors and ciphers, GUIDs.
- The list of protectors inside `NoUnlockProtector`.
- What to read where a region ends past 2^64. The model wraps as the code does, and
  `wrapped_sums` shows it; SECURITY.md rules a wrapped sum out, but does not say what
  is to be read instead, so `DeliversPlaintext` promises nothing there (`Fits`).

## What could follow

- The composition of `BitlockerLayer` and `BitlockerSource`. They share
  only the ciphertext, which neither writes: `open` makes a cursor of its own for
  every attempt and hands the one that unlocked to the source. The two are
  therefore checked apart.
