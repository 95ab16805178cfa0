----------------------------- MODULE EntryParser -----------------------------
(***************************************************************************)
(* MetadataEntry::parse_sequence: walk a buffer of size-prefixed entries,  *)
(* trusting no size.  It is called on the entry array of a block, between  *)
(* the metadata header and the end the header claims, and on the nested    *)
(* entries of an entry, from a fixed offset of its data to the end.        *)
(*                                                                         *)
(* Positions count from the start of the enclosing buffer, so that a slice *)
(* is a pair of them.  A buffer is its length and the u16 found at each    *)
(* position, as far as the parser looks at one.                            *)
(*                                                                         *)
(* A name with a suffix, as in Take_HeaderOnly, is a plausible mistake in  *)
(* the operator before the underscore; the specification does not use it.  *)
(***************************************************************************)
EXTENDS Integers, Sequences

CONSTANTS
    HeaderLen,    \* 8: size, entry type, value type and version
    MetaStart,    \* 64: where the metadata header is in a block
    EntriesStart, \* 112: where its entries are
    Lens,         \* the buffer lengths considered
    Sizes,        \* the u16 values found
    Claims        \* the values of metadata_size, and the offsets given to nested

ASSUME ParserAssumption ==
    /\ HeaderLen \in Nat \ {0}
    /\ MetaStart \in Nat /\ EntriesStart \in Nat
    /\ Lens \subseteq Nat /\ Sizes \subseteq Nat /\ Claims \subseteq Nat

VARIABLES
    len,    \* the length of the enclosing buffer
    size,   \* the size field an entry at a position would have
    start,  \* the slice parsed: start..stop-1
    stop,
    pos,    \* the parser's position
    out,    \* the entries found: where each is and how long its data is
    done

vars == <<len, size, start, stop, pos, out, done>>

Least(a, b) == IF a =< b THEN a ELSE b

\* FveMetadata::parse's slice: nothing if the claimed end is before the start.
BlockSlice(metadata_size) ==
    LET entries_end == Least(MetaStart + metadata_size, len)
    IN  /\ entries_end > EntriesStart
        /\ start = EntriesStart /\ stop = entries_end

NestedSlice_Unclamped(offset) == start = offset /\ stop = len

\* nested(offset)'s slice.
NestedSlice(offset) == start = Least(offset, len) /\ stop = len

Init == /\ len \in Lens
        /\ size \in [0..(len - 1) -> Sizes]
        /\ \E c \in Claims : BlockSlice(c) \/ NestedSlice(c)
        /\ pos = start
        /\ out = <<>>
        /\ done = FALSE

Accepts_AnySize(p) == p + HeaderLen =< stop /\ p + size[p] =< stop
Accepts_Below(p) == p + HeaderLen < stop /\ size[p] >= HeaderLen /\ p + size[p] =< stop
\* An entry the parser accepts: its header and all of its size are there.
Accepts(p) == p + HeaderLen =< stop /\ size[p] >= HeaderLen /\ p + size[p] =< stop

Take_HeaderOnly ==
    /\ ~done /\ Accepts(pos)
    /\ out' = Append(out, [at |-> pos, size |-> size[pos], data |-> size[pos] - HeaderLen])
    /\ pos' = pos + HeaderLen
    /\ UNCHANGED <<len, size, start, stop, done>>

\* slice_owned cuts the data at the end of the slice, if it has to.
Take ==
    /\ ~done /\ Accepts(pos)
    /\ out' = Append(out, [at |-> pos, size |-> size[pos],
                           data |-> Least(pos + size[pos], stop) - (pos + HeaderLen)])
    /\ pos' = pos + size[pos]
    /\ UNCHANGED <<len, size, start, stop, done>>

Break_AtEnd ==
    /\ ~done /\ pos + HeaderLen > stop
    /\ done' = TRUE
    /\ UNCHANGED <<len, size, start, stop, pos, out>>

Break ==
    /\ ~done /\ ~Accepts(pos)
    /\ done' = TRUE
    /\ UNCHANGED <<len, size, start, stop, pos, out>>

Next == Take \/ Break

Spec == Init /\ [][Next]_vars

FairSpec == Spec /\ WF_vars(Next)

-----------------------------------------------------------------------------
\* The slice lies in the buffer and the position in the slice.
TypeOK ==
    /\ start \in 0..len /\ stop \in 0..len /\ pos \in start..stop
    /\ done \in BOOLEAN

\* The entries tile the slice from its start: each begins where the one before
\* it ends, lies inside the slice with all of its data, and the parser stands
\* behind the last.
EntriesTile ==
    /\ pos = IF out = <<>> THEN start ELSE out[Len(out)].at + out[Len(out)].size
    /\ \A i \in 1..Len(out) :
          /\ out[i].at = IF i = 1 THEN start ELSE out[i - 1].at + out[i - 1].size
          /\ out[i].size = size[out[i].at]
          /\ out[i].data = out[i].size - HeaderLen
          /\ out[i].size >= HeaderLen
          /\ out[i].at + out[i].size =< stop

\* No well-formed entry is dropped: the parser stops only in front of
\* something that is not an entry, or of the end.
NothingDropped ==
    done => \/ stop - pos < HeaderLen
            \/ size[pos] < HeaderLen
            \/ size[pos] > stop - pos

\* Every step moves forward or is the last: a lying size cannot hold the
\* parser in place.
MovesForward == [][pos' >= pos + HeaderLen \/ done']_vars

\* The parser stops on every buffer.
ParserStops == <>done
=============================================================================
