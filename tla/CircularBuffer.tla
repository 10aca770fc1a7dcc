--------------------------- MODULE CircularBuffer ---------------------------
(***************************************************************************)
(* rbbl::CircularBuffer (circular_buffer.cpp): a ring of allocated length  *)
(* L kept twice in a row of 2L columns, so that every stretch of up to L   *)
(* columns can be read and written without a wraparound.  Writing goes     *)
(* straight to the columns from the write head on; commitWrite() copies    *)
(* what was written to the other half and advances the write head.  All    *)
(* channels move together: a column holds the samples of all channels.     *)
(***************************************************************************)
EXTENDS Integers, Sequences

\* Sizes are padded to a multiple of the alignment; 0 asks for no padding.
NextAlignedSize(size, alignment) ==
  IF alignment = 0 THEN size ELSE ((size + alignment - 1) \div alignment) * alignment

IsBuffer(buffer, Column) ==
  /\ buffer.length \in Nat
  /\ buffer.allocated \in Nat /\ buffer.allocated >= buffer.length
  /\ buffer.head \in 0 .. buffer.allocated - 1
  /\ buffer.columns \in Seq(Column) /\ Len(buffer.columns) = 2 * buffer.allocated

NewBuffer(length, alignment, silence) ==
  LET allocated == NextAlignedSize(length, alignment)
  IN [length    |-> length,
      allocated |-> allocated,
      head      |-> 0,
      columns   |-> [i \in 1 .. 2 * allocated |-> silence]]

\* efl::vectorCopy() to the given offset of a row.
CopyTo(row, offset, data) ==
  SubSeq(row, 1, offset) \o data \o SubSeq(row, offset + Len(data) + 1, Len(row))

\* Writing through getFirstWritePointer(), from the write head on.
WriteColumns(buffer, data) ==
  [buffer EXCEPT !.columns = CopyTo(@, buffer.head, data)]

\* mutant: the shadow of what was written is not kept up to date
CommitWithoutShadow(buffer, n) == [buffer EXCEPT !.head = (@ + n) % buffer.allocated]

\* mutant: the write head does not wrap around
CommitWithoutWrap(buffer, n) == [buffer EXCEPT !.head = @ + n]

\* The first block, up to the boundary, is copied to its shadow in the second
\* half; what was written beyond the boundary is copied to the front.
CommitWrite(buffer, n) ==
  LET L     == buffer.allocated
      end   == buffer.head + n
      first == IF end < L THEN end ELSE L
      up    == CopyTo(buffer.columns, buffer.head + L,
                      SubSeq(buffer.columns, buffer.head + 1, first))
  IN [buffer EXCEPT
       !.head    = end % L,
       !.columns = IF end > L THEN CopyTo(up, 0, SubSeq(up, L + 1, end)) ELSE up]

\* The offset of getReadPointer() in the row; delay 1 is the latest column.
ReadOffset(buffer, delay) == buffer.allocated + buffer.head - delay

\* The n columns from a read pointer on; arbitrary ones if the pointer lies
\* before the row (n <= delay, so that the end is always within it).
ReadColumns(buffer, delay, n, arbitrary) ==
  LET offset == ReadOffset(buffer, delay)
  IN IF offset < 0 THEN [i \in 1 .. n |-> arbitrary] ELSE SubSeq(buffer.columns, offset + 1, offset + n)
=============================================================================
