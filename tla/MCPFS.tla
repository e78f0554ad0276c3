-------------------------------- MODULE MCPFS --------------------------------
(* Small instances of PFS for TLC.                                         *)
EXTENDS PFS

ByteRange(first, last) == [start_byte |-> first, end_byte |-> last]

\* One byte per block: two blocks, on two servers.
TwoBlocks == {ByteRange(0, 0), ByteRange(0, 1)}

\* A range that begins in one block and ends in the next, and its neighbours.
Straddling == {ByteRange(0, 0), ByteRange(1, 2)}

\* A range that contains another and its right neighbour.
Nested == {ByteRange(0, 2), ByteRange(1, 1), ByteRange(2, 2)}

\* A single byte.
Single == {ByteRange(0, 0)}

\* One block each.
Apiece == {ByteRange(0, 0), ByteRange(1, 1)}

BytesOf(ranges) == UNION {r.start_byte .. r.end_byte : r \in ranges}
BytesOfTwoBlocks == BytesOf(TwoBlocks)
BytesOfStraddling == BytesOf(Straddling)
BytesOfSingle == BytesOf(Single)
BytesOfApiece == BytesOf(Apiece)
BytesOfNested == BytesOf(Nested)

Symmetry == Permutations(Clients)

=============================================================================
