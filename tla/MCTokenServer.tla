---------------------------- MODULE MCTokenServer ----------------------------
(* Small instances of TokenServer for TLC.                                 *)
EXTENDS TokenServer, TLC

ByteRange(first, last) == [start_byte |-> first, end_byte |-> last]

OneByte == {ByteRange(0, 0)}

\* Ranges that let the READ tokens of a file overlap and the reallocation of
\* the vector happen: [0,0] and [2,4] are held, [0,3] merges into the first,
\* and a WRITE of [3,3] then splits both.
Reads == {ByteRange(0, 0), ByteRange(2, 4), ByteRange(0, 3)}
Writes == {ByteRange(0, 0), ByteRange(0, 3), ByteRange(3, 3)}

Symmetry == Permutations(Clients)

=============================================================================
