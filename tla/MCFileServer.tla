------------------------------ MODULE MCFileServer ------------------------------
(* Instances of FileServer for TLC.                                          *)
EXTENDS FileServer, TLC

CONSTANTS h1, h2, h3

Rpc(operation, first, last) ==
  [operation |-> operation, filename |-> "f", first |-> first, last |-> last]

Delete == [operation |-> "DELETE", filename |-> "f"]

\* On a file of two bytes: writes that create it, that grow it, that fit into
\* it and that span it; a read of all of it, which may find only a part; two
\* writers with a reader or a deletion, two deletions with a reader or a writer.
TwoByteCalls ==
  h1 :> {Rpc("WRITE", 0, 0), Rpc("WRITE", 1, 1)}
  @@ h2 :> {Rpc("WRITE", 0, 1), Delete}
  @@ h3 :> {Rpc("READ", 0, 1), Delete}

=============================================================================
