------------------------------ MODULE BlockStore ------------------------------
(***************************************************************************)
(* What the file servers keep: one local file per name, in ./pfs_storage   *)
(* (pfs_fileserver.cpp, lines 71-125, 276-300).  WriteFile runs under      *)
(* file_mutex and is one step; DeleteFile takes no mutex, and its test and *)
(* its removal are two.  A local file is the function from bytes to what   *)
(* was written there; a byte never written is a Hole and reads as zero.    *)
(***************************************************************************)
EXTENDS Integers

CONSTANTS
  NumServers,  \* file servers in pfs_list.txt
  Bytes,       \* the bytes of a file
  Hole,        \* a byte that was not written
  Missing      \* no local file

ASSUME NumServersAssumption == NumServers \in Nat \ {0}

VARIABLE storage  \* per server and file name, the local file

ServerIds == 0..NumServers - 1

\* DeleteFile: fs::exists.
Stored(s, f) == storage[s][f] # Missing

ByteAt(s, f, b) == IF Stored(s, f) THEN storage[s][f][b] ELSE Hole

\* WriteFile creates the file if needed, grows it and overwrites the bytes.
WriteFile(s, f, bytes, value) ==
  storage' = [storage EXCEPT ![s][f] =
    [b \in Bytes |-> IF b \in bytes THEN value ELSE ByteAt(s, f, b)]]

\* DeleteFile: fs::remove, which does not mind a file that is gone by now.
RemoveFile(s, f) == storage' = [storage EXCEPT ![s][f] = Missing]

=============================================================================
