------------------------------- MODULE Catalog -------------------------------
(***************************************************************************)
(* The file catalogue of the metadata server: file_metadata_map and the    *)
(* calls CreateFile, UpdateMetadata and DeleteFile on it                   *)
(* (pfs_metaserver.cpp, lines 55-94, 170-199, 302-330).  Each call is a    *)
(* critical section under metadata_mutex.  CreateFile and UpdateMetadata   *)
(* are one action each.  DeleteFile is two: it drops token_table_mutex     *)
(* between the test of the tokens and the removal of the entry, and        *)
(* StreamToken takes no other mutex.  Of the metadata only the file size   *)
(* is kept: nothing reads the recipes, and the stripe width and the two    *)
(* times are only handed back by pfs_fstat.                                *)
(***************************************************************************)
EXTENDS Integers

CONSTANT NoFile  \* the metadata of a file that is not in the map

VARIABLES
  file_metadata_map,
  erasing             \* the file whose entry DeleteFile is about to erase:
                      \* none, or one while it holds metadata_mutex

catalogVars == <<file_metadata_map, erasing>>

Metadata == [filesize : Int]

ASSUME NoFileAssumption == NoFile \notin Metadata

InCatalog(f) == file_metadata_map[f] # NoFile

\* metadata_mutex is free.
Unlocked == erasing = {}

CreateFile(f) ==
  /\ Unlocked
  /\ ~InCatalog(f)
  /\ file_metadata_map' = [file_metadata_map EXCEPT ![f] = [filesize |-> 0]]
  /\ UNCHANGED erasing

\* Mutant: the size of the last writer wins.
UpdateMetadataToLast(f, filesize) ==
  /\ Unlocked
  /\ InCatalog(f)
  /\ file_metadata_map' = [file_metadata_map EXCEPT ![f] = [filesize |-> filesize]]
  /\ UNCHANGED erasing

\* The size is the larger of the two; false if the file is not there.
UpdateMetadata(f, filesize) ==
  /\ Unlocked
  /\ InCatalog(f)
  /\ file_metadata_map' =
       IF file_metadata_map[f].filesize < filesize
       THEN [file_metadata_map EXCEPT ![f] = [filesize |-> filesize]]
       ELSE file_metadata_map
  /\ UNCHANGED erasing

\* Mutant: tokens do not keep a file from being deleted.
DeleteTestWithTokens(f, tokens) ==
  /\ Unlocked
  /\ InCatalog(f)
  /\ erasing' = {f}
  /\ UNCHANGED file_metadata_map

\* DeleteFile up to the unlock of token_table_mutex: there are no tokens on f.
DeleteTest(f, tokens) ==
  /\ Unlocked
  /\ InCatalog(f)
  /\ tokens = <<>>
  /\ erasing' = {f}
  /\ UNCHANGED file_metadata_map

\* The rest of DeleteFile.
DeleteErase ==
  \E f \in erasing :
    /\ file_metadata_map' = [file_metadata_map EXCEPT ![f] = NoFile]
    /\ erasing' = {}

=============================================================================
