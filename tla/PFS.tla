--------------------------------- MODULE PFS ---------------------------------
(***************************************************************************)
(* The whole system: clients that call the library (pfs_api.cpp), the      *)
(* metadata server with its token service and catalogue, and the file      *)
(* servers.  A library call is a sequence of RPCs, and between two of them *)
(* everybody else may take steps.                                          *)
(*                                                                         *)
(* Grain.  One step per RPC; the stream of pfs_write and pfs_close is      *)
(* modelled message by message in TokenServer.  A client has one call      *)
(* under way at a time, as the programs in client-1 do.  A call that is    *)
(* refused without an effect (a bad argument, a file that is not there)    *)
(* or only reads (pfs_fstat) changes nothing and is left out.  pfs_open    *)
(* refuses a file that is already open, so a descriptor is named by its    *)
(* file.  A process that calls pfs_initialize again is given a new client  *)
(* id; it keeps its name here, since pfs_finish has closed its files and   *)
(* the token table holds nothing under the old id.  Nothing is said of what *)
(* the library does after the metadata server has died.                    *)
(*                                                                         *)
(* A server's handler runs on when its client has been told of an error or *)
(* is gone: what it has still to do is in `late`, and happens at any time.  *)
(* A CreateFile or the first half of a DeleteFile that is under way when   *)
(* its client dies needs no such entry: nothing tells that death from one  *)
(* after the call.                                                         *)
(***************************************************************************)
EXTENDS TokenServer, Catalog, BlockStore

CONSTANTS
  BlockSize,   \* PFS_BLOCK_SIZE
  Modes,       \* the modes programs open files with
  Offsets,     \* the offsets programs read at
  Closed,      \* the descriptor of a file that is not open
  Mortals,     \* the clients whose process may die
  MayFail,     \* whether a call to a file server may fail
  PingMayFail, \* whether a file server may fail to answer pfs_initialize
  MaxBirths,   \* bound on how often a file is created
  MaxLate,     \* bound on the length of late
  MaxStubs     \* bound on the length of file_server_addresses

ASSUME BlockSizeAssumption == BlockSize \in Nat \ {0}
ASSUME BytesAssumption == Bytes = UNION {r.start_byte .. r.end_byte : r \in WriteRanges}
ASSUME ModesAssumption == Modes \subseteq {1, 2}
ASSUME OffsetsAssumption == Offsets \subseteq Nat

VARIABLES
  open_files,             \* per client and file: the descriptor, or Closed
  file_server_addresses,  \* per client: the length of that list
  file_server_stubs,      \* per client: the server behind each stub
  api,                    \* per client: the library call under way
  late,                   \* the calls that servers go on with unasked
  births,                 \* per file: how often it was created
  clean,                  \* per file: nobody was deleting it when it was created
  settled                 \* per file: the bytes of the writes that succeeded

libraryVars == <<open_files, file_server_addresses, file_server_stubs, api>>
historyVars == <<births, clean, settled>>
storeVars == <<storage, late>>
pfsVars == <<tokenVars, catalogVars, storeVars, libraryVars, historyVars>>

-----------------------------------------------------------------------------
(* The library call under way is a record; its stage says where it is.      *)

Down == [stage |-> "down"]  \* before pfs_initialize, after pfs_finish
Idle == [stage |-> "idle"]
Dead == [stage |-> "dead"]

In(c, stage) == api[c].stage = stage

\* Finish of the stream has returned, and the call goes on.
Resumed(c, stage) == In(c, stage) /\ call[c] = "none"

\* A pfs_write that has its token, and a pfs_delete past the metadata.
DataCall(f, first, last, next, value) ==
  [stage |-> "data", file |-> f, first |-> first, last |-> last,
   next |-> next, value |-> value]
DeleteCall(stage, f, next, epoch, alone) ==
  [stage |-> stage, file |-> f, next |-> next, epoch |-> epoch, alone |-> alone]

GoTo(c, entry) == api' = [api EXCEPT ![c] = entry]
Return(c) == GoTo(c, Idle)

IsOpen(c, f) == open_files[c][f] # Closed

\* A WriteFile, the DeleteFile of a file server and an UpdateMetadata that are
\* in `late`: what the server knows of the call.
IsLate(op, f, h) == h.op = op /\ h.file = f

\* The local files of f are being deleted.
Deleting(f) ==
  \/ \E c \in Clients : (In(c, "delete") \/ In(c, "remove")) /\ api[c].file = f
  \/ \E k \in 1..Len(late) : IsLate("remove", f, late[k])

\* No server has still to write to these bytes of f for a call that was given up.
Alone(f, bytes) ==
  \A k \in 1..Len(late) : IsLate("write", f, late[k]) => late[k].bytes \cap bytes = {}

\* The creations and deletions of f so far; a deletion counts from its test of
\* the tokens on.  What a pfs_write of c to these bytes writes.
Epoch(f) == 2 * births[f] - (IF InCatalog(f) /\ f \notin erasing THEN 1 ELSE 0)
Value(c, f, bytes) == [writer |-> c, epoch |-> Epoch(f), alone |-> Alone(f, bytes)]
Nothing == [b \in Bytes |-> Hole]

-----------------------------------------------------------------------------
(* pfs_initialize, pfs_finish, pfs_create and pfs_open.                      *)

\* The servers behind the first n addresses: the list is read again and again.
Listed(n) == [k \in 1..n |-> (k - 1) % NumServers]

\* The addresses read from pfs_list.txt are appended to what an earlier
\* pfs_initialize left in the list.  Each address that answers a Ping gives a
\* stub, in this order, until one does not.
Ping(c, answering) ==
  LET addresses == file_server_addresses[c] + NumServers
  IN  /\ In(c, "down")
      /\ Running
      /\ addresses <= MaxStubs
      /\ answering <= addresses
      /\ file_server_addresses' = [file_server_addresses EXCEPT ![c] = addresses]
      /\ file_server_stubs' = [file_server_stubs EXCEPT ![c] = @ \o Listed(answering)]
      /\ UNCHANGED <<tokenVars, catalogVars, storeVars, open_files, historyVars>>

PfsInitialize(c) == Ping(c, file_server_addresses[c] + NumServers) /\ Return(c)

\* pfs_initialize returns -1, and leaves the addresses and the stubs behind.
PfsInitializeFails(c, answering) ==
  /\ PingMayFail
  /\ answering < file_server_addresses[c] + NumServers
  /\ Ping(c, answering)
  /\ UNCHANGED api

PfsFinish(c) ==
  /\ In(c, "idle")
  /\ GoTo(c, [stage |-> "finish"])
  /\ UNCHANGED <<tokenVars, catalogVars, storeVars, open_files,
                 file_server_addresses, file_server_stubs, historyVars>>

\* Every open file has been closed; the stubs are dropped, the addresses not.
FinishReturns(c) ==
  /\ In(c, "finish")
  /\ Running
  /\ \A f \in Files : ~IsOpen(c, f)
  /\ file_server_stubs' = [file_server_stubs EXCEPT ![c] = <<>>]
  /\ GoTo(c, Down)
  /\ UNCHANGED <<tokenVars, catalogVars, storeVars, open_files,
                 file_server_addresses, historyVars>>

PfsCreate(c, f) ==
  /\ In(c, "idle")
  /\ Running
  /\ births[f] < MaxBirths
  /\ CreateFile(f)
  /\ births' = [births EXCEPT ![f] = @ + 1]
  /\ clean' = [clean EXCEPT ![f] = ~Deleting(f)]
  /\ settled' = [settled EXCEPT ![f] = Nothing]
  /\ UNCHANGED <<tokenVars, storeVars, libraryVars>>

\* The file size goes to the third field of FileDescriptor; offset stays 0.
PfsOpen(c, f, mode) ==
  /\ In(c, "idle")
  /\ Running
  /\ ~IsOpen(c, f)
  /\ Unlocked
  /\ InCatalog(f)
  /\ open_files' = [open_files EXCEPT ![c][f] = [mode |-> mode, offset |-> 0]]
  /\ UNCHANGED <<tokenVars, catalogVars, storeVars, file_server_addresses,
                 file_server_stubs, api, historyVars>>

-----------------------------------------------------------------------------
(* pfs_read.                                                                *)

PfsRead(c, f, offset) ==
  /\ In(c, "idle")
  /\ IsOpen(c, f)
  /\ GoTo(c, [stage |-> "read", file |-> f, offset |-> offset])
  /\ UNCHANGED <<tokenVars, catalogVars, storeVars, open_files,
                 file_server_addresses, file_server_stubs, historyVars>>

\* "Offset is beyond the end of the file": the end is taken to be the offset
\* of the descriptor, so that the rest of pfs_read is never reached.
ReadRefused(c) ==
  /\ In(c, "read")
  /\ api[c].offset >= open_files[c][api[c].file].offset
  /\ Return(c)
  /\ UNCHANGED <<tokenVars, catalogVars, storeVars, open_files,
                 file_server_addresses, file_server_stubs, historyVars>>

-----------------------------------------------------------------------------
(* The token stream, as pfs_write, pfs_close and pfs_finish use it.         *)

\* Mutant: end_byte is one past the last byte.
WriteRequestPastEnd(f, r) ==
  [filename |-> f, token_type |-> "WRITE",
   start_byte |-> r.start_byte, end_byte |-> r.end_byte + 1]

WriteRequest(f, r) == RequestFor(f, "WRITE", r)
CloseRequest(f) == RequestFor(f, "CLOSE", NoRange)

PfsWrite(c, f, r) ==
  /\ In(c, "idle")
  /\ IsOpen(c, f)
  /\ open_files[c][f].mode = 2
  /\ Running
  /\ OpenCall(c, WriteRequest(f, r))
  /\ GoTo(c, [stage |-> "write", file |-> f, first |-> r.start_byte,
              last |-> r.end_byte, next |-> r.start_byte])
  /\ UNCHANGED <<serverVars, catalogVars, storeVars, open_files,
                 file_server_addresses, file_server_stubs, historyVars>>

\* pfs_close, and each turn of the loop of pfs_finish over the open files.
PfsClose(c, f) ==
  /\ In(c, "idle") \/ In(c, "finish")
  /\ IsOpen(c, f)
  /\ Running
  /\ OpenCall(c, CloseRequest(f))
  /\ GoTo(c, [stage |-> "close", file |-> f, after |-> api[c]])
  /\ UNCHANGED <<serverVars, catalogVars, storeVars, open_files,
                 file_server_addresses, file_server_stubs, historyVars>>

\* Read one message.  It is the one the call waits for (AnswerExpected), so
\* that no call takes the branch that aborts it.
LibraryRead(c) ==
  /\ call[c] = "open"
  /\ ClientRead(c)
  /\ UNCHANGED <<catalogVars, storeVars, libraryVars, historyVars>>

\* WritesDone, then Finish, which returns when the handler has.
LibraryHangUp(c) ==
  /\ ClientDone(c)
  /\ \/ /\ In(c, "write")
        /\ GoTo(c, DataCall(api[c].file, api[c].first, api[c].last, api[c].next,
                            Value(c, api[c].file, api[c].first .. api[c].last)))
     \/ /\ In(c, "close")
        /\ GoTo(c, [stage |-> "closed", file |-> api[c].file, after |-> api[c].after])
  /\ UNCHANGED <<catalogVars, storeVars, open_files,
                 file_server_addresses, file_server_stubs, historyVars>>

CloseReturns(c) ==
  /\ Resumed(c, "closed")
  /\ open_files' = [open_files EXCEPT ![c][api[c].file] = Closed]
  /\ GoTo(c, api[c].after)
  /\ UNCHANGED <<tokenVars, catalogVars, storeVars, file_server_addresses,
                 file_server_stubs, historyVars>>

-----------------------------------------------------------------------------
(* The data of pfs_write: one WriteFile per block, then UpdateMetadata.      *)

\* The server of the block at offset, in a list of stubs.
StripeOf(stubs, offset) == stubs[((offset \div BlockSize) % Len(stubs)) + 1]
ServerOf(c, offset) == StripeOf(file_server_stubs[c], offset)

\* The stubs of c are in the order of pfs_list.txt, as those of a client whose
\* pfs_initialize has never failed are.
Aligned(c) == file_server_stubs[c] = Listed(Len(file_server_stubs[c]))

\* The server whose turn it is in pfs_delete.
Target(c) == file_server_stubs[c][api[c].next + 1]

\* The last byte of the block at offset.
BlockEnd(offset) == offset + BlockSize - 1 - (offset % BlockSize)

\* The last byte of a WriteFile that starts at offset.  Mutant: it is not
\* limited by the bytes that remain.
ChunkEndOfBlock(offset, last) == BlockEnd(offset)

ChunkEnd(offset, last) == IF BlockEnd(offset) < last THEN BlockEnd(offset) ELSE last

Chunk(c) == api[c].next .. ChunkEnd(api[c].next, api[c].last)

\* What the bytes of f are known to hold, once `bytes` were given `value`.
Settle(f, bytes, value) ==
  settled' = [settled EXCEPT ![f] = [b \in Bytes |-> IF b \in bytes THEN value ELSE @[b]]]

WriteChunk(c) ==
  WriteFile(ServerOf(c, api[c].next), api[c].file, Chunk(c), api[c].value)

WriteBlock(c) ==
  /\ Resumed(c, "data")
  /\ api[c].next <= api[c].last
  /\ WriteChunk(c)
  /\ Settle(api[c].file, Chunk(c), Hole)
  /\ GoTo(c, DataCall(api[c].file, api[c].first, api[c].last,
                      ChunkEnd(api[c].next, api[c].last) + 1, api[c].value))
  /\ UNCHANGED <<tokenVars, catalogVars, late, open_files,
                 file_server_addresses, file_server_stubs, births, clean>>

\* A deletion is about to take the local file of f on server s away.
BeingRemoved(s, f) ==
  \/ \E d \in Clients : In(d, "remove") /\ api[d].file = f /\ Target(d) = s
  \/ \E k \in 1..Len(late) : IsLate("remove", f, late[k]) /\ late[k].server = s

\* Nobody waits for this call any more; its handler may run on.
GiveUp(h) ==
  \/ UNCHANGED late
  \/ Len(late) < MaxLate /\ late' = Append(late, h)

GiveUpWrite(c) ==
  /\ Resumed(c, "data")
  /\ api[c].next <= api[c].last
  /\ GiveUp([op |-> "write", server |-> ServerOf(c, api[c].next), file |-> api[c].file,
             bytes |-> Chunk(c), value |-> api[c].value])
  /\ Settle(api[c].file, Chunk(c), Hole)

\* Mutant: pfs_write does not notice that a call has failed.
WriteBlockFailsUnnoticed(c) ==
  /\ MayFail
  /\ GiveUpWrite(c)
  /\ GoTo(c, DataCall(api[c].file, api[c].first, api[c].last,
                      ChunkEnd(api[c].next, api[c].last) + 1, api[c].value))
  /\ UNCHANGED <<tokenVars, catalogVars, storage, open_files,
                 file_server_addresses, file_server_stubs, births, clean>>

\* pfs_write returns -1 and the token is kept: the call has failed, or the
\* server could not finish it, because its file was being deleted, and has
\* written nothing (FileServer).
WriteBlockFails(c) ==
  /\ \/ MayFail /\ GiveUpWrite(c)
     \/ /\ Resumed(c, "data")
        /\ api[c].next <= api[c].last
        /\ BeingRemoved(ServerOf(c, api[c].next), api[c].file)
        /\ Settle(api[c].file, Chunk(c), Hole)
        /\ UNCHANGED late
  /\ Return(c)
  /\ UNCHANGED <<tokenVars, catalogVars, storage, open_files,
                 file_server_addresses, file_server_stubs, births, clean>>

\* A write that began before the file was deleted and created again, or whose
\* stubs are out of order, leaves its bytes unsettled.
WriteReturns(c) ==
  LET f == api[c].file
  IN  /\ Resumed(c, "data")
      /\ api[c].next > api[c].last
      /\ Running
      /\ UpdateMetadata(f, api[c].last + 1)
      /\ Settle(f, api[c].first .. api[c].last,
                IF api[c].value.epoch = Epoch(f) /\ Aligned(c) THEN api[c].value ELSE Hole)
      /\ Return(c)
      /\ UNCHANGED <<tokenVars, storeVars, open_files, file_server_addresses,
                     file_server_stubs, births, clean>>

\* "Failed to update metadata": the file was deleted since it was opened.
WriteOrphaned(c) ==
  /\ Resumed(c, "data")
  /\ api[c].next > api[c].last
  /\ Running
  /\ Unlocked
  /\ ~InCatalog(api[c].file)
  /\ Return(c)
  /\ UNCHANGED <<tokenVars, catalogVars, storeVars, open_files,
                 file_server_addresses, file_server_stubs, historyVars>>

-----------------------------------------------------------------------------
(* pfs_delete: the metadata first, then the local file of every stub.       *)

\* The metadata server finds no tokens on f.
PfsDelete(c, f) ==
  /\ In(c, "idle")
  /\ Running
  /\ token_table_mutex = NoClient
  /\ DeleteTest(f, token_table[f])
  /\ GoTo(c, DeleteCall("unlink", f, 0, Epoch(f), Alone(f, Int)))
  /\ UNCHANGED <<tokenVars, storeVars, open_files, file_server_addresses,
                 file_server_stubs, historyVars>>

\* It has dropped token_table_mutex, and now erases the entry and answers.
DeleteUnlinks(c) ==
  /\ In(c, "unlink")
  /\ Running
  /\ DeleteErase
  /\ GoTo(c, DeleteCall("delete", api[c].file, 0, api[c].epoch, api[c].alone))
  /\ UNCHANGED <<tokenVars, storeVars, open_files, file_server_addresses,
                 file_server_stubs, historyVars>>

\* It does so, too, when the client has died.
UnlinkUnasked ==
  /\ \A c \in Clients : ~In(c, "unlink")
  /\ Running
  /\ DeleteErase
  /\ UNCHANGED <<tokenVars, storeVars, libraryVars, historyVars>>

DeleteFinds(c) ==
  /\ In(c, "delete")
  /\ Stored(Target(c), api[c].file)
  /\ GoTo(c, DeleteCall("remove", api[c].file, api[c].next, api[c].epoch, api[c].alone))
  /\ UNCHANGED <<tokenVars, catalogVars, storeVars, open_files,
                 file_server_addresses, file_server_stubs, historyVars>>

\* Mutant: the loop leaves out the last stub.
AllButLast(c) == Len(file_server_stubs[c]) - 1
StubsToVisit(c) == Len(file_server_stubs[c])

\* pfs_delete has removed the file of the last stub and returns 0.
DeleteSucceeds(c) == In(c, "remove") /\ api[c].next + 1 >= StubsToVisit(c)

DeleteRemoves(c) ==
  /\ In(c, "remove")
  /\ RemoveFile(Target(c), api[c].file)
  /\ IF DeleteSucceeds(c)
     THEN Return(c)
     ELSE GoTo(c, DeleteCall("delete", api[c].file, api[c].next + 1, api[c].epoch, api[c].alone))
  /\ UNCHANGED <<tokenVars, catalogVars, late, open_files, file_server_addresses,
                 file_server_stubs, historyVars>>

\* The server has no such file: pfs_delete returns -1 and skips the others.
DeleteStops(c) ==
  /\ In(c, "delete")
  /\ ~Stored(Target(c), api[c].file)
  /\ Return(c)
  /\ UNCHANGED <<tokenVars, catalogVars, storeVars, open_files,
                 file_server_addresses, file_server_stubs, historyVars>>

GiveUpRemove(c) ==
  /\ In(c, "delete") \/ In(c, "remove")
  /\ GiveUp([op |-> "remove", server |-> Target(c), file |-> api[c].file])

\* The call to the file server fails, and pfs_delete returns -1.
DeleteFails(c) ==
  /\ MayFail
  /\ GiveUpRemove(c)
  /\ Return(c)
  /\ UNCHANGED <<tokenVars, catalogVars, storage, open_files, file_server_addresses,
                 file_server_stubs, historyVars>>

-----------------------------------------------------------------------------
(* Processes that die, and handlers nobody waits for.                        *)

GiveUpUpdate(c) ==
  /\ Resumed(c, "data")
  /\ api[c].next > api[c].last
  /\ GiveUp([op |-> "update", file |-> api[c].file, filesize |-> api[c].last + 1])

\* The client's process dies; what the servers hold for it stays, and they go
\* on with the call under way.
Die(c) ==
  /\ c \in Mortals
  /\ ~In(c, "dead") /\ ~In(c, "down")
  /\ \/ ClientDies(c)
     \/ call[c] \in {"none", "done"} /\ UNCHANGED tokenVars
  /\ \/ GiveUpWrite(c)
     \/ (GiveUpRemove(c) \/ GiveUpUpdate(c)) /\ UNCHANGED settled
     \/ UNCHANGED <<late, settled>>
  /\ open_files' = [open_files EXCEPT ![c] = [f \in Files |-> Closed]]
  /\ GoTo(c, Dead)
  /\ UNCHANGED <<catalogVars, storage, file_server_addresses,
                 file_server_stubs, births, clean>>

\* WriteFile; an error of the disk may leave the file it has created empty.
LateWrite(h) ==
  /\ h.op = "write"
  /\ \E bytes \in {h.bytes, {}} : WriteFile(h.server, h.file, bytes, h.value)
  /\ UNCHANGED catalogVars

LateRemove(h) ==
  /\ h.op = "remove"
  /\ RemoveFile(h.server, h.file)
  /\ UNCHANGED catalogVars

LateUpdate(h) ==
  /\ h.op = "update"
  /\ Running
  /\ \/ UpdateMetadata(h.file, h.filesize)
     \/ Unlocked /\ ~InCatalog(h.file) /\ UNCHANGED catalogVars
  /\ UNCHANGED storage

\* The handlers of calls that were given up end in any order.
LateHandler(k) ==
  /\ LateWrite(late[k]) \/ LateRemove(late[k]) \/ LateUpdate(late[k])
  /\ late' = RemoveAt(late, k)
  /\ UNCHANGED <<tokenVars, libraryVars, historyVars>>

\* A program makes its next call.
Start(c) ==
  \/ PfsInitialize(c) \/ PfsFinish(c)
  \/ \E answering \in 0..MaxStubs : PfsInitializeFails(c, answering)
  \/ \E f \in Files :
       \/ PfsCreate(c, f) \/ PfsDelete(c, f)
       \/ \E mode \in Modes : PfsOpen(c, f, mode)
       \/ \E offset \in Offsets : PfsRead(c, f, offset)
       \/ \E r \in WriteRanges : PfsWrite(c, f, r)
       \/ In(c, "idle") /\ PfsClose(c, f)

\* The call under way goes on.
Continue(c) ==
  \/ LibraryRead(c) \/ LibraryHangUp(c)
  \/ ReadRefused(c) \/ CloseReturns(c)
  \/ WriteBlock(c) \/ WriteBlockFails(c) \/ WriteReturns(c) \/ WriteOrphaned(c)
  \/ DeleteUnlinks(c)
  \/ DeleteFinds(c) \/ DeleteRemoves(c) \/ DeleteStops(c) \/ DeleteFails(c)
  \/ FinishReturns(c)
  \/ In(c, "finish") /\ \E f \in Files : PfsClose(c, f)

\* The handler of the client's stream.
Serve(c) ==
  Handler(c) /\ UNCHANGED <<catalogVars, storeVars, libraryVars, historyVars>>

\* What the servers go on with when nobody waits for it.
Unasked == UnlinkUnasked \/ \E k \in 1..Len(late) : LateHandler(k)

PFSInit ==
  /\ TokenInit
  /\ file_metadata_map = [f \in Files |-> NoFile]
  /\ erasing = {}
  /\ storage = [s \in ServerIds |-> [f \in Files |-> Missing]]
  /\ late = <<>>
  /\ open_files = [c \in Clients |-> [f \in Files |-> Closed]]
  /\ file_server_addresses = [c \in Clients |-> 0]
  /\ file_server_stubs = [c \in Clients |-> <<>>]
  /\ api = [c \in Clients |-> Down]
  /\ births = [f \in Files |-> 0]
  /\ clean = [f \in Files |-> TRUE]
  /\ settled = [f \in Files |-> Nothing]

PFSNext ==
  \/ \E c \in Clients : Start(c) \/ Continue(c) \/ Die(c) \/ Serve(c)
  \/ Unasked

PFSSpec == PFSInit /\ [][PFSNext]_pfsVars

\* A handler that can run does, one that waits for the mutex gets it in time,
\* and a client that is not dead goes on with its call.
PFSFairness ==
  /\ \A c \in Clients : /\ WF_pfsVars(Serve(c))
                        /\ SF_pfsVars(ReadRequest(c) /\ Serve(c))
                        /\ WF_pfsVars(Continue(c))
  /\ WF_pfsVars(UnlinkUnasked)

FairPFSSpec == PFSSpec /\ PFSFairness

-----------------------------------------------------------------------------
(* Properties.                                                              *)

Values == [writer : Clients, epoch : Nat, alone : BOOLEAN]
Bytewise == [Bytes -> Values \union {Hole}]

Calls ==
  {Down, Idle, Dead, [stage |-> "finish"]}
  \union [stage : {"read"}, file : Files, offset : Offsets]
  \union [stage : {"write"}, file : Files, first : Bytes, last : Bytes, next : Bytes]
  \union [stage : {"data"}, file : Files, first : Bytes, last : Bytes, next : Int,
          value : Values]
  \union [stage : {"close", "closed"}, file : Files,
          after : {Idle, [stage |-> "finish"]}]
  \union [stage : {"unlink", "delete", "remove"}, file : Files, next : Nat,
          epoch : Nat, alone : BOOLEAN]

LateCalls ==
  [op : {"write"}, server : ServerIds, file : Files,
   bytes : (SUBSET Int) \ {{}}, value : Values]
  \union [op : {"remove"}, server : ServerIds, file : Files]
  \union [op : {"update"}, file : Files, filesize : Int]

\* The loop of pfs_write never runs past the bytes it was given, and that of
\* pfs_delete never past the stubs (lines 547-580, 699-711).
LoopInBounds(c) ==
  /\ In(c, "data") => api[c].next \in api[c].first .. api[c].last + 1
  /\ In(c, "unlink") \/ In(c, "delete") \/ In(c, "remove") =>
       api[c].next < Len(file_server_stubs[c])

PFSTypeOK ==
  /\ TypeOK
  /\ file_metadata_map \in [Files -> Metadata \union {NoFile}]
  /\ erasing \in SUBSET Files
  /\ storage \in [ServerIds -> [Files -> Bytewise \union {Missing}]]
  /\ late \in Seq(LateCalls)
  /\ open_files \in [Clients -> [Files -> [mode : Modes, offset : Int] \union {Closed}]]
  /\ file_server_addresses \in [Clients -> Nat]
  /\ file_server_stubs \in [Clients -> Seq(ServerIds)]
  /\ api \in [Clients -> Calls]
  /\ births \in [Files -> Nat]
  /\ clean \in [Files -> BOOLEAN]
  /\ settled \in [Files -> Bytewise]
  /\ \A c \in Clients : LoopInBounds(c)

\* A local file is not mistaken for no local file.
ASSUME MissingAssumption == Missing \notin Bytewise

\* The library keeps to the protocol the token service is verified for: every
\* step of the system is a step of TokenServer or leaves its state alone, so
\* that what holds of TokenServer holds in the system.
KeepsTokenProtocol == Spec

\* The message a call finds first on its stream is the one it waits for: the
\* GRANT of a write comes before the REVOKEs and a CLOSE is answered by ACK,
\* so no call takes the branch that gives up (lines 524-533, 637-646).
AnswerExpectedBy(c) ==
  call[c] = "open" /\ responses[c] # <<>> =>
    Head(responses[c]).token_action = IF In(c, "write") THEN "GRANT" ELSE "ACK"

AnswerExpected == \A c \in Clients : AnswerExpectedBy(c)

\* Writes whose StreamToken call has ended and that run at the same time write
\* different bytes, unless the file is contested (lines 535-580).
WritersExclude(f) ==
  \A c, d \in Clients :
    /\ c # d
    /\ Resumed(c, "data") /\ api[c].file = f
    /\ Resumed(d, "data") /\ api[d].file = f
    => api[c].last < api[d].first \/ api[d].last < api[c].first

WritersExcludeUntilContested == \A f \in Files : ~Contested(f) => WritersExclude(f)

\* c has been granted what it asked for on f and has not finished writing.
Writing(c, f) ==
  /\ In(c, "data") \/ (In(c, "write") /\ call[c] = "answered")
  /\ api[c].file = f

\* When DeleteFile finds no tokens on a file, no client that was granted one is
\* still writing to it, contested or not: neither what a split has taken away
\* nor a pass over the vector that is under way lets it through
\* (pfs_metaserver.cpp:315-322).
DeleteTestStep ==
  Sound => \A f \in Files : f \notin erasing /\ f \in erasing' =>
    \A c \in Clients : ~Writing(c, f)

NoWriterAtDeleteTest == [][DeleteTestStep]_pfsVars

\* A byte of f that was reported as written is on the server a reader would
\* ask, and within the size that pfs_fstat would report.
KeptByte(f, b) ==
  /\ ByteAt(StripeOf(Listed(NumServers), b), f, b) = settled[f][b]
  /\ b < file_metadata_map[f].filesize

Kept(f) == \A b \in Bytes : settled[f][b] # Hole /\ settled[f][b].alone => KeptByte(f, b)

\* What pfs_write reported as written stays, as long as the file is in the
\* catalogue, is not contested, and was not created during its own deletion:
\* whatever other clients write, fail to write, close, delete and create, and
\* although handlers of failed calls run on.  Only a call that began while a
\* handler of an earlier, failed WriteFile to the same bytes was still running
\* is not promised anything.
Durable == \A f \in Files : InCatalog(f) /\ clean[f] /\ ~Contested(f) => Kept(f)

\* No server stores anything that was written to f in an epoch up to this one.
ErasedUpTo(f, epoch) ==
  \A s \in ServerIds, b \in Bytes :
    ByteAt(s, f, b) # Hole => ByteAt(s, f, b).epoch > epoch

\* When pfs_delete returns 0, nothing is left on any server of the writes that
\* were granted before its test of the tokens, although writers with an open
\* descriptor may go on writing, unless a handler of a failed WriteFile was
\* still running at that test.
DeletedIsGone ==
  [][Sound => \A c \in Clients, f \in Files, epoch \in 0..2 * MaxBirths :
       /\ DeleteRemoves(c) /\ DeleteSucceeds(c)
       /\ api[c].file = f /\ api[c].epoch = epoch /\ api[c].alone
       => ErasedUpTo(f, epoch)']_pfsVars

\* Every library call returns, unless its request met a conflict.
CallReturns ==
  \A c \in Clients : ~(In(c, "idle") \/ In(c, "down") \/ In(c, "dead")) ~>
    In(c, "idle") \/ In(c, "down") \/ In(c, "dead") \/ conflicting[c] # <<>>

-----------------------------------------------------------------------------
(* The inductive invariant behind AnswerExpected and NoWriterAtDeleteTest,  *)
(* on top of TokenInv.                                                      *)

\* What an answered pfs_write of f leaves to be served.
Unserved(c, f) ==
  /\ \A k \in 1..Len(requests[c]) :
       requests[c][k].token_type = "WRITE" /\ requests[c][k].filename = f
  /\ pc[c] # "release"
  /\ pc[c] # "read" => request[c].filename = f

\* Where the call of c is in the library and where it is in the stream.
LinkOf(c) ==
  /\ In(c, "write") => call[c] \in {"open", "answered"} /\ Unserved(c, api[c].file)
  /\ In(c, "close") =>
       /\ call[c] \in {"open", "answered"}
       /\ pc[c] \in {"read", "release"}
       /\ \A k \in 1..Len(requests[c]) : requests[c][k].token_type = "CLOSE"
  /\ In(c, "close") \/ In(c, "closed") => api[c].after.stage \in {"idle", "finish"}
  /\ In(c, "data") =>
       /\ call[c] \in {"none", "done"}
       /\ requests[c] = <<>>
       /\ pc[c] \in {"read", "await_ack"}
       /\ pc[c] = "await_ack" => request[c].filename = api[c].file
  /\ In(c, "write") \/ In(c, "data") => api[c].last \in Int

\* Only WRITE and CLOSE are ever asked for, and a call has one request: a
\* handler that waits for acknowledgements gets none.
StreamLinkOf(c) ==
  /\ call[c] \in {"open", "answered"} => In(c, "write") \/ In(c, "close")
  /\ call[c] = "answered" => requests[c] = <<>> /\ pc[c] \in {"read", "await_ack"}
  /\ pc[c] = "await_ack" => requests[c] = <<>>
  /\ pc[c] = "split" => request[c].token_type = "WRITE"
  /\ \A k \in 1..Len(requests[c]) : requests[c][k].token_type \in {"WRITE", "CLOSE"}

Link == \A c \in Clients : LinkOf(c) /\ StreamLinkOf(c)

Owns(c, f) == \E k \in 1..Len(token_table[f]) : token_table[f][k].client_id = c

\* The handler of c waits for acknowledgements on f.
Hung(c, f) == pc[c] = "await_ack" /\ request[c].filename = f

\* c is in a pfs_write of f that was granted its token without a conflict.
Holds(c, f) ==
  /\ In(c, "write") \/ In(c, "data")
  /\ api[c].file = f
  /\ pc[c] = "read" /\ requests[c] = <<>>

\* A handler has erased tokens of f and has not yet pushed the one it grants.
Splitting(f) ==
  \E c \in Clients : pc[c] = "split" /\ request[c].filename = f /\ conflicting[c] # <<>>

\* A hung handler's client owns a token for good; without one nobody's token
\* has been taken away.
Guarded(f) ==
  \/ \E c \in Clients : Hung(c, f) /\ Owns(c, f)
  \/ \A c \in Clients : ~Hung(c, f) /\ (Holds(c, f) => Owns(c, f))

WritersGuarded == Sound => \A f \in Files : Splitting(f) \/ Guarded(f)

Shape ==
  /\ api = [c \in Clients |-> api[c]]
  /\ file_metadata_map = [f \in Files |-> file_metadata_map[f]]

PFSInv == Shape /\ Link /\ AnswerExpected /\ WritersGuarded

-----------------------------------------------------------------------------
(* The inductive invariant behind PFSTypeOK, WritersExcludeUntilContested,  *)
(* Durable and DeletedIsGone, on top of PFSInv.                             *)

Initialized(c) == ~In(c, "down") /\ ~In(c, "dead")

\* An initialised client reaches every server.  If its stubs are in order they
\* go through the list a whole number of times, so that it stripes a file as
\* every other such client does.
Connected(c) ==
  /\ file_server_addresses[c] % NumServers = 0
  /\ Initialized(c) =>
       /\ \A s \in ServerIds :
            \E k \in 1..Len(file_server_stubs[c]) : file_server_stubs[c][k] = s
       /\ Aligned(c) => Len(file_server_stubs[c]) % NumServers = 0

\* A pfs_write asks for the bytes it is going to write, from the first on.
AsksForItsBytes(c) ==
  In(c, "write") =>
    /\ api[c].next = api[c].first /\ api[c].first <= api[c].last
    /\ \A k \in 1..Len(requests[c]) : requests[c][k].start_byte = api[c].first
                                     /\ requests[c][k].end_byte = api[c].last
    /\ pc[c] = "split" => request[c].start_byte = api[c].first
                         /\ request[c].end_byte = api[c].last

\* What is being written belongs to an epoch that has begun, what is being
\* deleted to one that has ended; a file has to be created to be there.
EpochsOf(c) ==
  /\ In(c, "data") => api[c].value.epoch <= Epoch(api[c].file)
  /\ In(c, "unlink") \/ In(c, "delete") \/ In(c, "remove") =>
       api[c].epoch < Epoch(api[c].file)

\* The call of c has metadata_mutex, and no other call.
UnlinksAlone(c) ==
  In(c, "unlink") =>
    erasing = {api[c].file} /\ \A d \in Clients : In(d, "unlink") => d = c

CallsInv ==
  /\ \A c \in Clients :
       Connected(c) /\ AsksForItsBytes(c) /\ EpochsOf(c) /\ UnlinksAlone(c)
  /\ \A f \in erasing : InCatalog(f) /\ erasing = {f}
  /\ \A f \in Files : InCatalog(f) => births[f] > 0

\* A handler that waits for acknowledgements met a conflict.
WaitingMetConflict == \A c \in Clients : pc[c] = "await_ack" => conflicting[c] # <<>>

\* A client that was granted its WRITE owns a token over all it writes.
Covered(c, f) ==
  \E k \in 1..Len(token_table[f]) :
    /\ token_table[f][k].client_id = c
    /\ token_table[f][k].token_type = "WRITE"
    /\ token_table[f][k].start_byte <= api[c].first
    /\ api[c].last <= token_table[f][k].end_byte

HoldersCovered ==
  \A f \in Files : ~Contested(f) => \A c \in Clients : Holds(c, f) => Covered(c, f)

\* The blocks that a pfs_write of this epoch is done with are on the servers.
Written(c, f) ==
  /\ In(c, "data") /\ api[c].file = f
  /\ api[c].value.epoch = Epoch(f) /\ api[c].value.alone /\ Aligned(c)
  => \A b \in Bytes : api[c].first <= b /\ b < api[c].next =>
       ByteAt(StripeOf(Listed(NumServers), b), f, b) = api[c].value

\* Late handlers do not write what was promised, nor what is being written.
LateApart(f) ==
  /\ \A b \in Bytes : settled[f][b] # Hole /\ settled[f][b].alone => Alone(f, {b})
  /\ \A c \in Clients :
       In(c, "data") /\ api[c].file = f /\ api[c].value.alone
       => Alone(f, api[c].first .. api[c].last)

FilesKept ==
  \A f \in Files :
    /\ InCatalog(f) /\ clean[f] => ~Deleting(f)
    /\ ~Contested(f) => LateApart(f)
    /\ InCatalog(f) /\ clean[f] /\ ~Contested(f) =>
         Kept(f) /\ \A c \in Clients : Written(c, f)

\* While a file is being deleted nothing of its epoch is written, and nothing
\* of it is left on the servers the loop has visited.
Erasing(c) ==
  In(c, "unlink") \/ In(c, "delete") \/ In(c, "remove") =>
    /\ \A d \in Clients : In(d, "data") /\ api[d].file = api[c].file =>
         api[d].value.epoch > api[c].epoch
    /\ api[c].alone =>
         /\ \A k \in 1..Len(late) : IsLate("write", api[c].file, late[k]) =>
              late[k].value.epoch > api[c].epoch
         /\ \A k \in 1..api[c].next, b \in Bytes :
              LET byte == ByteAt(file_server_stubs[c][k], api[c].file, b)
              IN  byte # Hole => byte.epoch > api[c].epoch

DeletionsErase == Sound => \A c \in Clients : Erasing(c)

DataInv ==
  CallsInv /\ WaitingMetConflict /\ HoldersCovered /\ FilesKept /\ DeletionsErase

-----------------------------------------------------------------------------
(* What the documentation and the messages say, and the code does not do.   *)

\* "Prevents overlapping operations on file byte ranges" (README.md:9).
WritersAlwaysExclude == \A f \in Files : WritersExclude(f)

\* "provides consistent file operations for multiple clients in a parallel
\* environment" (README.md:4): what was reported as written stays, no matter
\* when the file was created.
DurableAlways == \A f \in Files : InCatalog(f) /\ ~Contested(f) => Kept(f)

=============================================================================
