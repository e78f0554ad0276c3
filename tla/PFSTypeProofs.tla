---------------------------- MODULE PFSTypeProofs ----------------------------
(***************************************************************************)
(* The state of the client library, the catalogue and the file servers     *)
(* keeps its types, for any number of clients, servers, files and bytes.   *)
(* That the loops of pfs_write and pfs_delete stay within their bounds     *)
(* rests on what an initialised client knows of the servers (CallsInv).    *)
(***************************************************************************)
EXTENDS PFSProofs

USE DEF catalogVars, storeVars

-----------------------------------------------------------------------------
(* Blocks and stripes: division with a remainder.                           *)

LEMMA Division ==
  ASSUME NEW a \in Int, NEW n \in Nat \ {0}
  PROVE  /\ a = n * (a \div n) + (a % n)
         /\ a % n \in 0..n - 1 /\ a \div n \in Int
OBVIOUS

LEMMA DivisionUnique ==
  ASSUME NEW n \in Nat \ {0}, NEW q \in Int, NEW r \in 0..n - 1, NEW a \in Int,
         a = n * q + r
  PROVE  a % n = r /\ a \div n = q
OBVIOUS

\* The sum of two multiples.
LEMMA MultipleSum ==
  ASSUME NEW a \in Int, NEW b \in Int, NEW n \in Nat \ {0}, a % n = 0, b % n = 0
  PROVE  (a + b) % n = 0
<1> DEFINE p == a \div n
           q == b \div n
<1>1. a = n * p + 0 /\ b = n * q + 0 /\ p \in Int /\ q \in Int
  BY Division
<1> HIDE DEF p, q
<1>2. a + b = n * (p + q) + 0 /\ p + q \in Int /\ a + b \in Int /\ 0 \in 0..n - 1
  BY <1>1
<1> DEFINE s == a + b
           t == p + q
<1> HIDE DEF s, t
<1>3. s = n * t + 0 /\ t \in Int /\ s \in Int /\ 0 \in 0..n - 1
  BY <1>2 DEF s, t
<1>4. s % n = 0
  BY <1>3, DivisionUnique
<1> QED BY <1>4 DEF s

\* Going through a list a whole number of times is going through the list.
LEMMA StripeOfMultiple ==
  ASSUME NEW q \in Int, NEW n \in Nat \ {0}, NEW m \in Nat \ {0}, m % n = 0
  PROVE  (q % m) % n = q % n
<1> DEFINE j == m \div n
           k == q \div m
           r == q % m
           i == r \div n
           t == r % n
<1>1. j \in Int /\ k \in Int /\ r \in Int /\ i \in Int /\ t \in 0..n - 1
  BY Division
<1>2. m = n * j + 0
  BY Division
<1>3. q = m * k + r /\ r = n * i + t
  BY Division
<1> HIDE DEF j, k, r, i, t
<1>4. m * k = n * (j * k)
  BY <1>1, <1>2
<1>5. q = n * (j * k) + (n * i + t) /\ j * k \in Int
  BY <1>1, <1>3, <1>4
<1>6. n * (j * k) + (n * i + t) = n * (j * k + i) + t /\ j * k + i \in Int
  BY <1>1, <1>5
<1>7. q % n = t
  BY <1>1, <1>5, <1>6, DivisionUnique
<1> QED BY <1>7 DEF t, r

\* From an offset to the end of its block all bytes are in that block.
LEMMA SameBlock ==
  ASSUME NEW offset \in Int, NEW b \in Int, offset <= b, b <= BlockEnd(offset)
  PROVE  b \div BlockSize = offset \div BlockSize
<1> DEFINE q == offset \div BlockSize
           r == offset % BlockSize
<1>0. BlockSize \in Nat \ {0}
  BY BlockSizeAssumption
<1>1. offset = BlockSize * q + r /\ r \in 0..BlockSize - 1 /\ q \in Int
  BY <1>0, Division
<1>2. b <= offset + BlockSize - 1 - r
  BY DEF BlockEnd
<1> HIDE DEF q, r
<1>3. b = BlockSize * q + (r + b - offset) /\ r + b - offset \in 0..BlockSize - 1
  BY <1>0, <1>1, <1>2
<1> QED BY <1>0, <1>1, <1>3, DivisionUnique DEF q

\* A WriteFile has at least one byte and none past the last of the pfs_write.
LEMMA ChunkBounds ==
  ASSUME NEW offset \in Int, NEW last \in Int, offset <= last
  PROVE  /\ ChunkEnd(offset, last) \in Int
         /\ offset <= ChunkEnd(offset, last) /\ ChunkEnd(offset, last) <= last
         /\ ChunkEnd(offset, last) <= BlockEnd(offset)
<1>1. BlockSize \in Nat \ {0} /\ offset % BlockSize \in 0..BlockSize - 1
  BY BlockSizeAssumption, Division
<1> DEFINE r == offset % BlockSize
<1>2. r \in Int /\ r <= BlockSize - 1 /\ BlockEnd(offset) = offset + BlockSize - 1 - r
  BY <1>1 DEF BlockEnd
<1> HIDE DEF r
<1>3. BlockEnd(offset) \in Int /\ offset <= BlockEnd(offset)
  BY <1>1, <1>2
<1> QED BY <1>3 DEF ChunkEnd

\* The bytes programs write.
LEMMA WriteRangeBytes ==
  /\ Bytes \subseteq Int
  /\ \A r \in WriteRanges : /\ r.start_byte \in Bytes /\ r.end_byte \in Bytes
                            /\ r.start_byte <= r.end_byte
<1>1. \A r \in WriteRanges :
        r.start_byte \in Int /\ r.end_byte \in Int /\ r.start_byte <= r.end_byte
  BY RangesAssumption
<1>2. ASSUME NEW r \in WriteRanges
      PROVE  /\ r.start_byte \in r.start_byte .. r.end_byte
             /\ r.end_byte \in r.start_byte .. r.end_byte
  BY <1>1
<1>3. \A b \in Bytes : \E r \in WriteRanges : b \in r.start_byte .. r.end_byte
  BY BytesAssumption
<1>4. Bytes \subseteq Int
  BY <1>1, <1>3
<1>5. \A r \in WriteRanges : \A b \in r.start_byte .. r.end_byte : b \in Bytes
  BY BytesAssumption
<1> QED BY <1>1, <1>2, <1>4, <1>5

-----------------------------------------------------------------------------
(* Which steps change what.                                                 *)

Step(c) == Start(c) \/ Continue(c) \/ Die(c) \/ Serve(c)

\* Of the catalogue and the number of creations.
LEMMA CatalogueSteps ==
  ASSUME NEW c \in Clients, Step(c)
  PROVE  \/ \E f \in Files : PfsCreate(c, f) \/ PfsDelete(c, f)
         \/ WriteReturns(c) \/ DeleteUnlinks(c)
         \/ UNCHANGED <<catalogVars, births>>
<1>1. CASE Start(c)
  BY <1>1 DEF Start, PfsInitialize, PfsInitializeFails, Ping, PfsFinish, PfsOpen, PfsRead,
     PfsWrite, PfsClose, historyVars
<1>2. CASE Continue(c)
  BY <1>2 DEF Continue, LibraryRead, LibraryHangUp, ReadRefused, CloseReturns, WriteBlock,
     WriteBlockFails, WriteOrphaned, DeleteFinds, DeleteRemoves, DeleteStops, DeleteFails,
     FinishReturns, PfsClose, historyVars
<1>3. CASE Die(c) \/ Serve(c)
  BY <1>3 DEF Die, Serve, historyVars
<1> QED BY <1>1, <1>2, <1>3 DEF Step

\* Of the addresses and the stubs.
LEMMA StubSteps ==
  ASSUME NEW c \in Clients, Step(c)
  PROVE  \/ PfsInitialize(c) \/ FinishReturns(c)
         \/ \E answering \in 0..MaxStubs : PfsInitializeFails(c, answering)
         \/ UNCHANGED <<file_server_addresses, file_server_stubs>>
<1>1. CASE Start(c)
  BY <1>1 DEF Start, PfsFinish, PfsCreate, PfsDelete, PfsOpen, PfsRead, PfsWrite, PfsClose,
     libraryVars
<1>2. CASE Continue(c)
  BY <1>2 DEF Continue, LibraryRead, LibraryHangUp, ReadRefused, CloseReturns, WriteBlock,
     WriteBlockFails, WriteReturns, WriteOrphaned, DeleteUnlinks, DeleteFinds, DeleteRemoves,
     DeleteStops, DeleteFails, PfsClose, libraryVars
<1>3. CASE Die(c) \/ Serve(c)
  BY <1>3 DEF Die, Serve, libraryVars
<1> QED BY <1>1, <1>2, <1>3 DEF Step

\* Of the local files.
LEMMA StorageSteps ==
  ASSUME NEW c \in Clients, Step(c)
  PROVE  WriteBlock(c) \/ DeleteRemoves(c) \/ UNCHANGED storage
<1>1. CASE Start(c)
  BY <1>1 DEF Start, PfsInitialize, PfsInitializeFails, Ping, PfsFinish, PfsCreate, PfsDelete,
     PfsOpen, PfsRead, PfsWrite, PfsClose
<1>2. CASE Continue(c)
  BY <1>2 DEF Continue, LibraryRead, LibraryHangUp, ReadRefused, CloseReturns,
     WriteBlockFails, WriteReturns, WriteOrphaned, DeleteUnlinks, DeleteFinds, DeleteStops,
     DeleteFails, FinishReturns, PfsClose
<1>3. CASE Die(c) \/ Serve(c)
  BY <1>3 DEF Die, Serve
<1> QED BY <1>1, <1>2, <1>3 DEF Step

\* Of what is known to be written, and of whether the file was created clean.
LEMMA HistorySteps ==
  ASSUME NEW c \in Clients, Step(c)
  PROVE  \/ \E f \in Files : PfsCreate(c, f)
         \/ WriteBlock(c) \/ WriteBlockFails(c) \/ WriteReturns(c) \/ Die(c)
         \/ UNCHANGED <<clean, settled>>
<1>1. CASE Start(c)
  BY <1>1 DEF Start, PfsInitialize, PfsInitializeFails, Ping, PfsFinish, PfsDelete,
     PfsOpen, PfsRead, PfsWrite, PfsClose, historyVars
<1>2. CASE Continue(c)
  BY <1>2 DEF Continue, LibraryRead, LibraryHangUp, ReadRefused, CloseReturns,
     WriteOrphaned, DeleteUnlinks, DeleteFinds, DeleteRemoves, DeleteStops, DeleteFails,
     FinishReturns, PfsClose, historyVars
<1>3. CASE Serve(c)
  BY <1>3 DEF Serve, historyVars
<1> QED BY <1>1, <1>2, <1>3 DEF Step

\* Of the descriptors.
LEMMA DescriptorSteps ==
  ASSUME NEW c \in Clients, Step(c)
  PROVE  \/ \E f \in Files, mode \in Modes : PfsOpen(c, f, mode)
         \/ CloseReturns(c) \/ Die(c)
         \/ UNCHANGED open_files
<1>1. CASE Start(c)
  BY <1>1 DEF Start, PfsInitialize, PfsInitializeFails, Ping, PfsFinish, PfsCreate, PfsDelete,
     PfsRead, PfsWrite, PfsClose, libraryVars
<1>2. CASE Continue(c)
  BY <1>2 DEF Continue, LibraryRead, LibraryHangUp, ReadRefused, WriteBlock,
     WriteBlockFails, WriteReturns, WriteOrphaned, DeleteUnlinks, DeleteFinds, DeleteRemoves,
     DeleteStops, DeleteFails, FinishReturns, PfsClose, libraryVars
<1>3. CASE Serve(c)
  BY <1>3 DEF Serve, libraryVars
<1> QED BY <1>1, <1>2, <1>3 DEF Step

\* Of what the servers have still to do.
LEMMA LateSteps ==
  ASSUME NEW c \in Clients, Step(c)
  PROVE  WriteBlockFails(c) \/ DeleteFails(c) \/ Die(c) \/ UNCHANGED late
<1>1. CASE Start(c)
  BY <1>1 DEF Start, PfsInitialize, PfsInitializeFails, Ping, PfsFinish, PfsCreate, PfsDelete,
     PfsOpen, PfsRead, PfsWrite, PfsClose
<1>2. CASE Continue(c)
  BY <1>2 DEF Continue, LibraryRead, LibraryHangUp, ReadRefused, CloseReturns, WriteBlock,
     WriteReturns, WriteOrphaned, DeleteUnlinks, DeleteFinds, DeleteRemoves, DeleteStops,
     FinishReturns, PfsClose
<1>3. CASE Serve(c)
  BY <1>3 DEF Serve
<1> QED BY <1>1, <1>2, <1>3 DEF Step

\* Of the library call under way.
LEMMA CallSteps ==
  ASSUME NEW c \in Clients, Step(c)
  PROVE  \/ PfsInitialize(c) \/ PfsFinish(c) \/ FinishReturns(c)
         \/ \E f \in Files : \/ PfsDelete(c, f) \/ PfsClose(c, f)
                             \/ \E offset \in Offsets : PfsRead(c, f, offset)
                             \/ \E r \in WriteRanges : PfsWrite(c, f, r)
         \/ LibraryHangUp(c) \/ ReadRefused(c) \/ CloseReturns(c)
         \/ WriteBlock(c) \/ WriteBlockFails(c) \/ WriteReturns(c) \/ WriteOrphaned(c)
         \/ DeleteUnlinks(c) \/ DeleteFinds(c) \/ DeleteRemoves(c) \/ DeleteStops(c)
         \/ DeleteFails(c) \/ Die(c)
         \/ UNCHANGED api
<1>1. CASE Start(c)
  BY <1>1 DEF Start, PfsInitializeFails, PfsCreate, PfsOpen, libraryVars
<1>2. CASE Continue(c)
  BY <1>2 DEF Continue, LibraryRead, libraryVars
<1>3. CASE Serve(c)
  BY <1>3 DEF Serve, libraryVars
<1> QED BY <1>1, <1>2, <1>3 DEF Step

-----------------------------------------------------------------------------
(* The types, variable by variable.                                         *)

\* What the induction on the types goes by.
TypeInv == PFSTypeOK /\ PFSInv /\ CallsInv

\* What the record of a library call holds, by its stage.
LEMMA CallParts ==
  ASSUME NEW c \in Clients, api[c] \in Calls
  PROVE  /\ In(c, "idle") => api[c] = Idle
         /\ In(c, "finish") => api[c] = [stage |-> "finish"]
         /\ In(c, "read") => api[c].file \in Files
         /\ In(c, "write") => /\ api[c].file \in Files /\ api[c].first \in Bytes
                              /\ api[c].last \in Bytes /\ api[c].next \in Bytes
         /\ In(c, "data") => /\ api[c].file \in Files /\ api[c].first \in Bytes
                             /\ api[c].last \in Bytes /\ api[c].next \in Int
                             /\ api[c].value \in Values
         /\ In(c, "close") \/ In(c, "closed") =>
              api[c].file \in Files /\ api[c].after \in {Idle, [stage |-> "finish"]}
         /\ In(c, "unlink") \/ In(c, "delete") \/ In(c, "remove") =>
              /\ api[c].file \in Files /\ api[c].next \in Nat
              /\ api[c].epoch \in Nat /\ api[c].alone \in BOOLEAN
BY DEF Calls, In, Down, Idle, Dead

\* The records that the steps of the library make.
LEMMA CallsMade ==
  /\ Down \in Calls /\ Idle \in Calls /\ Dead \in Calls /\ [stage |-> "finish"] \in Calls
  /\ \A f \in Files, offset \in Offsets :
       [stage |-> "read", file |-> f, offset |-> offset] \in Calls
  /\ \A f \in Files, first \in Bytes, last \in Bytes, next \in Bytes :
       [stage |-> "write", file |-> f, first |-> first, last |-> last, next |-> next] \in Calls
  /\ \A f \in Files, first \in Bytes, last \in Bytes, next \in Int, value \in Values :
       DataCall(f, first, last, next, value) \in Calls
  /\ \A f \in Files, after \in {Idle, [stage |-> "finish"]} :
       /\ [stage |-> "close", file |-> f, after |-> after] \in Calls
       /\ [stage |-> "closed", file |-> f, after |-> after] \in Calls
  /\ \A stage \in {"unlink", "delete", "remove"}, f \in Files, next \in Nat, epoch \in Nat,
        alone \in BOOLEAN : DeleteCall(stage, f, next, epoch, alone) \in Calls
<1>1. /\ Down \in Calls /\ Idle \in Calls /\ Dead \in Calls /\ [stage |-> "finish"] \in Calls
  BY DEF Calls
<1>2. \A f \in Files, offset \in Offsets :
        [stage |-> "read", file |-> f, offset |-> offset] \in Calls
  BY DEF Calls
<1>3. \A f \in Files, first \in Bytes, last \in Bytes, next \in Bytes :
        [stage |-> "write", file |-> f, first |-> first, last |-> last, next |-> next] \in Calls
  BY DEF Calls
<1>4. \A f \in Files, first \in Bytes, last \in Bytes, next \in Int, value \in Values :
        DataCall(f, first, last, next, value) \in Calls
  BY DEF Calls, DataCall
<1>5. \A f \in Files, after \in {Idle, [stage |-> "finish"]} :
        /\ [stage |-> "close", file |-> f, after |-> after] \in Calls
        /\ [stage |-> "closed", file |-> f, after |-> after] \in Calls
  BY DEF Calls
<1>6. \A stage \in {"unlink", "delete", "remove"}, f \in Files, next \in Nat, epoch \in Nat,
         alone \in BOOLEAN : DeleteCall(stage, f, next, epoch, alone) \in Calls
  BY DEF Calls, DeleteCall
<1> QED BY <1>1, <1>2, <1>3, <1>4, <1>5, <1>6

\* What the entries of late hold.
LEMMA LateParts ==
  ASSUME late \in Seq(LateCalls), NEW k \in 1..Len(late)
  PROVE  /\ late[k] \in LateCalls
         /\ late[k].op \in {"write", "remove", "update"} /\ late[k].file \in Files
         /\ late[k].op \in {"write", "remove"} => late[k].server \in ServerIds
         /\ late[k].op = "write" => /\ late[k].bytes \in (SUBSET Int) \ {{}}
                                    /\ late[k].value \in Values
         /\ late[k].op = "update" => late[k].filesize \in Int
<1>1. late[k] \in LateCalls
  OBVIOUS
<1>2. ASSUME NEW h \in LateCalls
      PROVE  /\ h.op \in {"write", "remove", "update"} /\ h.file \in Files
             /\ h.op \in {"write", "remove"} => h.server \in ServerIds
             /\ h.op = "write" => /\ h.bytes \in (SUBSET Int) \ {{}}
                                 /\ h.value \in Values
             /\ h.op = "update" => h.filesize \in Int
  BY DEF LateCalls
<1> QED BY <1>1, <1>2

\* An epoch ends when the file is created or deleted, and never comes back.
LEMMA EpochType ==
  ASSUME births \in [Files -> Nat], NEW f \in Files, InCatalog(f) => births[f] > 0
  PROVE  Epoch(f) \in Nat /\ \A c \in Clients : \A bytes : Value(c, f, bytes) \in Values
<1>1. births[f] \in Nat
  OBVIOUS
<1>2. Epoch(f) \in Nat
  BY <1>1 DEF Epoch
<1>3. ASSUME NEW c \in Clients, NEW bytes PROVE Value(c, f, bytes) \in Values
  <2>1. PICK alone \in BOOLEAN :
          Value(c, f, bytes) = [writer |-> c, epoch |-> Epoch(f), alone |-> alone]
    <3>1. CASE Alone(f, bytes)
      <4>1. Value(c, f, bytes) = [writer |-> c, epoch |-> Epoch(f), alone |-> TRUE]
        BY <3>1 DEF Value
      <4> QED BY <4>1
    <3>2. CASE ~Alone(f, bytes)
      <4>2. Alone(f, bytes) = FALSE
        BY <3>2
      <4>1. Value(c, f, bytes) = [writer |-> c, epoch |-> Epoch(f), alone |-> FALSE]
        BY <4>2 DEF Value
      <4> QED BY <4>1
    <3> QED BY <3>1, <3>2
  <2> QED BY <1>2, <2>1 DEF Values
<1> QED BY <1>2, <1>3

\* A step of anybody, with or without a client.
AnyStep == Unasked \/ \E c \in Clients : Step(c)

\* The ways the catalogue moves.
LEMMA CatalogueMoves ==
  ASSUME TypeInv, AnyStep
  PROVE  \/ UNCHANGED <<catalogVars, births>>
         \/ \E f \in Files : CreateFile(f) /\ births' = [births EXCEPT ![f] = @ + 1]
         \/ UNCHANGED births /\ \E f \in Files : DeleteTest(f, token_table[f])
         \/ UNCHANGED births /\ DeleteErase
         \/ UNCHANGED births /\ \E f \in Files, size \in Int : UpdateMetadata(f, size)
<1> DEFINE Goal ==
      \/ UNCHANGED <<catalogVars, births>>
      \/ \E f \in Files : CreateFile(f) /\ births' = [births EXCEPT ![f] = @ + 1]
      \/ UNCHANGED births /\ \E f \in Files : DeleteTest(f, token_table[f])
      \/ UNCHANGED births /\ DeleteErase
      \/ UNCHANGED births /\ \E f \in Files, size \in Int : UpdateMetadata(f, size)
<1> HIDE DEF Goal
<1> SUFFICES Goal
  BY DEF Goal
<1>1. /\ api \in [Clients -> Calls] /\ late \in Seq(LateCalls)
  BY DEF TypeInv, PFSTypeOK
<1>2. ASSUME NEW c \in Clients, Step(c) PROVE Goal
  <2>1. ASSUME NEW f \in Files, PfsCreate(c, f) \/ PfsDelete(c, f) PROVE Goal
    BY <2>1 DEF PfsCreate, PfsDelete, historyVars, Goal
  <2>2. CASE WriteReturns(c)
    <3>1. UpdateMetadata(api[c].file, api[c].last + 1) /\ UNCHANGED births /\ In(c, "data")
      BY <2>2 DEF WriteReturns, Resumed
    <3>2. api[c].file \in Files /\ api[c].last \in Bytes
      BY <1>1, <3>1, CallParts
    <3>3. PICK last \in Int : last = api[c].last
      BY <3>2, WriteRangeBytes
    <3>4. last + 1 \in Int /\ UpdateMetadata(api[c].file, last + 1)
      BY <3>1, <3>3
    <3> QED BY <3>1, <3>2, <3>4 DEF Goal
  <2>3. CASE DeleteUnlinks(c)
    BY <2>3 DEF DeleteUnlinks, historyVars, Goal
  <2>4. CASE UNCHANGED <<catalogVars, births>>
    BY <2>4 DEF Goal
  <2> QED BY <1>2, <2>1, <2>2, <2>3, <2>4, CatalogueSteps
<1>3. CASE UnlinkUnasked
  BY <1>3 DEF UnlinkUnasked, historyVars, Goal
<1>4. ASSUME NEW k \in 1..Len(late), LateHandler(k) PROVE Goal
  <2>1. UNCHANGED births
    BY <1>4 DEF LateHandler, historyVars
  <2>2. late[k].file \in Files /\ (late[k].op = "update" => late[k].filesize \in Int)
    BY <1>1, LateParts
  <2>3. CASE LateWrite(late[k]) \/ LateRemove(late[k])
    BY <2>1, <2>3 DEF LateWrite, LateRemove, Goal
  <2>4. CASE LateUpdate(late[k])
    BY <2>1, <2>2, <2>4 DEF LateUpdate, Goal
  <2> QED BY <1>4, <2>3, <2>4 DEF LateHandler
<1> QED BY <1>2, <1>3, <1>4 DEF AnyStep, Unasked

LEMMA CatalogueStep ==
  ASSUME TypeInv, AnyStep
  PROVE  /\ file_metadata_map' \in [Files -> Metadata \union {NoFile}]
         /\ erasing' \in SUBSET Files
         /\ births' \in [Files -> Nat]
         /\ \A f \in Files : InCatalog(f)' => births'[f] > 0
         /\ \A f \in erasing' : InCatalog(f)' /\ erasing' = {f}
         /\ \A f \in Files : Epoch(f) <= Epoch(f)'
<1> DEFINE Goal == /\ file_metadata_map' \in [Files -> Metadata \union {NoFile}]
                   /\ erasing' \in SUBSET Files
                   /\ births' \in [Files -> Nat]
                   /\ \A f \in Files : InCatalog(f)' => births'[f] > 0
                   /\ \A f \in erasing' : InCatalog(f)' /\ erasing' = {f}
                   /\ \A f \in Files : Epoch(f) <= Epoch(f)'
<1> HIDE DEF Goal
<1> SUFFICES Goal
  BY DEF Goal
<1>1. /\ file_metadata_map \in [Files -> Metadata \union {NoFile}]
      /\ erasing \in SUBSET Files
      /\ births \in [Files -> Nat]
      /\ \A f \in Files : InCatalog(f) => births[f] > 0
      /\ \A f \in erasing : InCatalog(f) /\ erasing = {f}
  BY DEF TypeInv, PFSTypeOK, CallsInv
<1>2. \A f \in Files : Epoch(f) \in Nat
  BY <1>1, EpochType
<1>3. CASE UNCHANGED <<catalogVars, births>>
  <2>1. \A f \in Files : Epoch(f)' = Epoch(f) /\ InCatalog(f)' = InCatalog(f)
    BY <1>3 DEF Epoch, InCatalog
  <2>2. \A f \in erasing' : InCatalog(f)' /\ erasing' = {f}
    BY <1>1, <1>3, <2>1
  <2> QED BY <1>1, <1>2, <1>3, <2>1, <2>2 DEF Goal
<1>4. ASSUME NEW g \in Files, CreateFile(g), births' = [births EXCEPT ![g] = @ + 1]
      PROVE  Goal
  <2>1. /\ ~InCatalog(g) /\ erasing = {} /\ erasing' = {}
        /\ file_metadata_map' = [file_metadata_map EXCEPT ![g] = [filesize |-> 0]]
    BY <1>4 DEF CreateFile, Unlocked
  <2>2. file_metadata_map' \in [Files -> Metadata \union {NoFile}] /\ births' \in [Files -> Nat]
    BY <1>1, <1>4, <2>1 DEF Metadata
  <2>3. \A f \in Files : f # g =>
          file_metadata_map'[f] = file_metadata_map[f] /\ births'[f] = births[f]
    BY <1>1, <1>4, <2>1
  <2>4. births'[g] = births[g] + 1 /\ births[g] \in Nat /\ InCatalog(g)'
    BY <1>1, <1>4, <2>1, NoFileAssumption DEF Metadata, InCatalog
  <2>5. \A f \in Files : f # g => Epoch(f)' = Epoch(f) /\ InCatalog(f)' = InCatalog(f)
    BY <2>1, <2>3 DEF Epoch, InCatalog
  <2>6. Epoch(g) <= Epoch(g)'
    BY <2>1, <2>4 DEF Epoch
  <2>8. ASSUME NEW f \in Files PROVE (InCatalog(f)' => births'[f] > 0) /\ Epoch(f) <= Epoch(f)'
    BY <1>1, <1>2, <2>3, <2>4, <2>5, <2>6
  <2> QED BY <2>1, <2>2, <2>8 DEF Goal
<1>5. ASSUME NEW g \in Files, DeleteTest(g, token_table[g]), UNCHANGED births
      PROVE  Goal
  <2>1. InCatalog(g) /\ erasing = {} /\ erasing' = {g} /\ UNCHANGED file_metadata_map
    BY <1>5 DEF DeleteTest, Unlocked
  <2>2. \A f \in Files : InCatalog(f)' = InCatalog(f)
    BY <2>1 DEF InCatalog
  <2>3. ASSUME NEW f \in Files PROVE Epoch(f) <= Epoch(f)'
    <3>1. births[f] \in Nat
      BY <1>1
    <3> QED BY <1>5, <2>1, <2>2, <3>1 DEF Epoch
  <2> QED BY <1>1, <1>5, <2>1, <2>2, <2>3 DEF Goal
<1>6. ASSUME DeleteErase, UNCHANGED births PROVE Goal
  <2>1. PICK g \in erasing : /\ erasing' = {}
                             /\ file_metadata_map' = [file_metadata_map EXCEPT ![g] = NoFile]
    BY <1>6 DEF DeleteErase
  <2>2. g \in Files /\ erasing = {g} /\ InCatalog(g)
    BY <1>1, <2>1
  <2>3. file_metadata_map' \in [Files -> Metadata \union {NoFile}]
    BY <1>1, <2>1, <2>2
  <2>4. \A f \in Files : InCatalog(f)' <=> InCatalog(f) /\ f # g
    BY <1>1, <2>1, <2>2 DEF InCatalog
  <2>5. ASSUME NEW f \in Files PROVE Epoch(f) <= Epoch(f)'
    <3>1. births[f] \in Nat
      BY <1>1
    <3> QED BY <1>6, <2>1, <2>2, <2>4, <3>1 DEF Epoch
  <2> QED BY <1>1, <1>6, <2>1, <2>3, <2>4, <2>5 DEF Goal
<1>7. ASSUME NEW g \in Files, NEW size \in Int, UpdateMetadata(g, size), UNCHANGED births
      PROVE  Goal
  <2>1. /\ InCatalog(g) /\ erasing = {} /\ erasing' = {}
        /\ \/ file_metadata_map' = [file_metadata_map EXCEPT ![g] = [filesize |-> size]]
           \/ file_metadata_map' = file_metadata_map
    BY <1>7 DEF UpdateMetadata, Unlocked
  <2>2. file_metadata_map' \in [Files -> Metadata \union {NoFile}]
    BY <1>1, <2>1 DEF Metadata
  <2>3. \A f \in Files : InCatalog(f)' = InCatalog(f)
    BY <1>1, <2>1, NoFileAssumption DEF InCatalog, Metadata
  <2>4. \A f \in Files : Epoch(f)' = Epoch(f)
    BY <1>7, <2>1, <2>3 DEF Epoch
  <2> QED BY <1>1, <1>2, <1>7, <2>1, <2>2, <2>3, <2>4 DEF Goal
<1> QED BY <1>3, <1>4, <1>5, <1>6, <1>7, CatalogueMoves

\* metadata_mutex changes hands at the two halves of DeleteFile only.
LEMMA ErasingSteps ==
  ASSUME NEW c \in Clients, Step(c)
  PROVE  \/ \E f \in Files : PfsDelete(c, f)
         \/ DeleteUnlinks(c)
         \/ UNCHANGED erasing
BY CatalogueSteps DEF PfsCreate, CreateFile, WriteReturns, UpdateMetadata

\* A byte of a local file is what was written there or a hole.
LEMMA ByteType ==
  ASSUME storage \in [ServerIds -> [Files -> Bytewise \union {Missing}]],
         NEW s \in ServerIds, NEW f \in Files, NEW b \in Bytes
  PROVE  ByteAt(s, f, b) \in Values \union {Hole}
<1>1. storage[s][f] \in Bytewise \union {Missing}
  OBVIOUS
<1>2. CASE storage[s][f] = Missing
  BY <1>2 DEF ByteAt, Stored
<1>3. CASE storage[s][f] # Missing
  BY <1>1, <1>3 DEF ByteAt, Stored, Bytewise
<1> QED BY <1>2, <1>3

\* WriteFile changes the bytes it is given, and no others.
LEMMA WriteFileFacts ==
  ASSUME storage \in [ServerIds -> [Files -> Bytewise \union {Missing}]],
         NEW s \in ServerIds, NEW f \in Files, NEW bytes, NEW value \in Values,
         WriteFile(s, f, bytes, value)
  PROVE  /\ storage' \in [ServerIds -> [Files -> Bytewise \union {Missing}]]
         /\ \A t \in ServerIds, g \in Files, b \in Bytes :
              ByteAt(t, g, b)' = IF t = s /\ g = f /\ b \in bytes THEN value
                                 ELSE ByteAt(t, g, b)
<1> DEFINE new == [b \in Bytes |-> IF b \in bytes THEN value ELSE ByteAt(s, f, b)]
<1>1. new \in Bytewise
  BY ByteType DEF Bytewise
<1>2. new # Missing
  BY <1>1, MissingAssumption
<1>3. \A b \in Bytes : new[b] = IF b \in bytes THEN value ELSE ByteAt(s, f, b)
  OBVIOUS
<1>4. storage' = [storage EXCEPT ![s] = [@ EXCEPT ![f] = new]]
  BY DEF WriteFile
<1> HIDE DEF new
<1>5. storage' \in [ServerIds -> [Files -> Bytewise \union {Missing}]]
  BY <1>1, <1>4
<1>6. /\ storage'[s][f] = new
      /\ \A t \in ServerIds, g \in Files : t # s \/ g # f => storage'[t][g] = storage[t][g]
  BY <1>4
<1>7. ASSUME NEW b \in Bytes
      PROVE  ByteAt(s, f, b)' = IF b \in bytes THEN value ELSE ByteAt(s, f, b)
  BY <1>2, <1>3, <1>6 DEF ByteAt, Stored
<1>8. ASSUME NEW t \in ServerIds, NEW g \in Files, NEW b \in Bytes, t # s \/ g # f
      PROVE  ByteAt(t, g, b)' = ByteAt(t, g, b)
  BY <1>6, <1>8 DEF ByteAt, Stored
<1> QED BY <1>5, <1>7, <1>8

\* What is removed is gone; nothing else is.
LEMMA RemoveFileFacts ==
  ASSUME storage \in [ServerIds -> [Files -> Bytewise \union {Missing}]],
         NEW s \in ServerIds, NEW f \in Files, RemoveFile(s, f)
  PROVE  /\ storage' \in [ServerIds -> [Files -> Bytewise \union {Missing}]]
         /\ \A t \in ServerIds, g \in Files, b \in Bytes :
              ByteAt(t, g, b)' = IF t = s /\ g = f THEN Hole ELSE ByteAt(t, g, b)
<1>1. storage' = [storage EXCEPT ![s] = [@ EXCEPT ![f] = Missing]]
  BY DEF RemoveFile
<1>2. /\ storage'[s][f] = Missing
      /\ \A t \in ServerIds, g \in Files : t # s \/ g # f => storage'[t][g] = storage[t][g]
  BY <1>1
<1>3. storage' \in [ServerIds -> [Files -> Bytewise \union {Missing}]]
  BY <1>1
<1> QED BY <1>2, <1>3 DEF ByteAt, Stored

\* The servers that the loops of pfs_write and pfs_delete turn to.
LEMMA ReachedServers ==
  ASSUME TypeInv, NEW c \in Clients
  PROVE  /\ Len(file_server_stubs[c]) \in Nat
         /\ Initialized(c) => Len(file_server_stubs[c]) > 0
         /\ \A offset \in Int : Initialized(c) => ServerOf(c, offset) \in ServerIds
         /\ In(c, "delete") \/ In(c, "remove") => Target(c) \in ServerIds
<1> DEFINE stubs == file_server_stubs[c]
           len == Len(stubs)
<1>1. stubs \in Seq(ServerIds) /\ api[c] \in Calls /\ LoopInBounds(c) /\ Connected(c)
  BY DEF TypeInv, PFSTypeOK, CallsInv
<1>2. len \in Nat /\ \A k \in 1..len : stubs[k] \in ServerIds
  BY <1>1
<1>3. ASSUME Initialized(c) PROVE len > 0
  <2>1. 0 \in ServerIds
    BY NumServersAssumption DEF ServerIds
  <2>2. \E k \in 1..len : stubs[k] = 0
    BY <1>1, <1>3, <2>1 DEF Connected
  <2> QED BY <1>2, <2>2
<1>4. ASSUME Initialized(c), NEW offset \in Int PROVE ServerOf(c, offset) \in ServerIds
  <2> DEFINE block == offset \div BlockSize
             k == block % len
  <2>1. block \in Int
    BY BlockSizeAssumption, Division
  <2> HIDE DEF block
  <2>2. len \in Nat \ {0}
    BY <1>2, <1>3, <1>4
  <2>3. k \in 0..len - 1
    BY <2>1, <2>2, Division
  <2>4. ServerOf(c, offset) = stubs[k + 1]
    BY DEF ServerOf, StripeOf, block
  <2> HIDE DEF k
  <2>5. k + 1 \in 1..len
    BY <1>2, <2>3
  <2> QED BY <1>2, <2>4, <2>5
<1>5. ASSUME In(c, "delete") \/ In(c, "remove") PROVE Target(c) \in ServerIds
  <2>1. api[c].next \in Nat /\ api[c].next < len
    BY <1>1, <1>5, CallParts DEF LoopInBounds
  <2>2. api[c].next + 1 \in 1..len
    BY <1>2, <2>1
  <2> QED BY <1>2, <2>2 DEF Target
<1> QED BY <1>2, <1>3, <1>4, <1>5

\* A step of a client on the local files is a WriteFile of a pfs_write or a
\* DeleteFile of a pfs_delete that is under way.
LEMMA StorageMoves ==
  ASSUME TypeInv, NEW c \in Clients, Step(c)
  PROVE  \/ UNCHANGED storage
         \/ /\ WriteBlock(c)
            /\ In(c, "data") /\ api[c].file \in Files /\ api[c].value \in Values
            /\ api[c].next \in Int /\ ServerOf(c, api[c].next) \in ServerIds
            /\ WriteFile(ServerOf(c, api[c].next), api[c].file, Chunk(c), api[c].value)
         \/ /\ DeleteRemoves(c)
            /\ In(c, "remove") /\ api[c].file \in Files /\ Target(c) \in ServerIds
            /\ RemoveFile(Target(c), api[c].file)
<1>1. api[c] \in Calls
  BY DEF TypeInv, PFSTypeOK
<1>2. CASE WriteBlock(c)
  <2>1. /\ In(c, "data")
        /\ WriteFile(ServerOf(c, api[c].next), api[c].file, Chunk(c), api[c].value)
    BY <1>2 DEF WriteBlock, WriteChunk, Resumed
  <2>2. api[c].file \in Files /\ api[c].value \in Values /\ api[c].next \in Int
    BY <1>1, <2>1, CallParts
  <2>3. Initialized(c)
    BY <2>1 DEF Initialized, In
  <2> QED BY <1>2, <2>1, <2>2, <2>3, ReachedServers
<1>3. CASE DeleteRemoves(c)
  <2>1. In(c, "remove") /\ RemoveFile(Target(c), api[c].file)
    BY <1>3 DEF DeleteRemoves
  <2>2. api[c].file \in Files /\ Target(c) \in ServerIds
    BY <1>1, <2>1, CallParts, ReachedServers
  <2> QED BY <1>3, <2>1, <2>2
<1> QED BY <1>2, <1>3, StorageSteps

\* What a handler that nobody waits for does to the local files.
LEMMA LateStorageMoves ==
  ASSUME TypeInv, NEW k \in 1..Len(late), LateHandler(k)
  PROVE  \/ UNCHANGED storage
         \/ /\ late[k].op = "write" /\ late[k].server \in ServerIds
            /\ late[k].file \in Files /\ late[k].value \in Values
            /\ \E bytes \in {late[k].bytes, {}} :
                 WriteFile(late[k].server, late[k].file, bytes, late[k].value)
         \/ /\ late[k].op = "remove" /\ late[k].server \in ServerIds
            /\ late[k].file \in Files
            /\ RemoveFile(late[k].server, late[k].file)
<1>1. late \in Seq(LateCalls)
  BY DEF TypeInv, PFSTypeOK
<1>2. /\ late[k].file \in Files
      /\ late[k].op \in {"write", "remove"} => late[k].server \in ServerIds
      /\ late[k].op = "write" => late[k].value \in Values
  BY <1>1, LateParts
<1> QED BY <1>2 DEF LateHandler, LateWrite, LateRemove, LateUpdate

LEMMA StorageTyped ==
  ASSUME TypeInv, AnyStep
  PROVE  storage' \in [ServerIds -> [Files -> Bytewise \union {Missing}]]
<1>1. storage \in [ServerIds -> [Files -> Bytewise \union {Missing}]]
  BY DEF TypeInv, PFSTypeOK
<1>2. ASSUME NEW c \in Clients, Step(c)
      PROVE  storage' \in [ServerIds -> [Files -> Bytewise \union {Missing}]]
  BY <1>1, <1>2, StorageMoves, WriteFileFacts, RemoveFileFacts
<1>3. ASSUME NEW k \in 1..Len(late), LateHandler(k)
      PROVE  storage' \in [ServerIds -> [Files -> Bytewise \union {Missing}]]
  BY <1>1, <1>3, LateStorageMoves, WriteFileFacts, RemoveFileFacts
<1>4. CASE UnlinkUnasked
  BY <1>1, <1>4 DEF UnlinkUnasked
<1> QED BY <1>2, <1>3, <1>4 DEF AnyStep, Unasked

\* What a client that gives up leaves to the servers.
LEMMA LateMoves ==
  ASSUME TypeInv, NEW c \in Clients, Step(c)
  PROVE  \/ UNCHANGED late
         \/ \E h \in LateCalls :
              /\ late' = Append(late, h)
              /\ \/ /\ h.op = "write" /\ (WriteBlockFails(c) \/ Die(c))
                    /\ In(c, "data") /\ h.file = api[c].file /\ h.value = api[c].value
                    /\ h.bytes = Chunk(c) /\ api[c].next <= api[c].last
                    /\ Settle(api[c].file, Chunk(c), Hole)
                 \/ h.op = "remove" /\ h.file = api[c].file /\ (In(c, "delete") \/ In(c, "remove"))
                 \/ h.op = "update"
<1> DEFINE Goal ==
      \/ UNCHANGED late
      \/ \E h \in LateCalls :
           /\ late' = Append(late, h)
           /\ \/ /\ h.op = "write" /\ (WriteBlockFails(c) \/ Die(c))
                 /\ In(c, "data") /\ h.file = api[c].file /\ h.value = api[c].value
                 /\ h.bytes = Chunk(c) /\ api[c].next <= api[c].last
                 /\ Settle(api[c].file, Chunk(c), Hole)
              \/ h.op = "remove" /\ h.file = api[c].file /\ (In(c, "delete") \/ In(c, "remove"))
              \/ h.op = "update"
<1> HIDE DEF Goal
<1> SUFFICES Goal
  BY DEF Goal
<1>1. api[c] \in Calls
  BY DEF TypeInv, PFSTypeOK
<1>2. CASE UNCHANGED late
  BY <1>2 DEF Goal
<1>3. ASSUME WriteBlockFails(c) \/ Die(c), GiveUpWrite(c) PROVE Goal
  <2> DEFINE h == [op |-> "write", server |-> ServerOf(c, api[c].next), file |-> api[c].file,
                   bytes |-> Chunk(c), value |-> api[c].value]
  <2>1. /\ In(c, "data") /\ api[c].next <= api[c].last /\ Settle(api[c].file, Chunk(c), Hole)
        /\ UNCHANGED late \/ late' = Append(late, h)
    BY <1>3 DEF GiveUpWrite, GiveUp, Resumed
  <2>2. /\ api[c].file \in Files /\ api[c].value \in Values
        /\ api[c].next \in Int /\ api[c].last \in Int
    BY <1>1, <2>1, CallParts, WriteRangeBytes
  <2>3. ServerOf(c, api[c].next) \in ServerIds
    <3>1. Initialized(c)
      BY <2>1 DEF Initialized, In
    <3> QED BY <2>2, <3>1, ReachedServers
  <2>4. Chunk(c) \in (SUBSET Int) \ {{}}
    <3>1. PICK from \in Int, last \in Int : from = api[c].next /\ last = api[c].last
      BY <2>2
    <3>2. /\ ChunkEnd(from, last) \in Int /\ from <= ChunkEnd(from, last)
          /\ Chunk(c) = from .. ChunkEnd(from, last)
      BY <2>1, <3>1, ChunkBounds DEF Chunk
    <3> DEFINE end == ChunkEnd(from, last)
    <3> HIDE DEF end
    <3>3. from \in from .. end /\ \A b \in from .. end : b \in Int
      BY <3>2 DEF end
    <3>4. from .. end \in SUBSET Int /\ from .. end # {}
      BY <3>3
    <3>5. Chunk(c) = from .. end
      BY <3>2 DEF end
    <3>6. Chunk(c) \in SUBSET Int /\ Chunk(c) # {}
      BY <3>4, <3>5
    <3>7. ASSUME NEW S \in SUBSET Int, S # {} PROVE S \in (SUBSET Int) \ {{}}
      BY <3>7, Zenon
    <3> QED BY <3>6, <3>7, Zenon
  <2>5. h \in LateCalls
    BY <2>2, <2>3, <2>4 DEF LateCalls
  <2>6. h.op = "write" /\ h.file = api[c].file /\ h.value = api[c].value /\ h.bytes = Chunk(c)
    OBVIOUS
  <2> HIDE DEF h
  <2> QED BY <1>3, <2>1, <2>5, <2>6 DEF Goal
<1>4. ASSUME GiveUpRemove(c) PROVE Goal
  <2> DEFINE h == [op |-> "remove", server |-> Target(c), file |-> api[c].file]
  <2>1. /\ In(c, "delete") \/ In(c, "remove")
        /\ UNCHANGED late \/ late' = Append(late, h)
    BY <1>4 DEF GiveUpRemove, GiveUp
  <2>2. api[c].file \in Files /\ Target(c) \in ServerIds
    BY <1>1, <2>1, CallParts, ReachedServers
  <2>3. h \in LateCalls
    BY <2>2 DEF LateCalls
  <2>4. h.op = "remove" /\ h.file = api[c].file
    OBVIOUS
  <2> HIDE DEF h
  <2> QED BY <2>1, <2>3, <2>4 DEF Goal
<1>5. ASSUME GiveUpUpdate(c) PROVE Goal
  <2> DEFINE h == [op |-> "update", file |-> api[c].file, filesize |-> api[c].last + 1]
  <2>1. In(c, "data") /\ (UNCHANGED late \/ late' = Append(late, h))
    BY <1>5 DEF GiveUpUpdate, GiveUp, Resumed
  <2>2. api[c].file \in Files /\ api[c].last \in Int
    BY <1>1, <2>1, CallParts, WriteRangeBytes
  <2>3. h \in LateCalls
    BY <2>2 DEF LateCalls
  <2>4. h.op = "update"
    OBVIOUS
  <2> HIDE DEF h
  <2> QED BY <2>1, <2>3, <2>4 DEF Goal
<1>6. CASE WriteBlockFails(c)
  BY <1>2, <1>3, <1>6 DEF WriteBlockFails
<1>7. CASE DeleteFails(c)
  BY <1>4, <1>7 DEF DeleteFails
<1>8. CASE Die(c)
  BY <1>2, <1>3, <1>4, <1>5, <1>8 DEF Die
<1> QED BY <1>2, <1>6, <1>7, <1>8, LateSteps

LEMMA LateTyped ==
  ASSUME TypeInv, AnyStep
  PROVE  late' \in Seq(LateCalls)
<1>1. late \in Seq(LateCalls)
  BY DEF TypeInv, PFSTypeOK
<1>2. ASSUME NEW c \in Clients, Step(c) PROVE late' \in Seq(LateCalls)
  <2>1. ASSUME NEW h \in LateCalls, late' = Append(late, h) PROVE late' \in Seq(LateCalls)
    BY <1>1, <2>1
  <2> QED BY <1>1, <1>2, <2>1, LateMoves
<1>3. ASSUME NEW k \in 1..Len(late), LateHandler(k) PROVE late' \in Seq(LateCalls)
  BY <1>1, <1>3, RemoveAtFacts DEF LateHandler
<1>4. CASE UnlinkUnasked
  BY <1>1, <1>4 DEF UnlinkUnasked
<1> QED BY <1>2, <1>3, <1>4 DEF AnyStep, Unasked

\* What is known to be written has the type of what is written.
LEMMA SettleFacts ==
  ASSUME settled \in [Files -> Bytewise], NEW f \in Files, NEW bytes,
         NEW value \in Values \union {Hole}, Settle(f, bytes, value)
  PROVE  /\ settled' \in [Files -> Bytewise]
         /\ \A g \in Files, b \in Bytes :
              settled'[g][b] = IF g = f /\ b \in bytes THEN value ELSE settled[g][b]
<1> DEFINE new == [b \in Bytes |-> IF b \in bytes THEN value ELSE settled[f][b]]
<1>1. new \in Bytewise
  BY DEF Bytewise
<1>2. \A b \in Bytes : new[b] = IF b \in bytes THEN value ELSE settled[f][b]
  OBVIOUS
<1>3. settled' = [settled EXCEPT ![f] = new]
  BY DEF Settle
<1> HIDE DEF new
<1> QED BY <1>1, <1>2, <1>3

\* What a step settles and unsettles.
LEMMA SettledMoves ==
  ASSUME TypeInv, NEW c \in Clients, Step(c)
  PROVE  \/ UNCHANGED <<clean, settled>>
         \/ \E f \in Files :
              /\ PfsCreate(c, f)
              /\ clean' = [clean EXCEPT ![f] = ~Deleting(f)]
              /\ settled' = [settled EXCEPT ![f] = Nothing]
         \/ /\ WriteBlock(c) \/ WriteBlockFails(c) \/ Die(c)
            /\ In(c, "data") /\ api[c].file \in Files /\ UNCHANGED clean
            /\ Settle(api[c].file, Chunk(c), Hole)
         \/ /\ WriteReturns(c)
            /\ In(c, "data") /\ api[c].file \in Files /\ api[c].value \in Values
            /\ UNCHANGED clean
            /\ Settle(api[c].file, api[c].first .. api[c].last,
                      IF api[c].value.epoch = Epoch(api[c].file) /\ Aligned(c)
                      THEN api[c].value ELSE Hole)
<1>1. api[c] \in Calls
  BY DEF TypeInv, PFSTypeOK
<1>2. CASE WriteBlock(c) \/ WriteBlockFails(c)
  BY <1>1, <1>2, CallParts DEF WriteBlock, WriteBlockFails, GiveUpWrite, Resumed
<1>5. CASE Die(c)
  BY <1>1, <1>5, CallParts DEF Die, GiveUpWrite, Resumed
<1>3. CASE WriteReturns(c)
  BY <1>1, <1>3, CallParts DEF WriteReturns, Resumed
<1>4. ASSUME NEW f \in Files, PfsCreate(c, f)
      PROVE  /\ clean' = [clean EXCEPT ![f] = ~Deleting(f)]
             /\ settled' = [settled EXCEPT ![f] = Nothing]
  BY <1>4 DEF PfsCreate
<1> QED BY <1>2, <1>3, <1>4, <1>5, HistorySteps

LEMMA HistoryTyped ==
  ASSUME TypeInv, NEW c \in Clients, Step(c)
  PROVE  clean' \in [Files -> BOOLEAN] /\ settled' \in [Files -> Bytewise]
<1>1. clean \in [Files -> BOOLEAN] /\ settled \in [Files -> Bytewise]
  BY DEF TypeInv, PFSTypeOK
<1>2. Nothing \in Bytewise
  BY DEF Nothing, Bytewise
<1>3. ASSUME NEW f \in Files,
             clean' = [clean EXCEPT ![f] = ~Deleting(f)],
             settled' = [settled EXCEPT ![f] = Nothing]
      PROVE  clean' \in [Files -> BOOLEAN] /\ settled' \in [Files -> Bytewise]
  <2>1. PICK free \in BOOLEAN : clean' = [clean EXCEPT ![f] = free]
    <3>1. CASE Deleting(f)
      <4>1. clean' = [clean EXCEPT ![f] = FALSE]
        BY <1>3, <3>1
      <4> QED BY <4>1
    <3>2. CASE ~Deleting(f)
      <4>1. clean' = [clean EXCEPT ![f] = TRUE]
        BY <1>3, <3>2
      <4> QED BY <4>1
    <3> QED BY <3>1, <3>2
  <2> QED BY <1>1, <1>2, <1>3, <2>1
<1>4. ASSUME NEW f \in Files, NEW bytes, NEW value \in Values \union {Hole},
             Settle(f, bytes, value), UNCHANGED clean
      PROVE  clean' \in [Files -> BOOLEAN] /\ settled' \in [Files -> Bytewise]
  BY <1>1, <1>4, SettleFacts
<1> QED BY <1>1, <1>3, <1>4, SettledMoves

LEMMA DescriptorsTyped ==
  ASSUME TypeInv, NEW c \in Clients, Step(c)
  PROVE  open_files' \in [Clients -> [Files -> [mode : Modes, offset : Int] \union {Closed}]]
<1>1. /\ open_files \in [Clients -> [Files -> [mode : Modes, offset : Int] \union {Closed}]]
      /\ api[c] \in Calls
  BY DEF TypeInv, PFSTypeOK
<1>2. ASSUME NEW f \in Files, NEW mode \in Modes, PfsOpen(c, f, mode)
      PROVE  open_files' \in [Clients -> [Files -> [mode : Modes, offset : Int] \union {Closed}]]
  <2>1. open_files' = [open_files EXCEPT ![c][f] = [mode |-> mode, offset |-> 0]]
    BY <1>2 DEF PfsOpen
  <2> QED BY <1>1, <2>1
<1>3. CASE CloseReturns(c)
  <2>1. open_files' = [open_files EXCEPT ![c][api[c].file] = Closed] /\ In(c, "closed")
    BY <1>3 DEF CloseReturns, Resumed
  <2> QED BY <1>1, <2>1
<1>4. CASE Die(c)
  <2>1. open_files' = [open_files EXCEPT ![c] = [f \in Files |-> Closed]]
    BY <1>4 DEF Die
  <2> QED BY <1>1, <2>1
<1> QED BY <1>1, <1>2, <1>3, <1>4, DescriptorSteps

-----------------------------------------------------------------------------
(* The servers a client knows.                                              *)

\* The addresses as pfs_initialize goes through them.
LEMMA ListedFacts ==
  ASSUME NEW n \in Nat
  PROVE  /\ Listed(n) \in Seq(ServerIds) /\ Len(Listed(n)) = n
         /\ \A k \in 1..n : Listed(n)[k] = (k - 1) % NumServers
<1>1. \A k \in 1..n : (k - 1) % NumServers \in ServerIds
  <2> SUFFICES ASSUME NEW k \in 1..n PROVE (k - 1) % NumServers \in ServerIds
    OBVIOUS
  <2>1. k - 1 \in Int /\ NumServers \in Nat \ {0}
    BY NumServersAssumption
  <2>2. (k - 1) % NumServers \in 0..NumServers - 1
    BY <2>1, Division
  <2> QED BY <2>2 DEF ServerIds
<1> QED BY <1>1 DEF Listed

\* Two lists of stubs, one after the other.
LEMMA Concatenated ==
  ASSUME NEW S, NEW s \in Seq(S), NEW t \in Seq(S)
  PROVE  /\ s \o t \in Seq(S) /\ Len(s \o t) = Len(s) + Len(t)
         /\ \A k \in 1..Len(s) : (s \o t)[k] = s[k]
         /\ \A k \in 1..Len(t) : (s \o t)[Len(s) + k] = t[k]
OBVIOUS

\* A list that starts again in the right place starts after a whole number of
\* rounds.
LEMMA WholeRounds ==
  ASSUME NEW stubs \in Seq(ServerIds), NEW n \in Nat \ {0}, n % NumServers = 0,
         stubs \o Listed(n) = Listed(Len(stubs \o Listed(n)))
  PROVE  Len(stubs \o Listed(n)) % NumServers = 0
<1> DEFINE len == Len(stubs)
           added == Listed(n)
           all == stubs \o added
           sum == len + n
<1>1. NumServers \in Nat \ {0} /\ len \in Nat
  BY NumServersAssumption
<1>2. /\ added \in Seq(ServerIds) /\ Len(added) = n
      /\ \A k \in 1..n : added[k] = (k - 1) % NumServers
  BY ListedFacts
<1>3. all = Listed(Len(all))
  OBVIOUS
<1> HIDE DEF added
<1>4. /\ Len(all) = sum
      /\ \A k \in 1..n : all[len + k] = added[k]
  <2>1. /\ Len(all) = len + Len(added)
        /\ \A k \in 1..Len(added) : all[len + k] = added[k]
    <3> HIDE DEF sum
    <3>1. stubs \in Seq(ServerIds) /\ added \in Seq(ServerIds)
      BY <1>2
    <3> QED BY <3>1
  <2> QED BY <1>2, <2>1
<1>5. sum \in Nat /\ len + 1 \in 1..sum /\ 1 \in 1..n
  BY <1>1
<1>6. all = Listed(sum)
  BY <1>3, <1>4
<1> HIDE DEF all, sum
<1>7. Listed(sum)[len + 1] = (len + 1 - 1) % NumServers
  BY <1>5, ListedFacts
<1>8. all[len + 1] = (1 - 1) % NumServers
  BY <1>2, <1>4, <1>5
<1>9. len + 1 - 1 = len /\ 1 - 1 = 0 /\ 0 % NumServers = 0
  BY <1>1
<1>10. len % NumServers = 0
  BY <1>6, <1>7, <1>8, <1>9
<1> HIDE DEF len
<1>11. len \in Int /\ n \in Int
  BY <1>1
<1>12. (len + n) % NumServers = 0
  BY <1>1, <1>10, <1>11, MultipleSum
<1> QED BY <1>4, <1>12 DEF all, added, sum

\* A pfs_initialize appends the addresses to those left from earlier ones.
LEMMA PingFacts ==
  ASSUME TypeInv, NEW c \in Clients, NEW answering \in Nat, Ping(c, answering)
  PROVE  /\ file_server_addresses' \in [Clients -> Nat]
         /\ file_server_addresses'[c] = file_server_addresses[c] + NumServers
         /\ file_server_addresses'[c] % NumServers = 0
         /\ file_server_stubs' \in [Clients -> Seq(ServerIds)]
         /\ file_server_stubs'[c] = file_server_stubs[c] \o Listed(answering)
         /\ \A d \in Clients : d # c => /\ file_server_addresses'[d] = file_server_addresses[d]
                                        /\ file_server_stubs'[d] = file_server_stubs[d]
<1>1. /\ file_server_addresses \in [Clients -> Nat]
      /\ file_server_stubs \in [Clients -> Seq(ServerIds)]
      /\ file_server_addresses[c] % NumServers = 0
      /\ NumServers \in Nat \ {0}
  BY NumServersAssumption DEF TypeInv, PFSTypeOK, CallsInv, Connected
<1> DEFINE addresses == file_server_addresses[c] + NumServers
           added == Listed(answering)
           stubs == file_server_stubs[c] \o added
<1>2. /\ file_server_addresses' = [file_server_addresses EXCEPT ![c] = addresses]
      /\ file_server_stubs' = [file_server_stubs EXCEPT ![c] = stubs]
  BY DEF Ping
<1>3. addresses \in Nat /\ addresses % NumServers = 0
  <2> DEFINE old == file_server_addresses[c]
  <2>1. old \in Nat /\ old % NumServers = 0
    BY <1>1
  <2> HIDE DEF old
  <2>2. old \in Int /\ NumServers \in Int /\ NumServers % NumServers = 0
    BY <1>1, <2>1
  <2>3. (old + NumServers) % NumServers = 0
    BY <1>1, <2>1, <2>2, MultipleSum
  <2>4. old + NumServers \in Nat
    BY <1>1, <2>1
  <2> QED BY <2>3, <2>4 DEF old
<1>4. added \in Seq(ServerIds)
  BY ListedFacts
<1>5. stubs \in Seq(ServerIds)
  BY <1>1, <1>4, Concatenated
<1> HIDE DEF addresses, stubs, added
<1>6. /\ file_server_addresses' \in [Clients -> Nat] /\ file_server_addresses'[c] = addresses
      /\ \A d \in Clients : d # c => file_server_addresses'[d] = file_server_addresses[d]
  BY <1>1, <1>2, <1>3
<1>7. /\ file_server_stubs' \in [Clients -> Seq(ServerIds)] /\ file_server_stubs'[c] = stubs
      /\ \A d \in Clients : d # c => file_server_stubs'[d] = file_server_stubs[d]
  BY <1>1, <1>2, <1>5
<1> QED BY <1>3, <1>6, <1>7 DEF addresses, stubs, added

\* A client whose pfs_initialize has succeeded reaches every server.
LEMMA InitializeConnects ==
  ASSUME TypeInv, NEW c \in Clients, PfsInitialize(c)
  PROVE  Connected(c)'
<1> DEFINE n == file_server_addresses[c] + NumServers
           stubs == file_server_stubs[c]
           all == stubs \o Listed(n)
<1>1. /\ NumServers \in Nat \ {0} /\ file_server_addresses[c] \in Nat /\ stubs \in Seq(ServerIds)
  BY NumServersAssumption DEF TypeInv, PFSTypeOK
<1>2. n \in Nat \ {0} /\ NumServers <= n
  BY <1>1
<1>3. /\ file_server_addresses'[c] = n /\ n % NumServers = 0
      /\ file_server_stubs'[c] = all
  BY <1>2, PingFacts DEF PfsInitialize
<1> HIDE DEF n
<1>4. /\ Listed(n) \in Seq(ServerIds) /\ Len(Listed(n)) = n
      /\ \A k \in 1..n : Listed(n)[k] = (k - 1) % NumServers
  BY <1>2, ListedFacts
<1>5. ASSUME NEW s \in ServerIds PROVE \E k \in 1..Len(all) : all[k] = s
  <2> DEFINE added == Listed(n)
             len == Len(stubs)
             k == len + (s + 1)
  <2>1. s \in 0..NumServers - 1 /\ s + 1 \in 1..n
    BY <1>1, <1>2 DEF ServerIds
  <2>2. s % NumServers = s /\ s + 1 - 1 = s
    BY <1>1, <2>1
  <2>3. added[s + 1] = s
    BY <1>4, <2>1, <2>2
  <2>4. added \in Seq(ServerIds) /\ Len(added) = n
    BY <1>4
  <2> HIDE DEF added
  <2>5. Len(stubs \o added) = len + n /\ len \in Nat
    BY <1>1, <2>4
  <2>6. (stubs \o added)[len + (s + 1)] = added[s + 1]
    <3> DEFINE p == s + 1
    <3>1. p \in 1..Len(added)
      BY <2>1, <2>4
    <3> HIDE DEF p
    <3>2. (stubs \o added)[Len(stubs) + p] = added[p]
      BY <1>1, <2>4, <3>1
    <3> QED BY <3>2 DEF p
  <2> HIDE DEF len
  <2>7. k \in 1..len + n
    BY <1>2, <2>1, <2>5
  <2> QED BY <2>3, <2>5, <2>6, <2>7 DEF added
<1>6. ASSUME all = Listed(Len(all)) PROVE Len(all) % NumServers = 0
  BY <1>1, <1>2, <1>3, <1>6, WholeRounds
<1> HIDE DEF all
<1>7. Aligned(c)' <=> all = Listed(Len(all))
  BY <1>3 DEF Aligned, Listed
<1> QED BY <1>3, <1>5, <1>6, <1>7 DEF Connected

\* A client that knows its servers goes on knowing them.
LEMMA ConnectedStep ==
  ASSUME TypeInv, NEW c \in Clients, Step(c),
         api' = [d \in Clients |-> api'[d]],
         \A d \in Clients : d # c => api'[d] = api[d]
  PROVE  /\ file_server_addresses' \in [Clients -> Nat]
         /\ file_server_stubs' \in [Clients -> Seq(ServerIds)]
         /\ \A d \in Clients : Connected(d)'
         /\ \A d \in Clients : d # c => file_server_stubs'[d] = file_server_stubs[d]
         /\ ~In(c, "down") /\ ~In(c, "finish") => file_server_stubs'[c] = file_server_stubs[c]
<1>1. /\ file_server_addresses \in [Clients -> Nat]
      /\ file_server_stubs \in [Clients -> Seq(ServerIds)]
      /\ api \in [Clients -> Calls]
      /\ NumServers \in Nat \ {0}
      /\ \A d \in Clients : Connected(d)
  BY NumServersAssumption DEF TypeInv, PFSTypeOK, CallsInv
<1>2. ASSUME NEW d \in Clients, file_server_addresses'[d] = file_server_addresses[d],
             file_server_stubs'[d] = file_server_stubs[d],
             Initialized(d)' => Initialized(d)
      PROVE  Connected(d)'
  <2>1. Aligned(d)' = Aligned(d)
    BY <1>2 DEF Aligned, Listed
  <2>2. Connected(d)
    BY <1>1
  <2> QED BY <1>2, <2>1, <2>2 DEF Connected
<1>3. ASSUME NEW d \in Clients, d # c, file_server_addresses'[d] = file_server_addresses[d],
             file_server_stubs'[d] = file_server_stubs[d]
      PROVE  Connected(d)'
  BY <1>2, <1>3 DEF Initialized, In
<1>4. CASE PfsInitialize(c)
  <2> DEFINE n == file_server_addresses[c] + NumServers
  <2>1. n \in Nat /\ Ping(c, n) /\ In(c, "down")
    BY <1>1, <1>4 DEF PfsInitialize, Ping
  <2> HIDE DEF n
  <2> QED BY <1>3, <1>4, <2>1, PingFacts, InitializeConnects
<1>5. ASSUME NEW answering \in 0..MaxStubs, PfsInitializeFails(c, answering)
      PROVE  /\ file_server_addresses' \in [Clients -> Nat]
             /\ file_server_stubs' \in [Clients -> Seq(ServerIds)]
             /\ \A d \in Clients : Connected(d)'
             /\ \A d \in Clients : d # c => file_server_stubs'[d] = file_server_stubs[d]
             /\ In(c, "down")
  <2>1. answering \in Nat /\ Ping(c, answering) /\ api' = api /\ In(c, "down")
    BY <1>5 DEF PfsInitializeFails, Ping
  <2>2. file_server_addresses'[c] % NumServers = 0 /\ ~Initialized(c)'
    BY <2>1, PingFacts DEF Initialized, In
  <2>3. Connected(c)'
    BY <2>2 DEF Connected
  <2> QED BY <1>3, <2>1, <2>3, PingFacts
<1>6. CASE FinishReturns(c)
  <2>1. /\ In(c, "finish") /\ api' = [api EXCEPT ![c] = Down]
        /\ file_server_addresses' = file_server_addresses
        /\ file_server_stubs' = [file_server_stubs EXCEPT ![c] = <<>>]
    BY <1>6 DEF FinishReturns, GoTo
  <2>2. /\ file_server_stubs' \in [Clients -> Seq(ServerIds)]
        /\ \A d \in Clients : d # c => file_server_stubs'[d] = file_server_stubs[d]
    BY <1>1, <2>1
  <2>3. ~Initialized(c)'
    BY <1>1, <2>1 DEF Initialized, In, Down
  <2>4. Connected(c)'
    BY <1>1, <2>1, <2>3 DEF Connected
  <2> QED BY <1>1, <1>3, <2>1, <2>2, <2>4
<1>7. CASE UNCHANGED <<file_server_addresses, file_server_stubs>> /\ ~PfsInitialize(c)
  <2>1. Initialized(c)' => Initialized(c)
    <3>1. ASSUME In(c, "down") \/ In(c, "dead") PROVE UNCHANGED api \/ GoTo(c, Dead)
      <4>1. Die(c) => GoTo(c, Dead)
        BY DEF Die
      <4>2. /\ ~PfsFinish(c) /\ ~FinishReturns(c) /\ ~LibraryHangUp(c) /\ ~ReadRefused(c)
            /\ ~CloseReturns(c) /\ ~WriteBlock(c) /\ ~WriteBlockFails(c) /\ ~WriteReturns(c)
            /\ ~WriteOrphaned(c)
        BY <3>1 DEF PfsFinish, FinishReturns, LibraryHangUp, ReadRefused, CloseReturns,
           WriteBlock, WriteBlockFails, WriteReturns, WriteOrphaned, GiveUpWrite, Resumed, In
      <4>3. /\ ~DeleteUnlinks(c) /\ ~DeleteFinds(c) /\ ~DeleteRemoves(c) /\ ~DeleteStops(c)
            /\ ~DeleteFails(c)
        BY <3>1 DEF DeleteUnlinks, DeleteFinds, DeleteRemoves, DeleteStops, DeleteFails,
           GiveUpRemove, In
      <4>4. ~\E f \in Files : \/ PfsDelete(c, f) \/ PfsClose(c, f)
                              \/ \E offset \in Offsets : PfsRead(c, f, offset)
                              \/ \E r \in WriteRanges : PfsWrite(c, f, r)
        BY <3>1 DEF PfsDelete, PfsClose, PfsRead, PfsWrite, In
      <4> QED BY <1>7, <4>1, <4>2, <4>3, <4>4, CallSteps
    <3>2. GoTo(c, Dead) => api'[c] = Dead
      BY <1>1 DEF GoTo
    <3> QED BY <3>1, <3>2 DEF Initialized, In, Dead
  <2>2. \A d \in Clients : Connected(d)'
    BY <1>2, <1>3, <1>7, <2>1
  <2> QED BY <1>1, <1>7, <2>2
<1> QED BY <1>4, <1>5, <1>6, <1>7, StubSteps

-----------------------------------------------------------------------------
(* The library call under way.                                              *)

\* A step moves the call of one client.
LEMMA StepIsLocal ==
  ASSUME TypeInv, NEW c \in Clients, Step(c)
  PROVE  /\ api' = [d \in Clients |-> api'[d]]
         /\ \A d \in Clients : d # c => SameFor(d)
<1>1. TypeOK /\ Shape
  BY DEF TypeInv, PFSTypeOK, PFSInv
<1>2. CASE Start(c) \/ Continue(c) \/ Die(c)
  BY <1>1, <1>2, LibraryIsLocal
<1>3. CASE Serve(c)
  BY <1>1, <1>3, HandlerIsLocal DEF Shape
<1> QED BY <1>2, <1>3 DEF Step

\* A call that is neither in the loop of pfs_write nor in that of pfs_delete has
\* no bounds to keep.
CallGoal(c) ==
  /\ api'[c] \in Calls
  /\ LoopInBounds(c)'
  /\ EpochsOf(c)'

LEMMA ElsewhereCall ==
  ASSUME NEW c, api'[c] \in Calls, api'[c].stage \notin {"data", "unlink", "delete", "remove"}
  PROVE  CallGoal(c)
BY DEF CallGoal, LoopInBounds, EpochsOf, In

\* A pfs_write that goes on with its bytes.
LEMMA DataCallGoal ==
  ASSUME NEW c, NEW f \in Files, NEW first \in Bytes, NEW last \in Bytes, NEW next \in Int,
         NEW value \in Values, api'[c] = DataCall(f, first, last, next, value),
         first <= next, next <= last + 1, value.epoch <= Epoch(f)'
  PROVE  CallGoal(c)
<1> DEFINE call1 == DataCall(f, first, last, next, value)
<1>1. call1 \in Calls
  BY CallsMade
<1>2. /\ call1.stage = "data" /\ call1.file = f /\ call1.first = first /\ call1.last = last
      /\ call1.next = next /\ call1.value = value
  BY DEF DataCall
<1>3. first \in Int /\ last \in Int
  BY WriteRangeBytes
<1>4. next \in first .. last + 1
  BY <1>3
<1> HIDE DEF call1
<1>5. api'[c] = call1
  BY DEF call1
<1>6. In(c, "data")' /\ ~In(c, "unlink")' /\ ~In(c, "delete")' /\ ~In(c, "remove")'
  BY <1>2, <1>5 DEF In
<1>7. LoopInBounds(c)'
  BY <1>2, <1>4, <1>5, <1>6 DEF LoopInBounds
<1>8. EpochsOf(c)'
  BY <1>2, <1>5, <1>6 DEF EpochsOf
<1> QED BY <1>1, <1>5, <1>7, <1>8 DEF CallGoal

\* A pfs_delete that goes on with its stubs.
LEMMA DeleteCallGoal ==
  ASSUME NEW c, NEW stage \in {"unlink", "delete", "remove"}, NEW f \in Files, NEW next \in Nat,
         NEW epoch \in Nat, NEW alone \in BOOLEAN,
         api'[c] = DeleteCall(stage, f, next, epoch, alone),
         next < Len(file_server_stubs'[c]), epoch < Epoch(f)'
  PROVE  CallGoal(c)
<1> DEFINE call1 == DeleteCall(stage, f, next, epoch, alone)
<1>1. call1 \in Calls
  BY CallsMade
<1>2. call1.stage = stage /\ call1.file = f /\ call1.next = next /\ call1.epoch = epoch
  BY DEF DeleteCall
<1> HIDE DEF call1
<1>3. api'[c] = call1
  BY DEF call1
<1>4. ~In(c, "data")' /\ (In(c, "unlink")' \/ In(c, "delete")' \/ In(c, "remove")')
  BY <1>2, <1>3 DEF In
<1>5. LoopInBounds(c)'
  BY <1>2, <1>3, <1>4 DEF LoopInBounds
<1>6. EpochsOf(c)'
  BY <1>2, <1>3, <1>4 DEF EpochsOf
<1> QED BY <1>1, <1>3, <1>5, <1>6 DEF CallGoal

LEMMA CallStep ==
  ASSUME TypeInv, NEW c \in Clients, Step(c)
  PROVE  CallGoal(c)
<1>1. /\ api \in [Clients -> Calls] /\ api[c] \in Calls
      /\ LoopInBounds(c) /\ AsksForItsBytes(c) /\ EpochsOf(c)
      /\ births \in [Files -> Nat] /\ \A f \in Files : InCatalog(f) => births[f] > 0
  BY DEF TypeInv, PFSTypeOK, CallsInv
<1>2. \A f \in Files : Epoch(f) \in Nat /\ Epoch(f)' \in Nat /\ Epoch(f) <= Epoch(f)'
  <2>1. /\ births' \in [Files -> Nat] /\ \A f \in Files : InCatalog(f)' => births'[f] > 0
        /\ \A f \in Files : Epoch(f) <= Epoch(f)'
    BY CatalogueStep DEF AnyStep
  <2>2. ASSUME NEW f \in Files PROVE Epoch(f)' \in Nat
    BY <2>1 DEF Epoch
  <2> QED BY <1>1, <2>1, <2>2, EpochType
<1>3. ~In(c, "down") /\ ~In(c, "finish") => file_server_stubs'[c] = file_server_stubs[c]
  BY StepIsLocal, ConnectedStep DEF SameFor
<1>4. ASSUME NEW e, GoTo(c, e) PROVE api'[c] = e
  BY <1>1, <1>4 DEF GoTo
<1>5. ASSUME NEW e \in Calls, GoTo(c, e), e.stage \notin {"data", "unlink", "delete", "remove"}
      PROVE  CallGoal(c)
  BY <1>4, <1>5, ElsewhereCall
<1>6. CASE \/ PfsInitialize(c) \/ ReadRefused(c) \/ WriteBlockFails(c) \/ WriteReturns(c)
           \/ WriteOrphaned(c) \/ DeleteStops(c) \/ DeleteFails(c)
           \/ DeleteRemoves(c) /\ DeleteSucceeds(c)
  <2>1. GoTo(c, Idle)
    BY <1>6 DEF PfsInitialize, ReadRefused, WriteBlockFails, WriteReturns, WriteOrphaned,
       DeleteStops, DeleteFails, DeleteRemoves, Return
  <2> QED BY <1>5, <2>1, CallsMade DEF Idle
<1>7. CASE PfsFinish(c) \/ FinishReturns(c) \/ Die(c)
  <2>1. GoTo(c, [stage |-> "finish"]) \/ GoTo(c, Down) \/ GoTo(c, Dead)
    BY <1>7 DEF PfsFinish, FinishReturns, Die
  <2> QED BY <1>5, <2>1, CallsMade DEF Down, Dead
<1>8. ASSUME NEW f \in Files, PfsClose(c, f) PROVE CallGoal(c)
  <2> DEFINE e == [stage |-> "close", file |-> f, after |-> api[c]]
  <2>1. GoTo(c, e) /\ (In(c, "idle") \/ In(c, "finish"))
    BY <1>8 DEF PfsClose
  <2>2. api[c] \in {Idle, [stage |-> "finish"]}
    BY <1>1, <2>1, CallParts
  <2>3. e \in Calls /\ e.stage = "close"
    BY <2>2, CallsMade
  <2> HIDE DEF e
  <2> QED BY <1>5, <2>1, <2>3
<1>9. ASSUME NEW f \in Files, NEW offset \in Offsets, PfsRead(c, f, offset)
      PROVE  CallGoal(c)
  <2> DEFINE e == [stage |-> "read", file |-> f, offset |-> offset]
  <2>1. GoTo(c, e)
    BY <1>9 DEF PfsRead
  <2>2. e \in Calls /\ e.stage = "read"
    BY CallsMade
  <2> HIDE DEF e
  <2> QED BY <1>5, <2>1, <2>2
<1>10. ASSUME NEW f \in Files, NEW r \in WriteRanges, PfsWrite(c, f, r)
       PROVE  CallGoal(c)
  <2> DEFINE e == [stage |-> "write", file |-> f, first |-> r.start_byte,
                   last |-> r.end_byte, next |-> r.start_byte]
  <2>1. GoTo(c, e)
    BY <1>10 DEF PfsWrite
  <2>2. r.start_byte \in Bytes /\ r.end_byte \in Bytes
    BY WriteRangeBytes
  <2>3. e \in Calls /\ e.stage = "write"
    BY <2>2, CallsMade
  <2> HIDE DEF e
  <2> QED BY <1>5, <2>1, <2>3
<1>11. CASE LibraryHangUp(c)
  <2>1. CASE In(c, "write")
    <3>1. /\ api[c].file \in Files /\ api[c].first \in Bytes /\ api[c].last \in Bytes
          /\ api[c].next = api[c].first /\ api[c].first <= api[c].last
      BY <1>1, <2>1, CallParts DEF AsksForItsBytes
    <3>2. GoTo(c, DataCall(api[c].file, api[c].first, api[c].last, api[c].next,
                           Value(c, api[c].file, api[c].first .. api[c].last)))
      BY <1>11, <2>1 DEF LibraryHangUp, In
    <3>3. PICK f \in Files, first \in Bytes, last \in Bytes :
            /\ first <= last
            /\ GoTo(c, DataCall(f, first, last, first, Value(c, f, first .. last)))
      BY <3>1, <3>2
    <3>4. Value(c, f, first .. last) \in Values /\ Value(c, f, first .. last).epoch = Epoch(f)
      BY <1>1, EpochType DEF Value
    <3>5. PICK value \in Values : value = Value(c, f, first .. last)
      BY <3>4
    <3>6. api'[c] = DataCall(f, first, last, first, value)
      BY <1>4, <3>3, <3>5
    <3>7. value.epoch <= Epoch(f)'
      BY <1>2, <3>4, <3>5
    <3>8. first \in Int /\ last \in Int
      BY WriteRangeBytes
    <3>9. first <= first /\ first <= last + 1
      BY <3>3, <3>8
    <3> QED BY <3>6, <3>7, <3>8, <3>9, DataCallGoal
  <2>2. CASE In(c, "close")
    <3> DEFINE e == [stage |-> "closed", file |-> api[c].file, after |-> api[c].after]
    <3>1. GoTo(c, e)
      BY <1>11, <2>2 DEF LibraryHangUp, In
    <3>2. api[c].file \in Files /\ api[c].after \in {Idle, [stage |-> "finish"]}
      BY <1>1, <2>2, CallParts
    <3>3. e \in Calls /\ e.stage = "closed"
      BY <3>2, CallsMade
    <3> HIDE DEF e
    <3> QED BY <1>5, <3>1, <3>3
  <2> QED BY <1>11, <2>1, <2>2 DEF LibraryHangUp
<1>12. CASE CloseReturns(c)
  <2>1. GoTo(c, api[c].after) /\ api[c].after \in {Idle, [stage |-> "finish"]}
    BY <1>1, <1>12, CallParts DEF CloseReturns, Resumed
  <2> QED BY <1>5, <2>1, CallsMade DEF Idle
<1>13. CASE WriteBlock(c)
  <2>1. /\ In(c, "data") /\ api[c].next <= api[c].last
        /\ GoTo(c, DataCall(api[c].file, api[c].first, api[c].last,
                            ChunkEnd(api[c].next, api[c].last) + 1, api[c].value))
    BY <1>13 DEF WriteBlock, Resumed
  <2>2. /\ api[c].file \in Files /\ api[c].first \in Bytes /\ api[c].last \in Bytes
        /\ api[c].next \in Int /\ api[c].value \in Values
        /\ api[c].first <= api[c].next
        /\ api[c].value.epoch <= Epoch(api[c].file)
    <3>1. /\ api[c].file \in Files /\ api[c].first \in Bytes /\ api[c].last \in Bytes
          /\ api[c].next \in Int /\ api[c].value \in Values
      BY <1>1, <2>1, CallParts
    <3>2. api[c].first \in Int /\ api[c].last \in Int
      BY <3>1, WriteRangeBytes
    <3>3. api[c].next \in api[c].first .. api[c].last + 1
      BY <1>1, <2>1 DEF LoopInBounds
    <3> QED BY <1>1, <2>1, <3>1, <3>2, <3>3 DEF EpochsOf
  <2>3. PICK f \in Files, first \in Bytes, last \in Bytes, from \in Int, value \in Values :
          /\ from <= last /\ first <= from /\ value.epoch <= Epoch(f)
          /\ GoTo(c, DataCall(f, first, last, ChunkEnd(from, last) + 1, value))
    BY <2>1, <2>2
  <2>4. first \in Int /\ last \in Int
    BY WriteRangeBytes
  <2> DEFINE end == ChunkEnd(from, last)
  <2>5. end \in Int /\ from <= end /\ end <= last
    BY <2>3, <2>4, ChunkBounds
  <2>6. api'[c] = DataCall(f, first, last, end + 1, value)
    BY <1>4, <2>3
  <2> HIDE DEF end
  <2>7. PICK next \in Int : next = end + 1 /\ first <= next /\ next <= last + 1
    BY <2>3, <2>4, <2>5
  <2>8. value.epoch \in Int
    BY DEF Values
  <2>9. value.epoch <= Epoch(f)'
    BY <1>2, <2>3, <2>8
  <2> QED BY <2>6, <2>7, <2>9, DataCallGoal
<1>14. ASSUME NEW f \in Files, PfsDelete(c, f) PROVE CallGoal(c)
  <2>1. /\ In(c, "idle") /\ InCatalog(f) /\ births' = births
        /\ erasing = {} /\ erasing' = {f} /\ UNCHANGED file_metadata_map
        /\ GoTo(c, DeleteCall("unlink", f, 0, Epoch(f), Alone(f, Int)))
        /\ file_server_stubs' = file_server_stubs
    BY <1>14 DEF PfsDelete, DeleteTest, Unlocked, historyVars
  <2>2. PICK epoch \in Nat : epoch = Epoch(f)
    BY <1>2
  <2>3. PICK alone \in BOOLEAN :
          GoTo(c, DeleteCall("unlink", f, 0, Epoch(f), alone))
    <3>1. CASE Alone(f, Int)
      <4>1. DeleteCall("unlink", f, 0, Epoch(f), Alone(f, Int))
              = DeleteCall("unlink", f, 0, Epoch(f), TRUE)
        BY <3>1 DEF DeleteCall
      <4> QED BY <2>1, <4>1
    <3>2. CASE ~Alone(f, Int)
      <4>2. Alone(f, Int) = FALSE
        BY <3>2
      <4>1. DeleteCall("unlink", f, 0, Epoch(f), Alone(f, Int))
              = DeleteCall("unlink", f, 0, Epoch(f), FALSE)
        BY <4>2 DEF DeleteCall
      <4> QED BY <2>1, <4>1
    <3> QED BY <3>1, <3>2
  <2>4. epoch < Epoch(f)'
    <3>1. births[f] \in Nat
      BY <1>1
    <3> QED BY <2>1, <2>2, <3>1 DEF Epoch, InCatalog
  <2>5. 0 < Len(file_server_stubs'[c])
    <3>1. Initialized(c)
      BY <2>1 DEF Initialized, In
    <3>2. Len(file_server_stubs[c]) > 0 /\ Len(file_server_stubs[c]) \in Nat
      BY <3>1, ReachedServers
    <3> QED BY <2>1, <3>2
  <2>6. api'[c] = DeleteCall("unlink", f, 0, epoch, alone)
    BY <1>4, <2>2, <2>3
  <2> QED BY <2>4, <2>5, <2>6, DeleteCallGoal
<1>15. ASSUME DeleteUnlinks(c) \/ DeleteFinds(c) \/ (DeleteRemoves(c) /\ ~DeleteSucceeds(c))
       PROVE  CallGoal(c)
  <2>1. /\ In(c, "unlink") \/ In(c, "delete") \/ In(c, "remove")
        /\ UNCHANGED file_server_stubs
    BY <1>15 DEF DeleteUnlinks, DeleteFinds, DeleteRemoves
  <2>2. /\ api[c].file \in Files /\ api[c].next \in Nat /\ api[c].epoch \in Nat
        /\ api[c].alone \in BOOLEAN
        /\ api[c].next < Len(file_server_stubs[c])
        /\ api[c].epoch < Epoch(api[c].file)
    BY <1>1, <2>1, CallParts DEF LoopInBounds, EpochsOf
  <2>3. \E next \in Nat, stage \in {"delete", "remove"} :
          /\ next < Len(file_server_stubs[c])
          /\ GoTo(c, DeleteCall(stage, api[c].file, next, api[c].epoch, api[c].alone))
    <3>1. CASE DeleteFinds(c)
      BY <2>2, <3>1 DEF DeleteFinds
    <3>3. CASE DeleteUnlinks(c)
      <4>1. Len(file_server_stubs[c]) \in Nat /\ 0 < Len(file_server_stubs[c])
        BY <2>2, ReachedServers
      <4> QED BY <3>3, <4>1 DEF DeleteUnlinks
    <3>2. CASE DeleteRemoves(c) /\ ~DeleteSucceeds(c)
      <4>1. Len(file_server_stubs[c]) \in Nat
        BY ReachedServers
      <4>2. /\ In(c, "remove")
            /\ GoTo(c, DeleteCall("delete", api[c].file, api[c].next + 1, api[c].epoch,
                                  api[c].alone))
        BY <3>2 DEF DeleteRemoves
      <4>3. api[c].next + 1 < Len(file_server_stubs[c]) /\ api[c].next + 1 \in Nat
        BY <2>2, <3>2, <4>1, <4>2 DEF DeleteSucceeds, StubsToVisit
      <4> QED BY <4>2, <4>3
    <3> QED BY <1>15, <3>1, <3>2, <3>3
  <2>4. PICK f \in Files, next \in Nat, stage \in {"delete", "remove"}, epoch \in Nat,
             alone \in BOOLEAN :
          /\ next < Len(file_server_stubs[c]) /\ epoch < Epoch(f)
          /\ GoTo(c, DeleteCall(stage, f, next, epoch, alone))
    BY <2>2, <2>3
  <2>5. next < Len(file_server_stubs'[c])
    BY <2>1, <2>4
  <2>6. epoch < Epoch(f)'
    BY <1>2, <2>4
  <2>7. api'[c] = DeleteCall(stage, f, next, epoch, alone)
    BY <1>4, <2>4
  <2> QED BY <2>5, <2>6, <2>7, DeleteCallGoal
<1>16. CASE UNCHANGED api
  <2>1. In(c, "data") => /\ api[c].file \in Files /\ api[c].value.epoch \in Int
    BY <1>1, CallParts DEF Values
  <2>2. In(c, "unlink") \/ In(c, "delete") \/ In(c, "remove") =>
          api[c].file \in Files /\ api[c].epoch \in Int
    BY <1>1, CallParts
  <2>3. ~(In(c, "unlink") \/ In(c, "delete") \/ In(c, "remove")) \/ file_server_stubs'[c] = file_server_stubs[c]
    BY <1>3 DEF In
  <2>4. LoopInBounds(c)'
    BY <1>1, <1>16, <2>3 DEF LoopInBounds, In
  <2>5. EpochsOf(c)'
    <3>2. CASE In(c, "data")
      <4>1. PICK f \in Files : f = api[c].file
        BY <2>1, <3>2
      <4>2. PICK e \in Int : e = api[c].value.epoch
        BY <2>1, <3>2
      <4>5. e <= Epoch(f)
        BY <1>1, <3>2, <4>1, <4>2 DEF EpochsOf
      <4>3. e <= Epoch(f)'
        BY <1>2, <4>5
      <4>4. api'[c].file = f /\ api'[c].value.epoch = e /\ ~In(c, "unlink")' /\ ~In(c, "delete")' /\ ~In(c, "remove")'
        BY <1>16, <3>2, <4>1, <4>2 DEF In
      <4> QED BY <4>3, <4>4 DEF EpochsOf
    <3>3. CASE In(c, "unlink") \/ In(c, "delete") \/ In(c, "remove")
      <4>1. PICK f \in Files : f = api[c].file
        BY <2>2, <3>3
      <4>2. PICK e \in Int : e = api[c].epoch
        BY <2>2, <3>3
      <4>5. e < Epoch(f)
        BY <1>1, <3>3, <4>1, <4>2 DEF EpochsOf
      <4>3. e < Epoch(f)'
        BY <1>2, <4>5
      <4>4. api'[c].file = f /\ api'[c].epoch = e /\ ~In(c, "data")'
        BY <1>16, <3>3, <4>1, <4>2 DEF In
      <4> QED BY <4>3, <4>4 DEF EpochsOf
    <3>4. CASE ~In(c, "data") /\ ~In(c, "unlink") /\ ~In(c, "delete") /\ ~In(c, "remove")
      BY <1>16, <3>4 DEF EpochsOf, In
    <3> QED BY <3>2, <3>3, <3>4
  <2> QED BY <1>1, <1>16, <2>4, <2>5 DEF CallGoal
<1> QED BY <1>6, <1>7, <1>8, <1>9, <1>10, <1>11, <1>12, <1>13, <1>14, <1>15, <1>16, CallSteps

-----------------------------------------------------------------------------
(* The DeleteFile that has metadata_mutex.                                  *)

LEMMA UnlinkingSteps ==
  ASSUME TypeInv, NEW c \in Clients, Step(c), In(c, "unlink")'
  PROVE  (\E f \in Files : PfsDelete(c, f)) \/ UNCHANGED api
<1>1. api \in [Clients -> Calls] /\ api[c] \in Calls
  BY DEF TypeInv, PFSTypeOK
<1>2. ASSUME NEW e, GoTo(c, e), e.stage # "unlink" PROVE FALSE
  <2>1. api'[c] = e
    BY <1>1, <1>2 DEF GoTo
  <2> QED BY <1>2, <2>1 DEF In
<1>3. CASE \/ PfsInitialize(c) \/ PfsFinish(c) \/ FinishReturns(c) \/ ReadRefused(c)
           \/ WriteBlockFails(c) \/ WriteReturns(c) \/ WriteOrphaned(c)
           \/ DeleteStops(c) \/ DeleteFails(c) \/ Die(c)
  <2>1. \E e \in {Idle, Down, Dead, [stage |-> "finish"]} : GoTo(c, e)
    BY <1>3 DEF PfsInitialize, PfsFinish, FinishReturns, ReadRefused, WriteBlockFails,
       WriteReturns, WriteOrphaned, DeleteStops, DeleteFails, Die, Return
  <2>2. \A e \in {Idle, Down, Dead, [stage |-> "finish"]} : e.stage # "unlink"
    BY DEF Idle, Down, Dead
  <2> QED BY <1>2, <2>1, <2>2
<1>4. ASSUME NEW f \in Files,
             \/ PfsClose(c, f)
             \/ \E offset \in Offsets : PfsRead(c, f, offset)
             \/ \E r \in WriteRanges : PfsWrite(c, f, r)
      PROVE  FALSE
  BY <1>2, <1>4 DEF PfsClose, PfsRead, PfsWrite
<1>5. CASE LibraryHangUp(c) \/ WriteBlock(c)
  BY <1>2, <1>5 DEF LibraryHangUp, WriteBlock, DataCall
<1>6. CASE DeleteUnlinks(c) \/ DeleteFinds(c) \/ DeleteRemoves(c)
  BY <1>2, <1>6 DEF DeleteUnlinks, DeleteFinds, DeleteRemoves, DeleteCall, Return, Idle
<1>7. CASE CloseReturns(c)
  <2>1. GoTo(c, api[c].after) /\ api[c].after \in {Idle, [stage |-> "finish"]}
    BY <1>1, <1>7, CallParts DEF CloseReturns, Resumed
  <2> QED BY <1>2, <2>1 DEF Idle
<1> QED BY <1>3, <1>4, <1>5, <1>6, <1>7, CallSteps

LEMMA UnlinksStep ==
  ASSUME TypeInv, NEW c \in Clients, Step(c)
  PROVE  \A d \in Clients : UnlinksAlone(d)'
<1>1. /\ \A d \in Clients : UnlinksAlone(d)
      /\ \A d \in Clients : d # c => api'[d] = api[d]
      /\ api \in [Clients -> Calls]
  BY StepIsLocal DEF SameFor, TypeInv, PFSTypeOK, CallsInv
<1>2. ASSUME NEW f \in Files, PfsDelete(c, f) PROVE \A d \in Clients : UnlinksAlone(d)'
  <2>1. /\ erasing = {} /\ erasing' = {f}
        /\ GoTo(c, DeleteCall("unlink", f, 0, Epoch(f), Alone(f, Int)))
    BY <1>2 DEF PfsDelete, DeleteTest, Unlocked
  <2>2. api'[c].file = f
    BY <1>1, <2>1 DEF GoTo, DeleteCall
  <2>3. \A d \in Clients : ~In(d, "unlink")
    BY <1>1, <2>1 DEF UnlinksAlone
  <2>4. \A d \in Clients : In(d, "unlink")' => d = c
    BY <1>1, <2>3 DEF In
  <2> QED BY <2>1, <2>2, <2>4 DEF UnlinksAlone
<1>3. CASE DeleteUnlinks(c)
  <2>1. /\ In(c, "unlink")
        /\ GoTo(c, DeleteCall("delete", api[c].file, 0, api[c].epoch, api[c].alone))
    BY <1>3 DEF DeleteUnlinks
  <2>2. ~In(c, "unlink")'
    BY <1>1, <2>1 DEF GoTo, DeleteCall, In
  <2>3. \A d \in Clients : ~In(d, "unlink")'
    BY <1>1, <2>1, <2>2 DEF UnlinksAlone, In
  <2> QED BY <2>3 DEF UnlinksAlone
<1>4. CASE UNCHANGED erasing /\ ~\E f \in Files : PfsDelete(c, f)
  <2>1. In(c, "unlink")' => api'[c] = api[c]
    BY <1>4, UnlinkingSteps
  <2>2. \A d \in Clients : In(d, "unlink")' => api'[d] = api[d] /\ In(d, "unlink")
    BY <1>1, <2>1 DEF In
  <2> QED BY <1>1, <1>4, <2>2 DEF UnlinksAlone
<1> QED BY <1>2, <1>3, <1>4, ErasingSteps

-----------------------------------------------------------------------------
(* What a pfs_write asks for.                                               *)

\* While a client is in a pfs_write that has no token yet, it and its handler
\* only read from their queues and walk the table.
LEMMA AskingSteps ==
  ASSUME TypeInv, NEW c \in Clients, Step(c), In(c, "write")'
  PROVE  \/ \E f \in Files, r \in WriteRanges : PfsWrite(c, f, r)
         \/ UNCHANGED api /\ (LibraryRead(c) \/ Serve(c))
<1>1. api \in [Clients -> Calls] /\ api[c] \in Calls
  BY DEF TypeInv, PFSTypeOK
<1>2. ASSUME NEW e, GoTo(c, e), e.stage # "write" PROVE FALSE
  <2>1. api'[c] = e
    BY <1>1, <1>2 DEF GoTo
  <2> QED BY <1>2, <2>1 DEF In
<1>3. CASE \/ PfsInitialize(c) \/ PfsFinish(c) \/ FinishReturns(c) \/ ReadRefused(c)
           \/ WriteBlockFails(c) \/ WriteReturns(c) \/ WriteOrphaned(c)
           \/ DeleteStops(c) \/ DeleteFails(c) \/ Die(c)
  <2>1. \E e \in {Idle, Down, Dead, [stage |-> "finish"]} : GoTo(c, e)
    BY <1>3 DEF PfsInitialize, PfsFinish, FinishReturns, ReadRefused, WriteBlockFails,
       WriteReturns, WriteOrphaned, DeleteStops, DeleteFails, Die, Return
  <2>2. \A e \in {Idle, Down, Dead, [stage |-> "finish"]} : e.stage # "write"
    BY DEF Idle, Down, Dead
  <2> QED BY <1>2, <2>1, <2>2
<1>4. ASSUME NEW f \in Files,
             \/ PfsDelete(c, f) \/ PfsClose(c, f)
             \/ \E offset \in Offsets : PfsRead(c, f, offset)
      PROVE  FALSE
  BY <1>2, <1>4 DEF PfsDelete, PfsClose, PfsRead, DeleteCall
<1>5. CASE LibraryHangUp(c) \/ WriteBlock(c) \/ DeleteUnlinks(c) \/ DeleteFinds(c)
  BY <1>2, <1>5 DEF LibraryHangUp, WriteBlock, DeleteUnlinks, DeleteFinds, DataCall, DeleteCall
<1>6. CASE DeleteRemoves(c)
  BY <1>2, <1>6 DEF DeleteRemoves, DeleteCall, Return, Idle
<1>7. CASE CloseReturns(c)
  <2>1. GoTo(c, api[c].after) /\ api[c].after \in {Idle, [stage |-> "finish"]}
    BY <1>1, <1>7, CallParts DEF CloseReturns, Resumed
  <2> QED BY <1>2, <2>1 DEF Idle
<1>8. CASE UNCHANGED api
  <2>1. In(c, "write")
    BY <1>8 DEF In
  <2>2. ~Start(c)
    BY <2>1 DEF Start, PfsInitialize, PfsInitializeFails, Ping, PfsFinish, PfsCreate, PfsDelete,
       PfsOpen, PfsRead, PfsWrite, In
  <2>3. ~Die(c)
    <3>1. Die(c) => GoTo(c, Dead) /\ Dead.stage # "write"
      BY DEF Die, Dead
    <3> QED BY <1>2, <3>1
  <2>4. Continue(c) => LibraryRead(c) \/ LibraryHangUp(c)
    BY <2>1 DEF Continue, ReadRefused, CloseReturns, WriteBlock, WriteBlockFails, WriteReturns,
       WriteOrphaned, DeleteUnlinks, DeleteFinds, DeleteRemoves, DeleteStops, DeleteFails,
       GiveUpWrite, GiveUpRemove, FinishReturns, Resumed, In
  <2> QED BY <1>5, <1>8, <2>2, <2>3, <2>4 DEF Step
<1> QED BY <1>3, <1>4, <1>5, <1>6, <1>7, <1>8, CallSteps

\* The handler of a pfs_write takes what was asked for into its own variable.
LEMMA ServeAsks ==
  ASSUME TokenInv, TypeInv, NEW c \in Clients, Serve(c), In(c, "write"), UNCHANGED api
  PROVE  AsksForItsBytes(c)'
<1>1. AsksForItsBytes(c) /\ api'[c] = api[c] /\ In(c, "write")
  BY DEF TypeInv, CallsInv
<1>2. /\ pc \in [Clients -> {"read", "split", "release", "await_ack"}]
      /\ request \in [Clients -> Request \union {NoRequest}]
      /\ requests \in [Clients -> Seq(Request)]
  BY DEF TokenInv, TypeOK
<1>3. ASSUME UNCHANGED requests, pc'[c] = "split" => pc[c] = "split" /\ request'[c] = request[c]
      PROVE  AsksForItsBytes(c)'
  BY <1>1, <1>3 DEF AsksForItsBytes, In
<1>4. CASE ReadRequest(c)
  <2>1. /\ requests[c] # <<>> /\ requests'[c] = Tail(requests[c])
        /\ request'[c] = Head(requests[c])
    BY <1>2, <1>4 DEF ReadRequest
  <2>2. requests[c] \in Seq(Request)
    BY <1>2
  <2>3. /\ request'[c] = requests[c][1] /\ 1 \in 1..Len(requests[c])
        /\ \A k \in 1..Len(requests'[c]) : k + 1 \in 1..Len(requests[c])
                                          /\ requests'[c][k] = requests[c][k + 1]
    BY <2>1, <2>2
  <2> QED BY <1>1, <2>3 DEF AsksForItsBytes, In
<1>5. CASE ScanKeep(c) \/ SplitErase(c)
  <2>1. UNCHANGED <<requests, pc, request>>
    BY <1>5 DEF ScanKeep, SplitErase, streamVars
  <2> QED BY <1>3, <2>1
<1>6. CASE GrantMerge(c) \/ GrantNew(c)
  <2>1. requests' = requests /\ pc'[c] # "split"
    BY <1>2, <1>6 DEF GrantMerge, GrantNew, GrantRevoke
  <2> QED BY <1>3, <2>1
<1>7. CASE ReleaseErase(c) \/ ReleaseKeep(c) \/ ReleaseDone(c)
  <2>1. requests' = requests /\ pc'[c] # "split"
    BY <1>2, <1>7 DEF ReleaseErase, ReleaseKeep, ReleaseDone, At, streamVars
  <2> QED BY <1>3, <2>1
<1>8. CASE AwaitAck(c) \/ HandlerReturn(c)
  <2>1. /\ pc' = pc /\ pc[c] # "split"
        /\ requests'[c] = <<>> \/ (requests[c] # <<>> /\ requests'[c] = Tail(requests[c]))
    BY <1>2, <1>8 DEF AwaitAck, HandlerReturn, EndCall, serverVars
  <2>2. requests[c] \in Seq(Request)
    BY <1>2
  <2>3. CASE requests'[c] = <<>>
    BY <1>1, <2>1, <2>3 DEF AsksForItsBytes, In
  <2>4. CASE requests[c] # <<>> /\ requests'[c] = Tail(requests[c])
    <3>1. \A k \in 1..Len(requests'[c]) : k + 1 \in 1..Len(requests[c])
                                          /\ requests'[c][k] = requests[c][k + 1]
      BY <2>2, <2>4
    <3> QED BY <1>1, <2>1, <3>1 DEF AsksForItsBytes, In
  <2> QED BY <2>1, <2>3, <2>4
<1> QED BY <1>4, <1>5, <1>6, <1>7, <1>8 DEF Serve, Handler

LEMMA AsksStep ==
  ASSUME TokenInv, TypeInv, NEW c \in Clients, Step(c)
  PROVE  AsksForItsBytes(c)'
<1>1. CASE ~In(c, "write")'
  BY <1>1 DEF AsksForItsBytes
<1>2. ASSUME NEW f \in Files, NEW r \in WriteRanges, PfsWrite(c, f, r)
      PROVE  AsksForItsBytes(c)'
  <2> DEFINE req == WriteRequest(f, r)
             e == [stage |-> "write", file |-> f, first |-> r.start_byte,
                   last |-> r.end_byte, next |-> r.start_byte]
  <2>1. GoTo(c, e) /\ Running /\ OpenCall(c, req) /\ UNCHANGED serverVars
    BY <1>2 DEF PfsWrite
  <2>2. req.start_byte = r.start_byte /\ req.end_byte = r.end_byte
    BY DEF WriteRequest, RequestFor
  <2>3. e.first = r.start_byte /\ e.last = r.end_byte /\ e.next = r.start_byte
    OBVIOUS
  <2>4. r.start_byte <= r.end_byte
    BY RangesAssumption
  <2> HIDE DEF req, e
  <2>5. pc'[c] = "read" /\ requests'[c] = <<req>>
    BY <2>1, FreshStream
  <2>6. api'[c] = e
    BY <2>1 DEF GoTo, TypeInv, PFSTypeOK
  <2>7. \A k \in 1..Len(requests'[c]) : requests'[c][k] = req
    BY <2>5
  <2>8. /\ api'[c].next = api'[c].first /\ api'[c].first = r.start_byte
        /\ api'[c].last = r.end_byte
    BY <2>3, <2>6
  <2> QED BY <2>2, <2>4, <2>5, <2>7, <2>8 DEF AsksForItsBytes
<1>3. CASE UNCHANGED api /\ In(c, "write")' /\ LibraryRead(c)
  <2>1. LinkFor(c)
    BY DEF TypeInv, PFSInv, Link, AnswerExpected, LinkFor
  <2>2. UNCHANGED <<api, requests, pc, request>>
    BY <1>3, <2>1, ReadLink DEF LibraryRead, ClientRead, serverVars
  <2> QED BY <2>2 DEF AsksForItsBytes, In, TypeInv, CallsInv
<1>4. CASE UNCHANGED api /\ In(c, "write")' /\ Serve(c)
  BY <1>4, ServeAsks DEF In
<1> QED BY <1>1, <1>2, <1>3, <1>4, AskingSteps

-----------------------------------------------------------------------------
(* The theorem.                                                             *)

LEMMA SystemTypeStep ==
  ASSUME TokenInv, TokenInv', PFSInv', TypeInv, NEW c \in Clients, Step(c)
  PROVE  TypeInv'
<1>1. /\ api' = [d \in Clients |-> api'[d]]
      /\ \A d \in Clients : d # c => SameFor(d)
  BY StepIsLocal
<1>2. \A d \in Clients : d # c => api'[d] = api[d]
  BY <1>1 DEF SameFor
<1>3. /\ file_server_addresses' \in [Clients -> Nat]
      /\ file_server_stubs' \in [Clients -> Seq(ServerIds)]
      /\ \A d \in Clients : Connected(d)'
      /\ \A d \in Clients : d # c => file_server_stubs'[d] = file_server_stubs[d]
  BY <1>1, <1>2, ConnectedStep
<1>4. /\ file_metadata_map' \in [Files -> Metadata \union {NoFile}]
      /\ births' \in [Files -> Nat]
      /\ \A f \in Files : InCatalog(f)' => births'[f] > 0
      /\ \A f \in Files : Epoch(f) <= Epoch(f)'
      /\ erasing' \in SUBSET Files
      /\ \A f \in erasing' : InCatalog(f)' /\ erasing' = {f}
  BY CatalogueStep DEF AnyStep
<1>5. \A f \in Files : Epoch(f) \in Nat /\ Epoch(f)' \in Nat
  <2>1. ASSUME NEW f \in Files PROVE Epoch(f) \in Nat
    BY EpochType DEF TypeInv, PFSTypeOK, CallsInv
  <2>2. ASSUME NEW f \in Files PROVE Epoch(f)' \in Nat
    <3>1. births'[f] \in Nat /\ (InCatalog(f)' => births'[f] > 0)
      BY <1>4
    <3> QED BY <3>1 DEF Epoch
  <2> QED BY <2>1, <2>2
<1>6. ASSUME NEW d \in Clients
      PROVE  CallGoal(d) /\ AsksForItsBytes(d)'
  <2>1. CASE d = c
    BY <2>1, CallStep, AsksStep
  <2>2. CASE d # c
    <3>1. /\ api[d] \in Calls /\ LoopInBounds(d) /\ EpochsOf(d) /\ AsksForItsBytes(d)
          /\ SameFor(d) /\ file_server_stubs'[d] = file_server_stubs[d]
      BY <1>1, <1>3, <2>2 DEF TypeInv, PFSTypeOK, CallsInv
    <3>2. api'[d] = api[d]
      BY <3>1 DEF SameFor
    <3>3. LoopInBounds(d)'
      BY <3>1, <3>2 DEF LoopInBounds, In
    <3>4. AsksForItsBytes(d)'
      BY <3>1 DEF AsksForItsBytes, SameFor, In
    <3>5. EpochsOf(d)'
      <4>1. CASE In(d, "data")
        <5>1. api[d].file \in Files /\ api[d].value \in Values
          BY <3>1, <4>1, CallParts
        <5>2. PICK f \in Files : f = api[d].file
          BY <5>1
        <5>3. PICK e \in Nat : e = api[d].value.epoch
          BY <5>1 DEF Values
        <5>4. e <= Epoch(f)
          BY <3>1, <4>1, <5>2, <5>3 DEF EpochsOf
        <5>5. e <= Epoch(f)'
          BY <1>4, <1>5, <5>4
        <5>6. api'[d].file = f /\ api'[d].value.epoch = e /\ ~In(d, "unlink")' /\ ~In(d, "delete")'
                /\ ~In(d, "remove")'
          BY <3>2, <4>1, <5>2, <5>3 DEF In
        <5> QED BY <5>5, <5>6 DEF EpochsOf
      <4>2. CASE In(d, "unlink") \/ In(d, "delete") \/ In(d, "remove")
        <5>1. api[d].file \in Files /\ api[d].epoch \in Nat
          BY <3>1, <4>2, CallParts
        <5>2. PICK f \in Files : f = api[d].file
          BY <5>1
        <5>3. PICK e \in Nat : e = api[d].epoch
          BY <5>1
        <5>4. e < Epoch(f)
          BY <3>1, <4>2, <5>2, <5>3 DEF EpochsOf
        <5>5. e < Epoch(f)'
          BY <1>4, <1>5, <5>4
        <5>6. api'[d].file = f /\ api'[d].epoch = e /\ ~In(d, "data")'
          BY <3>2, <4>2, <5>2, <5>3 DEF In
        <5> QED BY <5>5, <5>6 DEF EpochsOf
      <4>3. CASE ~In(d, "data") /\ ~In(d, "unlink") /\ ~In(d, "delete") /\ ~In(d, "remove")
        BY <3>2, <4>3 DEF EpochsOf, In
      <4> QED BY <4>1, <4>2, <4>3
    <3> QED BY <3>1, <3>2, <3>3, <3>4, <3>5 DEF CallGoal
  <2> QED BY <2>1, <2>2
<1>7. api' \in [Clients -> Calls]
  BY <1>1, <1>6 DEF CallGoal
<1>8. TypeOK'
  BY DEF TokenInv
<1>9. PFSTypeOK'
  BY <1>3, <1>4, <1>6, <1>7, <1>8, StorageTyped, LateTyped, HistoryTyped, DescriptorsTyped
  DEF PFSTypeOK, CallGoal, AnyStep
<1>10. CallsInv'
  BY <1>3, <1>4, <1>6, UnlinksStep DEF CallsInv, CallGoal
<1> QED BY <1>9, <1>10 DEF TypeInv

\* A server that goes on with a call nobody waits for.
LEMMA UnaskedTypeStep ==
  ASSUME TokenInv', PFSInv', TypeInv, Unasked
  PROVE  TypeInv'
<1>1. UNCHANGED <<tokenVars, libraryVars, historyVars>>
  BY UnaskedIsQuiet
<1>2. UNCHANGED <<api, open_files, file_server_addresses, file_server_stubs, births, clean,
                  settled, requests, pc, request>>
  BY <1>1 DEF tokenVars, serverVars, streamVars, libraryVars, historyVars
<1>3. /\ file_metadata_map' \in [Files -> Metadata \union {NoFile}]
      /\ erasing' \in SUBSET Files
      /\ \A f \in Files : InCatalog(f)' => births'[f] > 0
      /\ \A f \in erasing' : InCatalog(f)' /\ erasing' = {f}
      /\ \A f \in Files : Epoch(f) <= Epoch(f)'
  BY CatalogueStep DEF AnyStep
<1>4. /\ storage' \in [ServerIds -> [Files -> Bytewise \union {Missing}]]
      /\ late' \in Seq(LateCalls)
  BY StorageTyped, LateTyped DEF AnyStep
<1>5. \A f \in Files : Epoch(f) \in Nat /\ Epoch(f)' \in Nat
  <2>1. ASSUME NEW f \in Files PROVE Epoch(f) \in Nat
    BY EpochType DEF TypeInv, PFSTypeOK, CallsInv
  <2>2. ASSUME NEW f \in Files PROVE Epoch(f)' \in Nat
    <3>1. births'[f] \in Nat /\ (InCatalog(f)' => births'[f] > 0)
      BY <1>2, <1>3 DEF TypeInv, PFSTypeOK
    <3> QED BY <3>1 DEF Epoch
  <2> QED BY <2>1, <2>2
<1>6. PFSTypeOK'
  <2>1. TypeOK'
    BY DEF TokenInv
  <2>2. \A c \in Clients : LoopInBounds(c)'
    BY <1>2 DEF TypeInv, PFSTypeOK, LoopInBounds, In
  <2> QED BY <1>2, <1>3, <1>4, <2>1, <2>2 DEF TypeInv, PFSTypeOK
<1>7. ASSUME NEW c \in Clients
      PROVE  Connected(c)' /\ AsksForItsBytes(c)' /\ EpochsOf(c)' /\ UnlinksAlone(c)'
  <2>1. Connected(c) /\ AsksForItsBytes(c) /\ EpochsOf(c) /\ UnlinksAlone(c) /\ api[c] \in Calls
    BY DEF TypeInv, PFSTypeOK, CallsInv
  <2>2. Connected(c)'
    BY <1>2, <2>1 DEF Connected, Initialized, Aligned, Listed, In
  <2>3. AsksForItsBytes(c)'
    BY <1>2, <2>1 DEF AsksForItsBytes, In
  <2>4. EpochsOf(c)'
    <3>1. CASE In(c, "data")
      <4>1. api[c].file \in Files /\ api[c].value.epoch \in Nat
        BY <2>1, <3>1, CallParts DEF Values
      <4>2. PICK f \in Files, e \in Nat : f = api[c].file /\ e = api[c].value.epoch
        BY <4>1
      <4>3. e <= Epoch(f)
        BY <2>1, <3>1, <4>2 DEF EpochsOf
      <4>4. e <= Epoch(f)'
        BY <1>3, <1>5, <4>3
      <4>5. api'[c].file = f /\ api'[c].value.epoch = e /\ ~In(c, "unlink")' /\ ~In(c, "delete")'
            /\ ~In(c, "remove")'
        BY <1>2, <3>1, <4>2 DEF In
      <4> QED BY <4>4, <4>5 DEF EpochsOf
    <3>2. CASE In(c, "unlink") \/ In(c, "delete") \/ In(c, "remove")
      <4>1. api[c].file \in Files /\ api[c].epoch \in Nat
        BY <2>1, <3>2, CallParts
      <4>2. PICK f \in Files, e \in Nat : f = api[c].file /\ e = api[c].epoch
        BY <4>1
      <4>3. e < Epoch(f)
        BY <2>1, <3>2, <4>2 DEF EpochsOf
      <4>4. e < Epoch(f)'
        BY <1>3, <1>5, <4>3
      <4>5. api'[c].file = f /\ api'[c].epoch = e /\ ~In(c, "data")'
        BY <1>2, <3>2, <4>2 DEF In
      <4> QED BY <4>4, <4>5 DEF EpochsOf
    <3>3. CASE ~In(c, "data") /\ ~In(c, "unlink") /\ ~In(c, "delete") /\ ~In(c, "remove")
      BY <1>2, <3>3 DEF EpochsOf, In
    <3> QED BY <3>1, <3>2, <3>3
  <2>5. UnlinksAlone(c)'
    <3>1. CASE UnlinkUnasked
      BY <1>2, <3>1 DEF UnlinkUnasked, UnlinksAlone, In
    <3>2. ASSUME NEW k \in 1..Len(late), LateHandler(k) PROVE UNCHANGED erasing
      BY <3>2 DEF LateHandler, LateWrite, LateRemove, LateUpdate, UpdateMetadata
    <3>3. CASE UNCHANGED erasing
      BY <1>2, <2>1, <3>3 DEF UnlinksAlone, In
    <3> QED BY <3>1, <3>2, <3>3 DEF Unasked
  <2> QED BY <2>2, <2>3, <2>4, <2>5
<1>8. CallsInv'
  BY <1>3, <1>7 DEF CallsInv
<1> QED BY <1>6, <1>8 DEF TypeInv

LEMMA SystemTypeStutter ==
  ASSUME TypeInv, PFSInv', UNCHANGED pfsVars
  PROVE  TypeInv'
<1>1. UNCHANGED <<tokenVars, file_metadata_map, erasing, storage, late, open_files,
                  file_server_addresses, file_server_stubs, api, births, clean, settled>>
  BY DEF pfsVars, libraryVars, historyVars
<1>2. PFSTypeOK'
  BY <1>1 DEF TypeInv, PFSTypeOK, TypeOK, tokenVars, serverVars, streamVars, LoopInBounds, In
<1>3. CallsInv'
  BY <1>1 DEF TypeInv, CallsInv, Connected, Initialized, Aligned, Listed, AsksForItsBytes,
     EpochsOf, UnlinksAlone, Epoch, InCatalog, In, tokenVars, serverVars, streamVars
<1> QED BY <1>2, <1>3 DEF TypeInv

LEMMA SystemTypeInit ==
  ASSUME PFSInit, TokenInv, PFSInv
  PROVE  TypeInv
<1>1. PFSTypeOK
  <2>1. TypeOK
    BY DEF TokenInv
  <2>2. /\ file_metadata_map \in [Files -> Metadata \union {NoFile}]
        /\ erasing \in SUBSET Files /\ late \in Seq(LateCalls)
        /\ storage \in [ServerIds -> [Files -> Bytewise \union {Missing}]]
        /\ open_files \in [Clients -> [Files -> [mode : Modes, offset : Int] \union {Closed}]]
        /\ file_server_addresses \in [Clients -> Nat]
        /\ births \in [Files -> Nat]
        /\ clean \in [Files -> BOOLEAN]
    BY DEF PFSInit
  <2>3. file_server_stubs \in [Clients -> Seq(ServerIds)]
    BY DEF PFSInit
  <2>4. api \in [Clients -> Calls]
    BY CallsMade DEF PFSInit
  <2>5. Nothing \in Bytewise
    BY DEF Nothing, Bytewise
  <2>6. settled \in [Files -> Bytewise]
    BY <2>5 DEF PFSInit
  <2>7. \A c \in Clients : LoopInBounds(c)
    BY DEF PFSInit, LoopInBounds, In, Down
  <2> QED BY <2>1, <2>2, <2>3, <2>4, <2>6, <2>7 DEF PFSTypeOK
<1>2. CallsInv
  <2>1. ASSUME NEW c \in Clients
        PROVE  Connected(c) /\ AsksForItsBytes(c) /\ EpochsOf(c) /\ UnlinksAlone(c)
    <3>1. api[c] = Down /\ file_server_addresses[c] = 0
      BY DEF PFSInit
    <3>2. 0 % NumServers = 0
      BY NumServersAssumption
    <3> QED BY <3>1, <3>2 DEF Connected, Initialized, AsksForItsBytes, EpochsOf, UnlinksAlone,
       In, Down
  <2>2. erasing = {} /\ \A f \in Files : ~InCatalog(f)
    BY DEF PFSInit, InCatalog
  <2> QED BY <2>1, <2>2 DEF CallsInv
<1> QED BY <1>1, <1>2 DEF TypeInv

\* Every variable keeps its type; no loop of the library runs past the bytes it
\* was given or past its stubs (pfs_api.cpp:547-580, 699-711), whoever dies and
\* whatever fails; every initialised client reaches all the file servers.
THEOREM TypeInvariant == PFSSpec => []TypeInv
<1>1. PFSInit /\ TokenInv /\ PFSInv => TypeInv
  BY SystemTypeInit
<1>2. TokenInv /\ TokenInv' /\ PFSInv' /\ TypeInv /\ [PFSNext]_pfsVars => TypeInv'
  <2> SUFFICES ASSUME TokenInv, TokenInv', PFSInv', TypeInv, [PFSNext]_pfsVars
               PROVE  TypeInv'
    OBVIOUS
  <2>1. CASE UNCHANGED pfsVars
    BY <2>1, SystemTypeStutter
  <2>2. CASE PFSNext
    <3>1. AnyStep
      BY <2>2 DEF PFSNext, Step, AnyStep
    <3> QED BY <3>1, SystemTypeStep, UnaskedTypeStep DEF AnyStep
  <2> QED BY <2>1, <2>2
<1> QED BY <1>1, <1>2, TokenInvariantInSystem, SystemInvariant, PTL DEF PFSSpec

\* So every run of the system stays within its types and its loops within their
\* bounds, with as many clients, files, blocks and stubs as there are.
THEOREM SystemTyped == PFSSpec => []PFSTypeOK
BY TypeInvariant, PTL DEF TypeInv

=============================================================================
