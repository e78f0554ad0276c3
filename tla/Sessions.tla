-------------------------------- MODULE Sessions --------------------------------
(***************************************************************************)
(* Who is who: the ids the metadata server gives to client processes       *)
(* (Initialize, pfs_metaserver.cpp:30-41) and the descriptors the library  *)
(* gives to the threads of a process (pfs_open and pfs_close, pfs_api.cpp: *)
(* 287-350, 609-668).  Both come from a plain static int: taking a number  *)
(* is a read and a write, and between the two another thread may read.     *)
(*                                                                         *)
(* open_files is only touched under state_mutex, in critical sections that *)
(* are one step each; pfs_open leaves the mutex between its test and its   *)
(* insertion.  Tokens hang on the client id and the file name, not on a    *)
(* descriptor.  The threads write ranges of their own, so that no token    *)
(* request meets a conflict.  A thread uses the descriptor that its own    *)
(* pfs_open returned, one at a time.  A call that is refused has no effect *)
(* and is left out.                                                        *)
(***************************************************************************)
EXTENDS Integers, FiniteSets

CONSTANTS
  Processes,   \* client processes
  Threads,     \* their threads
  ProcessOf,   \* the process of each thread
  Files,       \* file names
  Closed,      \* the entry of a descriptor that is not in open_files
  MaxFd        \* bound on the descriptors of a process

ASSUME ProcessOfAssumption == ProcessOf \in [Threads -> Processes]
ASSUME ClosedAssumption == Closed \notin Files
ASSUME MaxFdAssumption == MaxFd \in Nat

VARIABLES
  client_id_counter,  \* the next client id
  counter_read,       \* per process: what its Initialize read, 0 if not under way
  client_id,          \* per process: client_state.client_id, 0 before
  next_fd,            \* per process: the next descriptor
  open_files,         \* per process and descriptor: the file, or Closed
  tokens,             \* the tokens of the metadata server
  stage,              \* per thread: where its library call is
  fd,                 \* per thread: its descriptor, 0 if it has none
  opened,             \* per thread: the file it opened
  filename,           \* per thread: the file its call works on
  ids_overlapped,     \* two Initialize have been under way at a time (history)
  opens_overlapped    \* per process: two pfs_open have (history)

idVars == <<client_id_counter, counter_read, client_id, ids_overlapped>>
fileVars == <<next_fd, open_files, fd, opened, opens_overlapped>>
sessionVars == <<idVars, fileVars, tokens, stage, filename>>

Fds == 1..MaxFd

At(t, label) == stage[t] = label
GoTo(t, label) == stage' = [stage EXCEPT ![t] = label]

Id(t) == client_id[ProcessOf[t]]
OpenFiles(t) == open_files[ProcessOf[t]]

-----------------------------------------------------------------------------
(* client_id_counter++ in a handler of Initialize.                           *)

\* Mutant: the counter is not advanced.
NotAdvanced(number) == number
Advanced(number) == number + 1

InitializeReads(p) ==
  /\ client_id[p] = 0 /\ counter_read[p] = 0
  /\ counter_read' = [counter_read EXCEPT ![p] = client_id_counter]
  /\ ids_overlapped' = (ids_overlapped \/ \E q \in Processes : counter_read[q] # 0)
  /\ UNCHANGED <<client_id_counter, client_id, fileVars, tokens, stage, filename>>

InitializeReturns(p) ==
  /\ counter_read[p] # 0
  /\ client_id_counter' = Advanced(counter_read[p])
  /\ client_id' = [client_id EXCEPT ![p] = counter_read[p]]
  /\ counter_read' = [counter_read EXCEPT ![p] = 0]
  /\ UNCHANGED <<ids_overlapped, fileVars, tokens, stage, filename>>

-----------------------------------------------------------------------------
(* pfs_open.                                                                 *)

Opening(t) == stage[t] \in {"number", "store", "insert"}

\* Mutant: the loop tests nothing.
NothingOpen(t, f) == TRUE
NotOpen(t, f) == \A n \in Fds : OpenFiles(t)[n] # f

\* state_mutex, the loop over open_files, and FetchMetadata.
OpenTests(t, f) ==
  /\ At(t, "idle") /\ fd[t] = 0 /\ Id(t) # 0
  /\ NotOpen(t, f)
  /\ opened' = [opened EXCEPT ![t] = f]
  /\ opens_overlapped' = [opens_overlapped EXCEPT ![ProcessOf[t]] =
       @ \/ \E u \in Threads : ProcessOf[u] = ProcessOf[t] /\ Opening(u)]
  /\ GoTo(t, "number")
  /\ UNCHANGED <<idVars, next_fd, open_files, fd, tokens, filename>>

\* next_fd++.
NumberReads(t) ==
  /\ At(t, "number")
  /\ next_fd[ProcessOf[t]] <= MaxFd
  /\ fd' = [fd EXCEPT ![t] = next_fd[ProcessOf[t]]]
  /\ GoTo(t, "store")
  /\ UNCHANGED <<idVars, next_fd, open_files, opened, opens_overlapped, tokens, filename>>

\* Mutants: the last descriptor is handed out again; the number advances twice.
StoreSame(n) == n
StoreTwice(n) == n + 2
Stored(n) == n + 1

NumberStored(t) ==
  /\ At(t, "store")
  /\ next_fd' = [next_fd EXCEPT ![ProcessOf[t]] = Stored(fd[t])]
  /\ GoTo(t, "insert")
  /\ UNCHANGED <<idVars, open_files, fd, opened, opens_overlapped, tokens, filename>>

\* state_mutex, open_files[fd] = ...; an entry that is there is overwritten.
OpenInserts(t) ==
  /\ At(t, "insert")
  /\ open_files' = [open_files EXCEPT ![ProcessOf[t]][fd[t]] = opened[t]]
  /\ GoTo(t, "idle")
  /\ UNCHANGED <<idVars, next_fd, fd, opened, opens_overlapped, tokens, filename>>

-----------------------------------------------------------------------------
(* pfs_write and pfs_close.                                                  *)

\* state_mutex, and the file name behind the descriptor.
LooksUp(t, label) ==
  /\ At(t, "idle") /\ fd[t] # 0
  /\ OpenFiles(t)[fd[t]] # Closed
  /\ filename' = [filename EXCEPT ![t] = OpenFiles(t)[fd[t]]]
  /\ GoTo(t, label)
  /\ UNCHANGED <<idVars, fileVars, tokens>>

WriteTests(t) == LooksUp(t, "token")

Token(t) == [client_id |-> Id(t), filename |-> filename[t], range |-> t]

\* StreamToken grants the range of t.
WriteGranted(t) ==
  /\ At(t, "token")
  /\ tokens' = tokens \union {Token(t)}
  /\ GoTo(t, "data")
  /\ UNCHANGED <<idVars, fileVars, filename>>

\* The data is on the file servers.
WriteReturns(t) ==
  /\ At(t, "data")
  /\ filename' = [filename EXCEPT ![t] = Closed]
  /\ GoTo(t, "idle")
  /\ UNCHANGED <<idVars, fileVars, tokens>>

CloseTests(t) == LooksUp(t, "release")

\* Mutant: release_tokens takes the tokens of the file, whoever owns them.
ReleaseOfFile(id, f) == {token \in tokens : token.filename = f}
Released(id, f) == {token \in tokens : token.client_id = id /\ token.filename = f}

\* StreamToken with CLOSE: release_tokens.
CloseReleases(t) ==
  /\ At(t, "release")
  /\ tokens' = tokens \ Released(Id(t), filename[t])
  /\ GoTo(t, "erase")
  /\ UNCHANGED <<idVars, fileVars, filename>>

CloseErases(t) ==
  /\ At(t, "erase")
  /\ open_files' = [open_files EXCEPT ![ProcessOf[t]][fd[t]] = Closed]
  /\ fd' = [fd EXCEPT ![t] = 0]
  /\ opened' = [opened EXCEPT ![t] = Closed]
  /\ filename' = [filename EXCEPT ![t] = Closed]
  /\ GoTo(t, "idle")
  /\ UNCHANGED <<idVars, next_fd, opens_overlapped, tokens>>

\* "Invalid file descriptor": somebody else has closed it.
CloseInvalid(t) ==
  /\ At(t, "idle") /\ fd[t] # 0
  /\ OpenFiles(t)[fd[t]] = Closed
  /\ fd' = [fd EXCEPT ![t] = 0]
  /\ opened' = [opened EXCEPT ![t] = Closed]
  /\ UNCHANGED <<idVars, next_fd, open_files, opens_overlapped, tokens, stage, filename>>

-----------------------------------------------------------------------------
SessionsInit ==
  /\ client_id_counter = 1
  /\ counter_read = [p \in Processes |-> 0]
  /\ client_id = [p \in Processes |-> 0]
  /\ next_fd = [p \in Processes |-> 1]
  /\ open_files = [p \in Processes |-> [n \in Fds |-> Closed]]
  /\ tokens = {}
  /\ stage = [t \in Threads |-> "idle"]
  /\ fd = [t \in Threads |-> 0]
  /\ opened = [t \in Threads |-> Closed]
  /\ filename = [t \in Threads |-> Closed]
  /\ ids_overlapped = FALSE
  /\ opens_overlapped = [p \in Processes |-> FALSE]

Call(t) ==
  \/ \E f \in Files : OpenTests(t, f)
  \/ NumberReads(t) \/ NumberStored(t) \/ OpenInserts(t)
  \/ WriteTests(t) \/ WriteGranted(t) \/ WriteReturns(t)
  \/ CloseTests(t) \/ CloseReleases(t) \/ CloseErases(t) \/ CloseInvalid(t)

SessionsNext ==
  \/ \E p \in Processes : InitializeReads(p) \/ InitializeReturns(p)
  \/ \E t \in Threads : Call(t)

SessionsSpec == SessionsInit /\ [][SessionsNext]_sessionVars

-----------------------------------------------------------------------------
(* Properties.                                                               *)

Stages == {"idle", "number", "store", "insert", "token", "data", "release", "erase"}

SessionsTypeOK ==
  /\ client_id_counter \in Nat \ {0}
  /\ counter_read \in [Processes -> Nat]
  /\ client_id \in [Processes -> Nat]
  /\ next_fd \in [Processes -> 1..MaxFd + 1]
  /\ open_files \in [Processes -> [Fds -> Files \union {Closed}]]
  /\ tokens \subseteq [client_id : Nat, filename : Files, range : Threads]
  /\ stage \in [Threads -> Stages]
  /\ fd \in [Threads -> 0..MaxFd]
  /\ opened \in [Threads -> Files \union {Closed}]
  /\ filename \in [Threads -> Files \union {Closed}]
  /\ ids_overlapped \in BOOLEAN
  /\ opens_overlapped \in [Processes -> BOOLEAN]

\* t has been returned its descriptor.
HasOpen(t) == fd[t] # 0 /\ ~Opening(t)

\* As long as no two pfs_open of a process run at the same time, a descriptor
\* leads to the file its thread opened, until that thread closes it, and no
\* file has two descriptors (pfs_api.cpp:302-345).
DescriptorsRight ==
  \A t \in Threads : HasOpen(t) /\ ~opens_overlapped[ProcessOf[t]] =>
    /\ OpenFiles(t)[fd[t]] = opened[t]
    /\ \A n \in Fds : OpenFiles(t)[n] = opened[t] => n = fd[t]

\* Nobody takes the token of a thread that is writing, whatever other threads
\* and processes open and close, if the numbers they go by were not taken at
\* the same time (pfs_metaserver.cpp:36, 162-168; pfs_api.cpp:312-345).
WriterOwnsToken ==
  \A t \in Threads :
    At(t, "data") /\ ~ids_overlapped /\ ~opens_overlapped[ProcessOf[t]] =>
      Token(t) \in tokens

\* No token is left behind by a process that has closed all its files
\* (pfs_metaserver.cpp:162-168; pfs_api.cpp:609-668).
ClosedOwnsNothing ==
  \A p \in Processes :
    /\ client_id[p] # 0 /\ ~ids_overlapped /\ ~opens_overlapped[p]
    /\ \A t \in Threads : ProcessOf[t] = p => fd[t] = 0
    => \A token \in tokens : token.client_id # client_id[p]

\* "Unique client ID assigned by Metadata Server" (pfs_api.hpp:91).  It fails
\* when two Initialize run at the same time.
UniqueIds ==
  \A p, q \in Processes : p # q /\ client_id[p] # 0 => client_id[p] # client_id[q]

-----------------------------------------------------------------------------
(* The inductive invariant behind the safety properties.                    *)

\* What a call has when it is under way.
StageInv ==
  \A t \in Threads :
    /\ At(t, "number") => fd[t] = 0
    /\ stage[t] \notin {"idle", "number"} => fd[t] # 0
    /\ fd[t] # 0 \/ Opening(t) => opened[t] # Closed /\ Id(t) # 0
    /\ stage[t] \in {"token", "data", "release", "erase"} <=> filename[t] # Closed

\* The numbers of one Initialize after the other.
IdInv ==
  /\ \A p \in Processes : counter_read[p] # 0 => client_id[p] = 0
  /\ ~ids_overlapped =>
       /\ UniqueIds
       /\ \A p \in Processes : client_id[p] < client_id_counter
       /\ \A token \in tokens : token.client_id < client_id_counter
       /\ \A p, q \in Processes : counter_read[p] # 0 =>
            /\ counter_read[p] = client_id_counter
            /\ counter_read[q] # 0 => p = q

\* No two pfs_open of the process of t have run at the same time.
OneAtATime(t) == ~opens_overlapped[ProcessOf[t]]

\* A thread that opens a file is alone in that, and so far the file is not
\* open; a call works on the file its thread has opened.
OpenInvOf(t) ==
  /\ HasOpen(t) => fd[t] < next_fd[ProcessOf[t]]
  /\ At(t, "store") => fd[t] = next_fd[ProcessOf[t]]
  /\ At(t, "insert") => fd[t] < next_fd[ProcessOf[t]]
  /\ Opening(t) => NotOpen(t, opened[t])
  /\ filename[t] # Closed => filename[t] = opened[t]
  /\ \A u \in Threads : u # t /\ ProcessOf[u] = ProcessOf[t] =>
       /\ ~(Opening(t) /\ Opening(u))
       /\ fd[t] # 0 => fd[u] # fd[t]

OpenInv == \A t \in Threads : OneAtATime(t) => OpenInvOf(t)

\* t has the file of the token open and has not yet released it.
Keeps(t, token) ==
  HasOpen(t) /\ opened[t] = token.filename /\ ~At(t, "erase")

\* Every token of a process belongs to a file one of its threads keeps open.
TokensKept ==
  ~ids_overlapped => \A p \in Processes, token \in tokens :
    client_id[p] # 0 /\ token.client_id = client_id[p] /\ ~opens_overlapped[p] =>
      \E t \in Threads : ProcessOf[t] = p /\ Keeps(t, token)

SessionsInv ==
  /\ SessionsTypeOK /\ StageInv /\ IdInv /\ OpenInv
  /\ DescriptorsRight /\ WriterOwnsToken /\ TokensKept

=============================================================================
