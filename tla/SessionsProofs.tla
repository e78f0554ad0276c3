---------------------------- MODULE SessionsProofs ----------------------------
(***************************************************************************)
(* Theorems about the ids, the descriptors and the tokens of processes     *)
(* with several threads (Sessions), for any number of processes, threads,  *)
(* files and descriptors.                                                  *)
(***************************************************************************)
EXTENDS Sessions, TLAPS

LEMMA InitInv == SessionsInit => SessionsInv
<1> SUFFICES ASSUME SessionsInit PROVE SessionsInv
  OBVIOUS
<1> USE DEF SessionsInit
<1>1. SessionsTypeOK
  <2>1. next_fd \in [Processes -> 1..MaxFd + 1] /\ fd \in [Threads -> 0..MaxFd]
    BY MaxFdAssumption
  <2>2. open_files \in [Processes -> [Fds -> Files \union {Closed}]]
    OBVIOUS
  <2>3. ids_overlapped \in BOOLEAN /\ opens_overlapped \in [Processes -> BOOLEAN]
    OBVIOUS
  <2>4. tokens \subseteq [client_id : Nat, filename : Files, range : Threads]
    OBVIOUS
  <2>5. client_id_counter \in Nat \ {0} /\ stage \in [Threads -> Stages]
    BY DEF Stages
  <2> QED BY <2>1, <2>2, <2>3, <2>4, <2>5 DEF SessionsTypeOK
<1>2. StageInv /\ IdInv /\ OpenInv
  BY ProcessOfAssumption DEF StageInv, IdInv, OpenInv, OpenInvOf, UniqueIds, At, Opening, HasOpen, NotOpen, OneAtATime
<1>3. DescriptorsRight /\ WriterOwnsToken /\ TokensKept
  BY DEF DescriptorsRight, WriterOwnsToken, TokensKept, HasOpen, At
<1> QED BY <1>1, <1>2, <1>3 DEF SessionsInv

LEMMA TypePreserved ==
  ASSUME SessionsTypeOK, StageInv, [SessionsNext]_sessionVars
  PROVE  SessionsTypeOK'
<1> USE ProcessOfAssumption, MaxFdAssumption DEF SessionsTypeOK, Stages, Fds, At, GoTo
<1>1. CASE UNCHANGED sessionVars
  BY <1>1 DEF sessionVars, idVars, fileVars
<1>2. ASSUME NEW p \in Processes, InitializeReads(p) PROVE SessionsTypeOK'
  BY <1>2 DEF InitializeReads, fileVars
<1>4. ASSUME NEW p \in Processes, InitializeReturns(p) PROVE SessionsTypeOK'
  BY <1>4 DEF InitializeReturns, fileVars, Advanced
<1>3. ASSUME NEW t \in Threads, Call(t) PROVE SessionsTypeOK'
  <2>1. ASSUME NEW f \in Files, OpenTests(t, f) PROVE SessionsTypeOK'
    BY <2>1 DEF OpenTests, idVars
  <2>2. CASE NumberReads(t)
    BY <2>2 DEF NumberReads, idVars
  <2>3. CASE NumberStored(t)
    BY <2>3 DEF NumberStored, idVars, StageInv, Stored
  <2>4. CASE OpenInserts(t)
    BY <2>4 DEF OpenInserts, idVars
  <2>5. ASSUME NEW label \in {"token", "release"}, LooksUp(t, label) PROVE SessionsTypeOK'
    <3>1. OpenFiles(t)[fd[t]] \in Files \union {Closed}
      BY <2>5 DEF LooksUp, OpenFiles
    <3> QED BY <2>5, <3>1 DEF LooksUp, idVars, fileVars
  <2>6. CASE WriteGranted(t)
    BY <2>6 DEF WriteGranted, idVars, fileVars, Token, Id, StageInv
  <2>7. CASE WriteReturns(t)
    BY <2>7 DEF WriteReturns, idVars, fileVars
  <2>8. CASE CloseReleases(t)
    BY <2>8 DEF CloseReleases, idVars, fileVars
  <2>9. CASE CloseErases(t)
    <3>1. open_files' \in [Processes -> [Fds -> Files \union {Closed}]]
      BY <2>9 DEF CloseErases
    <3>2. /\ fd' \in [Threads -> 0..MaxFd]
          /\ opened' \in [Threads -> Files \union {Closed}]
          /\ filename' \in [Threads -> Files \union {Closed}]
          /\ stage' \in [Threads -> Stages]
      BY <2>9 DEF CloseErases
    <3> QED BY <2>9, <3>1, <3>2 DEF CloseErases, idVars
  <2>10. CASE CloseInvalid(t)
    BY <2>10 DEF CloseInvalid, idVars
  <2> QED BY <1>3, <2>1, <2>2, <2>3, <2>4, <2>5, <2>6, <2>7, <2>8, <2>9, <2>10
          DEF Call, WriteTests, CloseTests
<1> QED BY <1>1, <1>2, <1>3, <1>4 DEF SessionsNext

-----------------------------------------------------------------------------
(* Who takes a step, and what it leaves alone.                              *)

\* A library call moves one thread and gives out no client id.
LEMMA CallIsLocal ==
  ASSUME SessionsTypeOK, NEW t \in Threads, Call(t)
  PROVE  /\ UNCHANGED idVars
         /\ \A u \in Threads : u # t =>
              /\ stage'[u] = stage[u] /\ fd'[u] = fd[u]
              /\ opened'[u] = opened[u] /\ filename'[u] = filename[u]
         /\ \A p \in Processes : p # ProcessOf[t] =>
              /\ next_fd'[p] = next_fd[p] /\ open_files'[p] = open_files[p]
              /\ opens_overlapped'[p] = opens_overlapped[p]
         /\ opens_overlapped[ProcessOf[t]] => opens_overlapped'[ProcessOf[t]]
<1> USE ProcessOfAssumption DEF SessionsTypeOK, At, GoTo
<1>1. ASSUME NEW f \in Files, OpenTests(t, f)
      PROVE  /\ UNCHANGED <<idVars, next_fd, open_files, fd, filename>>
             /\ \A u \in Threads : u # t => stage'[u] = stage[u] /\ opened'[u] = opened[u]
             /\ \A p \in Processes : p # ProcessOf[t] => opens_overlapped'[p] = opens_overlapped[p]
             /\ opens_overlapped[ProcessOf[t]] => opens_overlapped'[ProcessOf[t]]
  BY <1>1 DEF OpenTests
<1>2. CASE NumberReads(t) \/ NumberStored(t) \/ OpenInserts(t)
  BY <1>2 DEF NumberReads, NumberStored, OpenInserts
<1>3. CASE WriteTests(t) \/ CloseTests(t)
  BY <1>3 DEF WriteTests, CloseTests, LooksUp, fileVars
<1>4. CASE WriteGranted(t) \/ WriteReturns(t) \/ CloseReleases(t)
  BY <1>4 DEF WriteGranted, WriteReturns, CloseReleases, fileVars
<1>5. CASE CloseErases(t) \/ CloseInvalid(t)
  BY <1>5 DEF CloseErases, CloseInvalid
<1> QED BY <1>1, <1>2, <1>3, <1>4, <1>5 DEF Call

\* An Initialize moves one process, and no thread.
LEMMA InitializeIsLocal ==
  ASSUME SessionsTypeOK, NEW p \in Processes, InitializeReads(p) \/ InitializeReturns(p)
  PROVE  /\ UNCHANGED <<fileVars, tokens, stage, filename>>
         /\ \A q \in Processes : q # p =>
              client_id'[q] = client_id[q] /\ counter_read'[q] = counter_read[q]
         /\ client_id'[p] = client_id[p] \/ client_id'[p] # 0
BY DEF InitializeReads, InitializeReturns, SessionsTypeOK

LEMMA StagePreserved ==
  ASSUME SessionsTypeOK, StageInv, [SessionsNext]_sessionVars
  PROVE  StageInv'
<1> USE ProcessOfAssumption, ClosedAssumption DEF At, Opening, Id
<1>1. CASE UNCHANGED sessionVars
  BY <1>1 DEF StageInv, sessionVars, idVars, fileVars
<1>2. ASSUME NEW p \in Processes, InitializeReads(p) \/ InitializeReturns(p)
      PROVE  StageInv'
  <2>1. \A q \in Processes : client_id[q] # 0 => client_id'[q] # 0
    BY <1>2, InitializeIsLocal
  <2> QED BY <1>2, <2>1, InitializeIsLocal DEF StageInv, fileVars, SessionsTypeOK
<1>3. ASSUME NEW t \in Threads, Call(t) PROVE StageInv'
  <2> DEFINE Good(u) ==
        /\ stage[u] = "number" => fd[u] = 0
        /\ stage[u] \notin {"idle", "number"} => fd[u] # 0
        /\ fd[u] # 0 \/ Opening(u) => opened[u] # Closed /\ Id(u) # 0
        /\ stage[u] \in {"token", "data", "release", "erase"} <=> filename[u] # Closed
  <2>1. Good(t) /\ client_id' = client_id
    BY <1>3, CallIsLocal DEF StageInv, idVars
  <2>2. ASSUME NEW u \in Threads, u # t PROVE Good(u)'
    BY <1>3, <2>1, <2>2, CallIsLocal DEF StageInv
  <2>3. Good(t)'
    <3> USE <2>1 DEF SessionsTypeOK, GoTo
    <3>1. ASSUME NEW f \in Files, OpenTests(t, f) PROVE Good(t)'
      BY <3>1 DEF OpenTests
    <3>2. CASE NumberReads(t)
      BY <3>2 DEF NumberReads
    <3>3. CASE NumberStored(t) \/ OpenInserts(t)
      BY <3>3 DEF NumberStored, OpenInserts
    <3>4. CASE WriteTests(t) \/ CloseTests(t)
      BY <3>4 DEF WriteTests, CloseTests, LooksUp, fileVars
    <3>5. CASE WriteGranted(t) \/ WriteReturns(t) \/ CloseReleases(t)
      BY <3>5 DEF WriteGranted, WriteReturns, CloseReleases, fileVars
    <3>6. CASE CloseErases(t) \/ CloseInvalid(t)
      BY <3>6 DEF CloseErases, CloseInvalid
    <3> QED BY <1>3, <3>1, <3>2, <3>3, <3>4, <3>5, <3>6 DEF Call
  <2> QED BY <2>2, <2>3 DEF StageInv
<1> QED BY <1>1, <1>2, <1>3 DEF SessionsNext

-----------------------------------------------------------------------------
(* The ids.                                                                 *)

\* Whatever a library call does to the tokens, all of them are of clients that
\* have an id, and only its own thread gets one.
LEMMA CallTokens ==
  ASSUME NEW t \in Threads, Call(t), NEW token \in tokens'
  PROVE  token \in tokens \/ (token = Token(t) /\ At(t, "token"))
BY DEF Call, OpenTests, NumberReads, NumberStored, OpenInserts, WriteTests, CloseTests,
   LooksUp, WriteGranted, WriteReturns, CloseReleases, CloseErases, CloseInvalid, fileVars

LEMMA IdPreserved ==
  ASSUME SessionsTypeOK, StageInv, IdInv, [SessionsNext]_sessionVars
  PROVE  IdInv'
<1>1. CASE UNCHANGED sessionVars
  BY <1>1 DEF IdInv, UniqueIds, sessionVars, idVars
<1>2. ASSUME NEW p \in Processes, InitializeReads(p) PROVE IdInv'
  <2>1. /\ \A q \in Processes : q # p => counter_read'[q] = counter_read[q]
        /\ counter_read'[p] = client_id_counter /\ client_id[p] = 0
        /\ UNCHANGED <<client_id_counter, client_id, tokens>>
        /\ ids_overlapped' \/ ~ids_overlapped
    BY <1>2 DEF InitializeReads, SessionsTypeOK
  <2>2. ~ids_overlapped' => \A q \in Processes : counter_read[q] = 0
    BY <1>2 DEF InitializeReads
  <2> QED BY <2>1, <2>2 DEF IdInv, UniqueIds
<1>3. ASSUME NEW p \in Processes, InitializeReturns(p) PROVE IdInv'
  <2>1. /\ \A q \in Processes : q # p => counter_read'[q] = counter_read[q]
                                         /\ client_id'[q] = client_id[q]
        /\ counter_read'[p] = 0 /\ client_id'[p] = counter_read[p] /\ counter_read[p] # 0
        /\ client_id_counter' = counter_read[p] + 1
        /\ UNCHANGED <<ids_overlapped, tokens>>
    BY <1>3 DEF InitializeReturns, SessionsTypeOK, Advanced
  <2>2. client_id_counter \in Nat /\ counter_read \in [Processes -> Nat]
        /\ client_id \in [Processes -> Nat] /\ \A token \in tokens : token.client_id \in Nat
    BY DEF SessionsTypeOK
  <2>3. CASE ids_overlapped
    BY <2>1, <2>3 DEF IdInv
  <2>4. CASE ~ids_overlapped
    <3>1. counter_read[p] = client_id_counter
          /\ \A q \in Processes : q # p => counter_read[q] = 0
      BY <2>1, <2>4 DEF IdInv
    <3>2. UniqueIds'
      BY <2>1, <2>2, <2>4, <3>1 DEF IdInv, UniqueIds
    <3>3. /\ \A q \in Processes : client_id'[q] < client_id_counter'
          /\ \A token \in tokens : token.client_id < client_id_counter'
      BY <2>1, <2>2, <2>4, <3>1 DEF IdInv
    <3> QED BY <2>1, <3>1, <3>2, <3>3 DEF IdInv
  <2> QED BY <2>3, <2>4
<1>4. ASSUME NEW t \in Threads, Call(t) PROVE IdInv'
  <2>1. UNCHANGED idVars
    BY <1>4, CallIsLocal
  <2>2. ASSUME NEW token \in tokens', ~ids_overlapped
        PROVE  token.client_id < client_id_counter
    BY <1>4, <2>2, CallTokens, ProcessOfAssumption DEF IdInv, Token, Id, SessionsTypeOK
  <2> QED BY <2>1, <2>2 DEF IdInv, UniqueIds, idVars
<1> QED BY <1>1, <1>2, <1>3, <1>4 DEF SessionsNext

-----------------------------------------------------------------------------
(* The descriptors.                                                         *)

\* What is said of a thread in whose process pfs_open never overlapped.
RightOf(t) ==
  HasOpen(t) =>
    /\ OpenFiles(t)[fd[t]] = opened[t]
    /\ \A n \in Fds : OpenFiles(t)[n] = opened[t] => n = fd[t]

AllRight == OpenInv /\ DescriptorsRight

\* A thread is right by what it and its process have.
LEMMA RightElsewhere ==
  ASSUME SessionsTypeOK, NEW u \in Threads, OpenInvOf(u), RightOf(u),
         UNCHANGED <<stage[u], fd[u], opened[u], filename[u],
                     next_fd[ProcessOf[u]], open_files[ProcessOf[u]]>>,
         \A v \in Threads : ProcessOf[v] = ProcessOf[u] =>
           UNCHANGED <<stage[v], fd[v]>>
  PROVE  OpenInvOf(u)' /\ RightOf(u)'
BY DEF OpenInvOf, RightOf, HasOpen, Opening, NotOpen, OpenFiles, At

LEMMA OpenPreserved ==
  ASSUME SessionsTypeOK, StageInv, AllRight, [SessionsNext]_sessionVars
  PROVE  AllRight'
<1>0. SUFFICES ASSUME NEW u \in Threads, OneAtATime(u)' PROVE OpenInvOf(u)' /\ RightOf(u)'
  BY DEF AllRight, OpenInv, DescriptorsRight, RightOf, OneAtATime
<1>1. ASSUME NEW v \in Threads, OneAtATime(v) PROVE OpenInvOf(v) /\ RightOf(v)
  BY <1>1 DEF AllRight, OpenInv, DescriptorsRight, RightOf, OneAtATime
<1>2. CASE UNCHANGED <<fileVars, stage, filename>>
  <2>1. OneAtATime(u)
    BY <1>0, <1>2 DEF OneAtATime, fileVars
  <2> QED BY <1>1, <1>2, <2>1, RightElsewhere DEF fileVars
<1>3. ASSUME NEW t \in Threads, Call(t), ProcessOf[t] # ProcessOf[u]
      PROVE  OpenInvOf(u)' /\ RightOf(u)'
  <2>1. OneAtATime(u)
    BY <1>0, <1>3, CallIsLocal, ProcessOfAssumption DEF OneAtATime
  <2> QED BY <1>1, <1>3, <2>1, CallIsLocal, ProcessOfAssumption, RightElsewhere
<1>4. ASSUME NEW t \in Threads, Call(t), ProcessOf[t] = ProcessOf[u]
      PROVE  OpenInvOf(u)' /\ RightOf(u)'
  <2> DEFINE p == ProcessOf[t]
  <2>1. p \in Processes /\ ~opens_overlapped[p]
    BY <1>0, <1>4, CallIsLocal, ProcessOfAssumption DEF OneAtATime
  <2>2. \A v \in Threads : ProcessOf[v] = p => OpenInvOf(v) /\ RightOf(v)
    BY <1>1, <2>1 DEF OneAtATime
  <2>3. /\ fd \in [Threads -> 0..MaxFd] /\ next_fd \in [Processes -> 1..MaxFd + 1]
        /\ opened \in [Threads -> Files \union {Closed}]
        /\ open_files \in [Processes -> [Fds -> Files \union {Closed}]]
        /\ stage \in [Threads -> Stages] /\ filename \in [Threads -> Files \union {Closed}]
        /\ MaxFd \in Nat
    BY MaxFdAssumption DEF SessionsTypeOK
  <2> USE <1>4, <2>1, <2>2, <2>3 DEF OpenInvOf, RightOf, HasOpen, Opening, NotOpen, OpenFiles,
          At, GoTo
  <2>4. ASSUME NEW f \in Files, OpenTests(t, f) PROVE OpenInvOf(u)' /\ RightOf(u)'
    <3>1. ~opens_overlapped'[p]
      BY <1>0 DEF OneAtATime
    <3>2. \A v \in Threads : ProcessOf[v] = p => ~Opening(v)
      BY <2>4, <3>1 DEF OpenTests, SessionsTypeOK
    <3>3. /\ UNCHANGED <<next_fd, open_files, fd, filename>>
          /\ opened' = [opened EXCEPT ![t] = f] /\ stage' = [stage EXCEPT ![t] = "number"]
          /\ stage[t] = "idle" /\ fd[t] = 0 /\ \A n \in Fds : open_files[p][n] # f
      BY <2>4 DEF OpenTests
    <3>4. CASE u = t
      <4>1. filename'[t] # Closed => filename'[t] = opened'[t]
        BY <2>4, <3>3 DEF StageInv, OpenTests
      <4> QED BY <3>2, <3>3, <3>4, <4>1
    <3>5. CASE u # t
      BY <3>2, <3>3, <3>5
    <3> QED BY <3>4, <3>5
  <2>5. CASE NumberReads(t)
    BY <2>5 DEF NumberReads
  <2>6. CASE NumberStored(t)
    BY <2>6 DEF NumberStored, Stored, StageInv
  <2>7. CASE OpenInserts(t)
    <3>1. /\ UNCHANGED <<next_fd, fd, opened, filename>>
          /\ open_files'[p] = [open_files[p] EXCEPT ![fd[t]] = opened[t]]
          /\ stage' = [stage EXCEPT ![t] = "idle"] /\ stage[t] = "insert"
      BY <2>7 DEF OpenInserts
    <3>4. fd[t] \in Fds
      BY <2>7 DEF OpenInserts, StageInv, Fds
    <3>2. CASE u = t
      BY <3>1, <3>2, <3>4
    <3>3. CASE u # t
      <4>1. ~Opening(u) /\ (fd[u] # 0 => fd[u] # fd[t] /\ fd[u] \in Fds)
        BY <3>1, <3>3, <3>4 DEF Fds
      <4>2. fd[u] # 0 => opened[u] # opened[t]
        BY <3>1, <4>1
      <4>3. ~Opening(u)' /\ ~Opening(t)' /\ stage'[u] = stage[u]
        BY <3>1, <3>3, <4>1
      <4>4. RightOf(u)'
        BY <3>1, <3>4, <4>1, <4>2, <4>3
      <4>5. OpenInvOf(u)'
        BY <3>1, <3>3, <4>1, <4>3
      <4> QED BY <4>4, <4>5
    <3> QED BY <3>2, <3>3
  <2>8. ASSUME NEW label \in {"token", "release"}, LooksUp(t, label)
        PROVE  OpenInvOf(u)' /\ RightOf(u)'
    BY <2>8 DEF LooksUp, fileVars
  <2>9. CASE WriteGranted(t) \/ WriteReturns(t) \/ CloseReleases(t)
    BY <2>9 DEF WriteGranted, WriteReturns, CloseReleases, fileVars
  <2>10. CASE CloseErases(t)
    BY <2>10 DEF CloseErases, StageInv
  <2>11. CASE CloseInvalid(t)
    BY <2>11 DEF CloseInvalid, StageInv
  <2> QED BY <1>4, <2>4, <2>5, <2>6, <2>7, <2>8, <2>9, <2>10, <2>11
          DEF Call, WriteTests, CloseTests
<1>5. ASSUME NEW p \in Processes, InitializeReads(p) \/ InitializeReturns(p)
      PROVE  UNCHANGED <<fileVars, stage, filename>>
  BY <1>5, InitializeIsLocal
<1> QED BY <1>2, <1>3, <1>4, <1>5 DEF SessionsNext, sessionVars

-----------------------------------------------------------------------------
(* The tokens.                                                              *)

\* Two threads of a process do not release each other's tokens, and two
\* processes do not.
LEMMA ReleasesItsOwn ==
  ASSUME SessionsTypeOK, StageInv, IdInv, AllRight, ~ids_overlapped,
         NEW t \in Threads, CloseReleases(t), NEW u \in Threads, u # t,
         OneAtATime(u), HasOpen(u), opened[u] # Closed,
         NEW token \in tokens, token.client_id = Id(u), token.filename = opened[u]
  PROVE  token \in tokens'
<1>1. fd[t] # 0 /\ HasOpen(t) /\ filename[t] # Closed
  BY DEF CloseReleases, StageInv, At, HasOpen, Opening
<1>2. CASE ProcessOf[t] # ProcessOf[u]
  <2>1. Id(t) # Id(u)
    BY <1>1, <1>2, ProcessOfAssumption DEF IdInv, UniqueIds, StageInv, Id
  <2> QED BY <2>1 DEF CloseReleases, Released
<1>3. CASE ProcessOf[t] = ProcessOf[u]
  <2>1. OneAtATime(t)
    BY <1>3 DEF OneAtATime
  <2>2. filename[t] = opened[t] /\ fd[t] # fd[u]
    BY <1>1, <1>3, <2>1 DEF AllRight, OpenInv, OpenInvOf, CloseReleases, At
  <2>3. opened[t] # opened[u]
    <3>1. fd[t] \in Fds /\ fd[u] \in Fds
      BY <1>1, MaxFdAssumption DEF HasOpen, SessionsTypeOK, Fds
    <3>2. RightOf(t) /\ RightOf(u)
      BY <2>1 DEF AllRight, DescriptorsRight, RightOf, OneAtATime
    <3> QED BY <1>1, <1>3, <2>2, <3>1, <3>2 DEF RightOf, OpenFiles
  <2> QED BY <2>2, <2>3 DEF CloseReleases, Released
<1> QED BY <1>2, <1>3

LEMMA OwnPreserved ==
  ASSUME SessionsInv, [SessionsNext]_sessionVars
  PROVE  WriterOwnsToken'
<1>0. SUFFICES ASSUME NEW u \in Threads, At(u, "data")', ~ids_overlapped', OneAtATime(u)'
               PROVE  (Token(u) \in tokens)'
  BY DEF WriterOwnsToken, OneAtATime
<1> USE ProcessOfAssumption DEF SessionsInv
<1>1. CASE UNCHANGED sessionVars
  BY <1>0, <1>1 DEF WriterOwnsToken, OneAtATime, At, Token, Id, sessionVars, idVars, fileVars
<1>2. ASSUME NEW p \in Processes, InitializeReads(p) \/ InitializeReturns(p)
      PROVE  (Token(u) \in tokens)'
  <2>0. ~ids_overlapped
    BY <1>0, <1>2 DEF InitializeReads, InitializeReturns
  <2>1. At(u, "data") /\ OneAtATime(u) /\ ~ids_overlapped
    BY <1>0, <1>2, <2>0, InitializeIsLocal DEF At, OneAtATime, fileVars
  <2>2. Id(u) # 0
    BY <2>1 DEF StageInv, At
  <2>3. Id(u)' = Id(u)
    BY <1>2, <2>2, InitializeIsLocal DEF Id, IdInv, InitializeReads, InitializeReturns
  <2> QED BY <1>2, <2>1, <2>3, InitializeIsLocal DEF WriterOwnsToken, OneAtATime, Token
<1>3. ASSUME NEW t \in Threads, Call(t) PROVE (Token(u) \in tokens)'
  <2>1. ~ids_overlapped /\ OneAtATime(u) /\ client_id' = client_id
    BY <1>0, <1>3, CallIsLocal DEF idVars, OneAtATime
  <2>2. CASE u = t
    <3>1. WriteGranted(t)
      BY <1>0, <1>3, <2>2 DEF Call, OpenTests, NumberReads, NumberStored, OpenInserts,
         WriteTests, CloseTests, LooksUp, WriteReturns, CloseReleases, CloseErases,
         CloseInvalid, At, GoTo, SessionsTypeOK
    <3> QED BY <2>1, <2>2, <3>1 DEF WriteGranted, Token, Id
  <2>3. CASE u # t
    <3>1. At(u, "data") /\ filename'[u] = filename[u]
      BY <1>0, <1>3, <2>3, CallIsLocal DEF At
    <3>2. Token(u) \in tokens /\ Token(u)' = Token(u)
      BY <2>1, <3>1 DEF WriterOwnsToken, OneAtATime, Token, Id
    <3>3. CASE CloseReleases(t)
      <4>1. HasOpen(u) /\ filename[u] = opened[u] /\ opened[u] # Closed
        BY <2>1, <3>1 DEF StageInv, At, HasOpen, Opening, OpenInv, OpenInvOf
      <4> QED BY <2>1, <2>3, <3>2, <3>3, <4>1, ReleasesItsOwn DEF AllRight, Token
    <3>4. CASE ~CloseReleases(t)
      BY <1>3, <3>2, <3>4 DEF Call, OpenTests, NumberReads, NumberStored, OpenInserts,
         WriteTests, CloseTests, LooksUp, WriteGranted, WriteReturns, CloseErases,
         CloseInvalid, fileVars
    <3> QED BY <3>3, <3>4
  <2> QED BY <2>2, <2>3
<1> QED BY <1>1, <1>2, <1>3 DEF SessionsNext

\* A thread that keeps a file goes on keeping it until it releases its tokens.
LEMMA KeepsUntilRelease ==
  ASSUME SessionsTypeOK, StageInv, AllRight, NEW t \in Threads, Call(t),
         OneAtATime(t), NEW token \in tokens, Keeps(t, token), Id(t) = token.client_id,
         token \in tokens'
  PROVE  Keeps(t, token)'
<1> USE ProcessOfAssumption DEF Keeps, HasOpen, Opening, At, GoTo
<1>1. OpenInvOf(t) /\ RightOf(t)
  BY DEF AllRight, OpenInv, DescriptorsRight, RightOf, OneAtATime
<1>2. CASE \E f \in Files : OpenTests(t, f)
  BY <1>2 DEF OpenTests
<1>3. CASE NumberReads(t) \/ NumberStored(t) \/ OpenInserts(t)
  BY <1>3 DEF NumberReads, NumberStored, OpenInserts
<1>4. CASE WriteTests(t) \/ CloseTests(t)
  BY <1>4 DEF WriteTests, CloseTests, LooksUp, fileVars, SessionsTypeOK
<1>5. CASE WriteGranted(t) \/ WriteReturns(t)
  BY <1>5 DEF WriteGranted, WriteReturns, fileVars, SessionsTypeOK
<1>6. CASE CloseReleases(t)
  <2>1. filename[t] = opened[t]
    BY <1>1, <1>6 DEF CloseReleases, StageInv, OpenInvOf
  <2>2. token \in Released(Id(t), filename[t])
    BY <2>1 DEF Released
  <2> QED BY <1>6, <2>2 DEF CloseReleases
<1>7. CASE CloseErases(t)
  BY <1>7 DEF CloseErases
<1>8. CASE CloseInvalid(t)
  BY <1>1, <1>8 DEF CloseInvalid, RightOf, StageInv
<1> QED BY <1>2, <1>3, <1>4, <1>5, <1>6, <1>7, <1>8 DEF Call

LEMMA KeptPreserved ==
  ASSUME SessionsInv, [SessionsNext]_sessionVars
  PROVE  TokensKept'
<1>0. SUFFICES ASSUME NEW p \in Processes, NEW token \in tokens', ~ids_overlapped',
                      client_id'[p] # 0, token.client_id = client_id'[p],
                      ~opens_overlapped'[p]
               PROVE  \E t \in Threads : ProcessOf[t] = p /\ Keeps(t, token)'
  BY DEF TokensKept, Keeps, HasOpen, Opening, At
<1> USE ProcessOfAssumption DEF SessionsInv
<1>1. CASE UNCHANGED sessionVars
  BY <1>0, <1>1 DEF TokensKept, Keeps, HasOpen, Opening, At, sessionVars, idVars, fileVars
<1>2. ASSUME NEW q \in Processes, InitializeReads(q) \/ InitializeReturns(q)
      PROVE  \E t \in Threads : ProcessOf[t] = p /\ Keeps(t, token)'
  <2>1. ~ids_overlapped
    BY <1>0, <1>2 DEF InitializeReads, InitializeReturns
  <2>2. token \in tokens /\ token.client_id < client_id_counter /\ ~opens_overlapped[p]
    BY <1>0, <1>2, <2>1, InitializeIsLocal DEF IdInv, fileVars
  <2>3. client_id'[p] = client_id[p]
    <3>1. CASE InitializeReturns(q) /\ q = p
      <4>1. client_id'[p] = client_id_counter
        BY <2>1, <3>1 DEF InitializeReturns, IdInv, SessionsTypeOK
      <4> QED BY <1>0, <2>2, <4>1 DEF SessionsTypeOK
    <3>2. CASE InitializeReads(q)
      BY <3>2 DEF InitializeReads
    <3> QED BY <1>2, <3>1, <3>2, InitializeIsLocal
  <2>4. PICK t \in Threads : ProcessOf[t] = p /\ Keeps(t, token)
    BY <1>0, <2>1, <2>2, <2>3 DEF TokensKept
  <2> QED BY <1>2, <2>4, InitializeIsLocal DEF Keeps, HasOpen, Opening, At, fileVars
<1>3. ASSUME NEW t \in Threads, Call(t)
      PROVE  \E u \in Threads : ProcessOf[u] = p /\ Keeps(u, token)'
  <2>1. ~ids_overlapped /\ ~opens_overlapped[p] /\ client_id' = client_id
    BY <1>0, <1>3, CallIsLocal DEF idVars
  <2>2. CASE token \in tokens
    <3>1. PICK u \in Threads : ProcessOf[u] = p /\ Keeps(u, token)
      BY <1>0, <2>1, <2>2 DEF TokensKept
    <3>2. CASE u = t
      <4>1. OneAtATime(t) /\ Id(t) = token.client_id
        BY <1>0, <2>1, <3>1, <3>2 DEF OneAtATime, Id
      <4> QED BY <1>0, <1>3, <2>2, <3>1, <3>2, <4>1, KeepsUntilRelease DEF AllRight
    <3>3. CASE u # t
      BY <1>3, <3>1, <3>3, CallIsLocal DEF Keeps, HasOpen, Opening, At
    <3> QED BY <3>2, <3>3
  <2>3. CASE token \notin tokens
    <3>1. token = Token(t) /\ At(t, "token")
      BY <1>0, <1>3, <2>3, CallTokens
    <3>2. ProcessOf[t] = p
      BY <1>0, <2>1, <3>1 DEF Token, Id, IdInv, UniqueIds
    <3>3. opened[t] = token.filename /\ fd[t] # 0
      BY <2>1, <3>1, <3>2 DEF Token, StageInv, OpenInv, OpenInvOf, OneAtATime, At
    <3>4. WriteGranted(t)
      BY <1>3, <3>1 DEF Call, OpenTests, NumberReads, NumberStored, OpenInserts,
         WriteTests, CloseTests, LooksUp, WriteReturns, CloseReleases, CloseErases,
         CloseInvalid, At
    <3> QED BY <3>2, <3>3, <3>4
            DEF WriteGranted, Keeps, HasOpen, Opening, At, GoTo, fileVars, SessionsTypeOK
  <2> QED BY <2>2, <2>3
<1> QED BY <1>1, <1>2, <1>3 DEF SessionsNext

-----------------------------------------------------------------------------
(* Theorems.                                                                *)

\* What holds of the processes, their threads, the numbers they are given and
\* their tokens together (pfs_metaserver.cpp:30-41, 162-168; pfs_api.cpp:293-350,
\* 479-519, 610-671).
THEOREM SessionsInvariant == SessionsSpec => []SessionsInv
<1>1. SessionsInv /\ [SessionsNext]_sessionVars => SessionsInv'
  <2> SUFFICES ASSUME SessionsInv, [SessionsNext]_sessionVars PROVE SessionsInv'
    OBVIOUS
  <2>1. SessionsTypeOK' /\ StageInv' /\ IdInv'
    BY TypePreserved, StagePreserved, IdPreserved DEF SessionsInv
  <2>2. OpenInv' /\ DescriptorsRight'
    BY OpenPreserved DEF SessionsInv, AllRight
  <2>3. WriterOwnsToken' /\ TokensKept'
    BY OwnPreserved, KeptPreserved
  <2> QED BY <2>1, <2>2, <2>3 DEF SessionsInv
<1> QED BY InitInv, <1>1, PTL DEF SessionsSpec

\* The ids, the descriptors and the tokens have their types at every access to
\* a counter and in every critical section.
THEOREM SessionsTyped == SessionsSpec => []SessionsTypeOK
<1>1. SessionsInv => SessionsTypeOK
  BY DEF SessionsInv
<1> QED BY <1>1, SessionsInvariant, PTL

\* Where no two pfs_open of a process overlap (pfs_api.cpp:302-345), a descriptor
\* leads to the file its thread opened, and no file has two.
THEOREM DescriptorsLead == SessionsSpec => []DescriptorsRight
<1>1. SessionsInv => DescriptorsRight
  BY DEF SessionsInv
<1> QED BY <1>1, SessionsInvariant, PTL

\* Nobody takes the token of a thread that writes, unless two Initialize
\* (pfs_metaserver.cpp:36) or two pfs_open of its process have overlapped.
THEOREM WritersOwn == SessionsSpec => []WriterOwnsToken
<1>1. SessionsInv => WriterOwnsToken
  BY DEF SessionsInv
<1> QED BY <1>1, SessionsInvariant, PTL

\* A process that has closed all its files has left no token behind: release_tokens
\* finds all of them under its id (pfs_metaserver.cpp:162-168).
THEOREM ClosedOwns == SessionsSpec => []ClosedOwnsNothing
<1>1. SessionsInv => ClosedOwnsNothing
  BY DEF SessionsInv, TokensKept, Keeps, HasOpen, ClosedOwnsNothing
<1> QED BY <1>1, SessionsInvariant, PTL

=============================================================================
