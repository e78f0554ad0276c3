# A verification of the parallel file system

TLA+ modules, model-checking configurations and machine-checked proofs for the
parallel file system in `src/`: a metadata server that hands out byte-range tokens,
file servers that store the stripes, and a client library that talks to both over
gRPC. Paths below are relative to `src/`; "metaserver" is
`pfs_metaserver/pfs_metaserver.cpp`, "API" is `pfs_client/pfs_api.cpp`, "fileserver"
is `pfs_fileserver/pfs_fileserver.cpp`.

## 1. Inventory

| Component | State | Operations | What makes it correct |
|---|---|---|---|
| Token service (metaserver 117-298) | `token_table`: per file a `vector<Token>`; `token_table_mutex`; locals of one handler thread per stream; the messages on the streams | `StreamToken` with `split_tokens`, `consolidate_token_ranges`, `grant_tokens`, `revoke_tokens_and_wait_for_ack`, `release_tokens` | tokens of a file exclude each other; a grant is exclusive; a CLOSE leaves nothing; loops end; calls are answered |
| File catalogue (metaserver 55-115, 170-199, 302-330) | `file_metadata_map` under `metadata_mutex` | `CreateFile`, `FetchMetadata`, `UpdateMetadata`, `DeleteFile` | the size only grows; a deletion's test lets no writer through |
| Client ids (metaserver 30-41, 332-345) | a static counter | `Initialize`, `ClientShutdown` (does nothing) | ids differ |
| File server (fileserver) | one local file per name in `./pfs_storage`; `file_mutex`; the stream of each handler | `WriteFile`, `ReadFile`, `StreamData` (under the mutex), `DeleteFile` (without) | each call has one effect or fails without one; the mutex comes back |
| Client library (API) | `open_files`, `client_id`, the lists of servers and stubs | `pfs_initialize`, `pfs_finish`, `pfs_create`, `pfs_open`, `pfs_read`, `pfs_write`, `pfs_close`, `pfs_delete`, `pfs_fstat`, `pfs_execstat` | keeps the token protocol; what it reports as written stays; what it reports as deleted is gone; calls return |
| Block cache (`pfs_client/pfs_cache.cpp`) | `lru_list`, `cache_map` | `initialize`, `hasBlock`, `addBlock`, `evictBlock`, `invalidateBlock` | never more than `cache_size` blocks; list and map agree |
| Ping, token logger, start-up, host names, empty API files | none | | |
| Example programs (`client-1/`) | | one library call at a time | the environment of the system |

**Interactions.** A library call is a sequence of RPCs. `pfs_write` opens a
`StreamToken` stream with one WRITE request, reads until GRANT, half-closes, waits for
`Finish`, then sends one `WriteFile` per 512-byte block, round robin over the stubs, and
ends with `UpdateMetadata`. `pfs_close` (and `pfs_finish` for every open file) sends
CLOSE on a stream of its own. `pfs_delete` calls the metadata server's `DeleteFile`,
which refuses while the file has tokens, and then the `DeleteFile` of every file server.
At the metadata server each stream is a handler thread; the threads share the table
under `token_table_mutex` and answer after they have dropped it.

**What is hard.** The vector that is erased from and pushed to while it is walked,
through a reference to an erased element; the answers that are written after the unlock;
the wait for acknowledgements that cannot end; tokens that outlive their client; the
window between the grant and the last `WriteFile`, between the test of the tokens and the
removal of the entry, between the metadata and the physical files of a deletion, and between
deletion and re-creation of a name; half-done writes and deletions; handlers that go on with
a call after its client has been told of an error or has died; a server list that doubles, and holds too little when an initialisation fails;
a local file that loses its name while it is read or written; numbers taken from shared
counters without a lock. `PROJECT.json` lists these hazards line by line,
each with the properties that watch it or the reason why none does yet.

## 2. Modules

| Module | Models | Correspondence |
|---|---|---|
| `TokenServer` | the token service and the streams | One action per turn of a loop over the vector: `ReadRequest` (read and lock), `ScanKeep`/`SplitErase` (`split_tokens`), `GrantMerge`/`GrantNew` (`consolidate_token_ranges`, unlock, GRANT, REVOKEs), `ReleaseErase`/`ReleaseKeep`/`ReleaseDone`, `AwaitAck`, `HandlerReturn`. A generic client (`Client`) opens a call, reads, acknowledges, hangs up or dies. |
| `Catalog` | the catalogue | `CreateFile` and `UpdateMetadata`, each one critical section; `DeleteFile` in two steps, `DeleteTest` (to the unlock of `token_table_mutex`, metaserver 322) and `DeleteErase`, with `metadata_mutex` held throughout (`erasing`) |
| `LockService` | abstract: what the token service promises | Sets of tokens instead of vectors, no handlers or streams: ask, grant, contest, give back. `TokenServer` implements it (`Service`, `ImplementsLockService`). |
| `BlockStore` | the file servers' local files, as the library sees them | `WriteFile` in one step, `Stored` and `RemoveFile` (the two steps of the unlocked `DeleteFile`) |
| `FileStore` | abstract: what one file server promises | EXTENDS `BlockStore`: each call has its effect in one step between call and answer, or fails for a reason |
| `FileServer` | a file server | One action per system call of `WriteFile`/`handle_write` and `ReadFile`/`handle_read` under `file_mutex`, of `DeleteFile` without it; `Receive`/`Send` for the call or the turn of `StreamData`. Implements `FileStore` (`Store`, `ImplementsFileStore`). |
| `PFS` | the system: library, token service, catalogue, file servers | One action per RPC; two for a `DeleteFile`, of the metadata server or of a file server; `late` holds the calls whose handlers run on without a client (`LateHandler`, `UnlinkUnasked`); composes `TokenServer`, `Catalog` and `BlockStore` by EXTENDS |
| `Sessions` | client ids, and the threads of a process in the library | `InitializeReads`/`InitializeReturns` (`client_id_counter++`), `OpenTests`, `NumberReads`/`NumberStored` (`next_fd++`), `OpenInserts`, `WriteTests` to `WriteReturns`, `CloseTests` to `CloseErases`: one action per critical section, RPC or access to a counter |
| `ClientCache` | the block cache | One action per method |
| `MCTokenServer`, `MCPFS`, `MCFileServer`, `MCSessions` | small instances | ranges, calls, byte sets and symmetry for TLC |
| `TokenServerProofs`, `LockServiceProofs` | | proofs about `TokenServer`: its safety, and that it implements `LockService` |
| `PFSProofs`, `PFSTypeProofs`, `DataProofs` | | proofs about `PFS`: the protocol and deletions; types and loop bounds; exclusion, durability and erasure |
| `FileServerProofs`, `SessionsProofs`, `CacheProofs` | | proofs about `FileServer` (with its refinement of `FileStore`), `Sessions` and `ClientCache` |

Points of the translation that a reader should know:

- **The dangling reference.** In `split_tokens` (metaserver 222-235) `existing` refers to
  a slot of the vector and is used after `tokens.erase(it)`. By the memory libstdc++
  leaves behind, the slot then holds the element that moved into it or, when the last
  element was erased, that element's own bytes until a `push_back` reuses the slot
  (`Slot`, `EraseAndSplit`). If a `push_back` reallocates the vector, reference and
  iterator dangle and anything may follow: `SplitErase` then goes on from any index
  (`health = "wild"`) or the process dies (`"crashed"`). `capacity` is there to know when.
  An erased last element is taken to keep its name. A name of 16 characters or more lies in a
  buffer of its own, which the erasing frees; the remainder's name is then garbage. Names in
  the modules are those that fit in the string itself, as the programs in `client-1` use.
- **Deletion in two steps.** `DeleteFile` of the metadata server tests the tokens under
  `token_table_mutex`, drops that mutex, and erases the entry under `metadata_mutex`, which
  `StreamToken` never takes. `PfsDelete` is the test, `DeleteUnlinks` the removal and the
  answer (`UnlinkUnasked` if the client has died in between). A token can be granted in
  between, to a client that has the file open: a first client opens the file and asks for its
  token, a second one's deletion finds none, the first is granted its token and reads the
  GRANT, and the entry goes (`PfsWrite`, `PfsDelete`, `GrantNew`, `LibraryRead`,
  `DeleteUnlinks`). So no property can say that files do not go under writers, only that the
  test lets none through (`NoWriterAtDeleteTest`). What is written under such a token
  counts for the epoch after the deletion, as does what is written to a new file of the name.
- **Handlers that run on.** When a call fails at its client, or the client dies, the server's
  handler need not have begun: it may wait for `file_mutex` (fileserver 74), or stand between
  `exists` and `remove` (282, 290). `WriteBlockFails`, `DeleteFails` and `Die` put such a call
  into `late`, or drop it if it never reached its server; `LateHandler` carries the calls of
  `late` out at any later time, in any order. An effect at once is the case that
  `LateHandler` comes next. A handler of `CreateFile` that runs on after its client has died
  is not told apart from a client that dies after the call, nor is one that tests the tokens.
  That a call to the metadata server fails at a client that lives on is not modelled.
- **A request's type.** Everything but READ and CLOSE is treated as WRITE (line 126), an
  ACK that arrives after the wait included.
- **Streams.** Two queues per client and the half-close; gRPC delivers in order.
  `Finish` returns when the handler has returned. A message that a dead client had
  under way may be lost.
- **Data.** A byte holds the writer, the epoch of the file at the grant (the number of
  creations and deletions so far, a deletion counted from its test on), and whether no handler
  of a failed write to the same bytes was running then (`alone`): enough to tell what is lost,
  old or misplaced, and what is promised. Of the metadata the size is kept.
- **History variables** in `PFS` (`births`, `clean`, `settled`, and the `epoch` and `alone` of a
  deletion) are read by properties only, apart from the bound `MaxBirths` and the labels of
  written values.
- `pfs_finish` clears `open_files` after its loop; the model closes each file at the end of
  its turn. Nobody looks in between, as a client makes one call at a time.
- A call that is refused without an effect, and `pfs_fstat`, are left out.
- **The list of servers.** `file_server_addresses` grows by the whole list at every
  `pfs_initialize` and is never cleared; each address that answers a Ping gives a stub,
  and the first that does not ends the call with -1 and leaves what there is (`Ping`,
  `PfsInitializeFails`). After a failed and a repeated initialisation the stubs are no
  longer in the order of the list, and blocks go where nobody else looks for them; what
  such a client writes is not counted as settled (`Aligned`), and `Durable` says that it
  takes nothing from the others.
- **Two views of a file server.** `FileServer` has the system calls: a stream that does not
  open is taken for a file that is not there and truncated; the resizing stream appends one
  zero (app ignores the seek); `good()` is asked before `close()` writes the buffer; a file
  removed while open lives on without a name. `FileStore` is the contract these add up to,
  and `PFS` uses it: `WriteFile` in one step (`WriteBlock`), a write that fails without an
  effect because its file is being removed (`WriteBlockFails`), or, with `MayFail`, for any
  reason, with its effect now, later or never; a late write may also leave nothing but the
  file it has created (`LateWrite`). Faults of the disk that `FileStore` lets pass in silence
  (`Falters`, `WriteErases`) are not in `PFS`: they refute `Durable` on their own. Files have
  sizes in `FileServer`; `FileStore` drops them, as a byte beyond the end reads as nothing.
- **Counters.** `client_id_counter++` and `next_fd++` on a plain static int are a read and a
  write, with anything in between; that is what the compiled code can do. In `Sessions` a
  token is named by the thread that asked for it, and the threads write disjoint ranges:
  conflicts are the business of the other modules.
- When the metadata server has died (`"crashed"`, only after a dangling iterator) `PFS`
  makes no further call to it and says nothing about the library's error returns.

## 3. Runs

| Run | Instance | Shows |
|---|---|---|
| `tokens_readers` | 2 clients, READ of [0,0] [2,4] [0,3], WRITE of [0,0] [0,3] [3,3] | the safety of the token service and its inductive invariants (`TokenInv`, `ServiceInv`), with merging and with the reallocation; that the loop of `split_tokens` ends; that it implements `LockService` |
| `pfs_writers` | 2 clients, 2 servers, blocks of 2 bytes, ranges [0,0] [1,2] (the second straddles two blocks), a file that is created twice | exclusion of writers, durability, deletion and its test, protocol, the inductive invariants `PFSInv` and `DataInv` |
| `pfs_faults` | 2 clients, 1 server, range [0,0], a file that is created twice; calls to the file server may fail, and one handler may run on | durability and `DataInv` when writes and removals come late, after the file was written by others, deleted, or created again |
| `pfs_deaths` | 2 clients, 2 servers, blocks of 1 byte, ranges [0,0] [0,1], a file that is created once; one client may die, and one handler may run on | exclusion, durability, the test of a deletion and `DataInv` with a token that outlives its client; library calls return |
| `pfs_again` | ranges [0,0] [1,1], blocks of 1 byte, both open modes; every program may initialise twice, and initialisation may fail at any server | the doubled and the disordered server list |
| `file_server` | 3 handlers, one file of 2 bytes, a disk that may fail: writes that create, grow, fit and span, a read, deletions | the contract of the file server and its inductive invariant; that the mutex comes back |
| `sessions` | 2 processes, one of them with 2 threads, 2 files, up to 3 descriptors each | ids, descriptors, the tokens that hang on them, and the inductive invariant |
| `client_cache` | 4 keys, cache of 2, list up to 6 | the cache |
| `revoke_wait_hangs`, `writers_overlap`, `deletion_erases_new`, `ids_collide` | 2 or 3 clients or processes | one finding each (section 5) |

**Bounds.** Two clients give every pairwise race; the third, in `writers_overlap`, is
what it takes to be granted bytes of a client whose token was taken away by the second
(what holds of the token service for any number of clients is proved, section 4). The ranges make requests disjoint, nested, equal and adjacent; more
bytes add no case to comparisons of end points. `tokens_readers` reaches every
branch of the split: a WRITE of [3,3] meets [0,3] and [2,4] and
leaves remainders on both sides, and the vector, which has room for two, grows under the
iterator. In `pfs_writers` and `pfs_deaths` one of the ranges
covers two blocks, which two servers store; blocks of two bytes add writes that begin or end
inside a block. `Offsets` is where programs read: at 0 in `pfs_deaths`, which is enough
since every read is refused, and nowhere in the other runs. `MaxBirths = 2` lets a deletion,
and a handler that runs on, meet the next incarnation of the name (`pfs_writers`,
`pfs_faults`, `deletion_erases_new`). `MaxLate = 1` is one handler that runs on
at a time, which may do so across any number of other calls; that several do no more harm is
what the proofs add, where `MaxLate` is any number. `MaxStubs` is twice the number of servers where a program
initialises twice. A file of two bytes lets a write begin at, before and behind the end;
the three roles in `MCFileServer` put two writers beside a reader or a deletion, and two
deletions beside a reader or a writer. Three descriptors let each thread open, close and
open again while the other does; processes and files beyond two only repeat pairs.
Symmetry is over clients, files and the two threads of one process, which nothing tells
apart. No other counter needs a bound: a hung handler stops its client.
`CHECK_DEADLOCK FALSE` stands where the system really stops: handlers that wait for
acknowledgements for ever, dead clients, and programs with nothing left to do within
`MaxBirths`.

**Fairness.** Weak fairness of every handler: it is a thread that runs when it can.
Strong fairness of `ReadRequest`: it needs the mutex, which others take and drop over and
over; the mutex is held for one pass over a vector and the lock wakes its waiters. Weak
fairness of a client's call under way (`Continue`): a library call does nothing but its
RPCs. Weak fairness of the second half of a deletion whose client has died
(`UnlinkUnasked`), which is a handler's step like others. In `FileServer` weak fairness of each
step of a handler, and none of taking the mutex: that it comes back does not depend on who waits for it. Nobody is assumed to start a call,
to die, or to fail.

**Refinement.** `ImplementsLockService` maps the vector of a file to the set of its tokens,
a handler in `split_tokens` to a client that asks, one in `release_tokens` to a client that
closes. Every step of the loops is a stutter, one grant, one conflict or one token given
back; that the vector is walked and changed element by element, and that answers go out
later over streams that break, is invisible. After a conflict the contract is weak, because
the code is: a WRITE grant is exclusive at that moment, and no more. `ImplementsFileStore`
maps a call to its one effect: a write happens at its `Write` step, unless its file loses its
name first, when it counts as done just before the deletion (`Overtaken`), as does a read
that has the file open. `KeepsTokenProtocol` is the refinement of `TokenServer` by `PFS`.

**"Unless overlapped".** `DescriptorsRight`, `WriterOwnsToken` and `ClosedOwnsNothing` are
stated for processes in which no two `pfs_open` have run at the same time, and the last two
for servers on which no two `Initialize` have. Either overlap breaks them at once (finding 4
is the shortest case); without it they hold however threads and processes interleave,
`pfs_close` of one thread with `pfs_open` of another included.

**"Until contested".** The service promises little after a conflict: the handler that met
one never returns (finding 1), its client is stuck, and tokens have been taken from
holders that are not told (finding 2). The safety properties that would fail for this
reason are stated for files on which no handler has met a conflict (`Contested`).
They hold on such a file whatever conflicts, and dangling iterators, there are on others.
`NoWriterAtDeleteTest`, `DeletedIsGone` and `WriteGrantExclusive` hold with conflicts.
The first two say nothing of a server whose iterator has dangled (`Sound`): `split_tokens` may
then leave nothing of any writer's token, and the file be deleted under it; what such a writer
sends after the deletion has passed its server is of the deleted epoch. Nor does
`SplitLoopAdvances`: an iterator that dangles may go on from anywhere.

**What a failed call takes with it.** A handler that runs on can write at any time, so a
client that writes while one is still running has no promise: a `WriteFile` fails at its
client while the handler still waits for `file_mutex`, the client closes the file, another is
granted the same bytes and writes them with success, and the first handler overwrites them
(`WriteBlockFails`, `PfsClose`, `WriteReturns` of the other, `LateWrite`). `Durable` promises
the bytes of every call that began when no handler of a failed `WriteFile` to these bytes was
running, and says that they are safe from every handler that is left behind later: a client
whose `WriteFile` has failed keeps its token until it closes, so nobody else is granted the
bytes before. A dead client never closes, so that what its handlers write falls on nobody's
data. Late removals are covered by `clean`: a file created while one is under way has no
promise. `DeletedIsGone` promises that nothing older is left if no such handler was running
at the deletion's test, and `api` remembers that for a deletion under way (`alone`).

## 4. Proofs

Every invariant and every action property that a passing run checks, and the three
refinements, are theorems, for all values of the constants; the temporal properties are
model-checked only (end of this section). `PROJECT.json` lists the theorems with the
properties they state.

| Module | Theorems | Inductive invariant |
|---|---|---|
| `TokenServerProofs` | `TypeOK`, `RangesNonEmpty`, `PassedTokensAgree`, `ExclusiveUntilContested`, `ClosedHoldsNothing`, `WriteGrantExclusive`, `SplitLoopAdvances` | `TokenInv` |
| `LockServiceProofs` | `ImplementsLockService` | `ServiceInv`, on top of `TokenInv` |
| `PFSProofs` | `KeepsTokenProtocol`, `AnswerExpected`, `NoWriterAtDeleteTest` | `PFSInv`, on top of `TokenInv` |
| `PFSTypeProofs` | `PFSTypeOK` | `TypeInv` (the types with `PFSInv` and `CallsInv`) |
| `DataProofs` | `WritersExcludeUntilContested`, `Durable`, `DeletedIsGone` | `DataInv`, on top of `TypeInv` |
| `FileServerProofs` | `FSTypeOK`, `OrphansAreLast`, `ImplementsFileStore` | `FSInv` |
| `SessionsProofs` | `SessionsTypeOK`, `DescriptorsRight`, `WriterOwnsToken`, `ClosedOwnsNothing` | `SessionsInv` |
| `CacheProofs` | `Evictable`, `ExactUntilReadded` | the two together |

**Assumptions.** Those the modules declare: requests name ranges with start <= end; there is
a server, a block has a byte, a cache has room for a block, the bytes of a file have no gaps
and in `PFS` are those that requests name; and the marks (`NoClient`, `NoRequest`, `NoFile`,
`Missing`, `Shut`, ...) are none of the things they stand beside. Nothing is assumed of the
number of clients, handlers, threads or files, of the ranges, the failures, or the bounds
`MaxBirths`, `MaxLate`, `MaxStubs`, `MaxFd` and `MaxList`.

**The token service.** `ExclusiveUntilContested` alone is not inductive. `HandlerInv` says who
holds the mutex, so that one handler at a time walks a vector. `RangeInv` (no empty range
anywhere, messages included) makes a remainder different from nothing and overlap
symmetric. `PassedTokensAgree` is the loop invariant of `split_tokens`: at the end of the
loop nothing conflicts with the request (`SplitOverAgrees`), so that pushing it, or
merging it (`HullCompatible`), keeps the table exclusive. An iterator that has dangled
passes over anything, but only in the handler of a request that met a conflict
(`NeverDangled`): the files of all others stay exclusive. `StreamInv` bounds what is in
transit, `ReleasedPrefix` is the loop invariant of `release_tokens`, and both, with
`NoNewOwner` (no other handler makes a client an owner), give `ClosedHoldsNothing`. What
the dangling reference reads is covered by `EraseAndSplitFacts`: a remainder, right or
spurious, is a piece of some token of the vector. `SplitLoopAdvances` is why the loop ends: a
remainder lies beside the request (`SplitAhead`), so that nothing a turn pushes is taken away
again, and the last token to take away comes one place nearer.

**The lock service.** A vector is mapped to the set of its tokens, so a token that is in it
twice would be given back once too often. `ServiceInv` says that this does not happen before
a conflict, and why: `consolidate_token_ranges` widens the first token that it can (241-253),
so no token reaches over one that comes before it (`NoneTwice`). With that each step of a
loop is a stutter or one step of `LockService`, shown step by step (`ReadRequestRefines`,
`SplitEraseRefines`, `GrantMergeRefines`, ...). It takes a conflict to break the service
(`BrokenByConflict`), and `LockService` allows it from then on.

**Protocol and deletions in the system.** Each step of the library or a server is a
`TokenServer` step or leaves its variables alone (`LibraryKeepsProtocol`), so everything
above holds in the system (`TokenInvariantInSystem`). `AnswerExpected` and
`NoWriterAtDeleteTest` both say something of a library call from what its stream and the token
table hold, so `Link` ties the three together: which stages have a call open on the
stream, that a call has one request, and that the handler it leaves behind is idle or waits
for acknowledgements on the file being written. A deletion's test passes when the vector is empty.
That a writer's token is still there cannot be shown one writer at a time: a conflicting
request erases tokens, and the remainder may be lost to the dangling reference.
`WritersGuarded` says what replaces it: while a split is under way it holds the mutex, which
the test takes too; afterwards its handler waits for acknowledgements for ever, and the last
such handler's client owns the token it was granted, by `WriteGrantExclusive`; and as long
as no handler waits on the file, nobody's token was taken. A step moves one client and leaves
the others as they were (`LibraryIsLocal`, `HandlerIsLocal`, `StepIsLocal`), so each part is
shown for the client that moves.

**Types in the system.** `PFSTypeOK` includes that the block loop of `pfs_write` never runs past
its bytes and that of `pfs_delete` never past its stubs. The server of a block is an element
of the list of stubs, and the index into it a remainder by its length: `CallsInv` has to say
that an initialised client has stubs, and in fact one for every server (`Connected`), that
what is asked for is what is written (`AsksForItsBytes`), which epochs are over (`EpochsOf`),
and that one deletion at a time holds `metadata_mutex`, on a file that is still there
(`UnlinksAlone`), which nothing else keeps apart.

**Data in the system.** Exclusion: as long as a file is not contested, a client that was granted
its WRITE owns a token that covers all it asked for (`HoldersCovered`). Grants push or widen
(`HullCovers`), nobody else's CLOSE removes it (`RemoveCovers`), and a split that would cut it
makes the file contested; two such tokens of different clients are apart by
`ExclusiveUntilContested`. Durability: `FilesKept` adds to `Durable` what holds in the middle of
a write, that the blocks already sent are on their servers (`Written`), which the next writer
does not touch because of the exclusion, nor a handler that runs on (`LateApart`): when its
call was given up, the client's token kept others away from its bytes, and whoever is granted
them later knows by `alone` that it is running. `StripeServer` is the arithmetic: whether the list
of servers was read once or several times, a block goes to the same server; `ChunkFacts`: a
`WriteFile` stays within one block, and the blocks are the range. Deletion: when the tokens
are tested, nobody writes (`NoDeletion`); from then on whoever writes to that name writes into a
later epoch, whether it was granted its token before the entry went or after, and what late
handlers have still to write is of a later epoch too if none was running at the test; so the
servers that the loop has visited hold nothing older (`Erasing`); the loop visits
every server, because an initialised client has a stub for each (`DeletionErases`).

**A file server.** `FSInv` says of each step what it works on (`CallInv`), when a handler has a
stream (`StreamInv`), that nothing lies beyond the end of a file (`SizeInv`: a resized file reads
as zeros), and that a file that a writer misses was deleted or the disk failed (`ReasonInv`).
`OrphansAreLast` is part of it: a new file of the same name takes the mutex, which the handler
of the old one holds. Then each system call is a stutter or the one effect of its call. The
delicate case is a deletion that takes the name from under a write: the write is counted as
done in the same step, before it (`Overtaken`).

**Sessions.** A token belongs to a process by its id, and to a thread only through the
descriptor the thread has open. `TokensKept` says that every token of a process has a thread
that keeps its file open; it rests on the numbers being different (`IdInv`, `OpenInv`), which
in turn rests on nobody having taken one at the same time.

**The cache.** `list::remove` is a recursive function, so that what it returns is a matter of
induction. The induction theorems of the library take a predicate as a parameter, which the
provers cannot instantiate; `UpTo` states induction on a set of numbers instead, and follows
from the well-foundedness of `<` on the naturals. `TurnsExist` shows with it that the recursive
function exists, `RemoveKey` what it computes.

**Model-checked only.** `CallReturns` and `MutexGivenBack`: the prover handles
neither fairness nor ENABLED. The four findings are counterexamples of TLC.

## 5. Findings

Each is a run that TLC ends with a counterexample.

1. `revoke_wait_hangs`: the wait for acknowledgements never ends, although every REVOKE has
   been acknowledged (metaserver 283). As the conflict test (214) ignores the client, a
   client's own second write over the same bytes, or its retry of a failed one, is enough.
2. `writers_overlap`: on a contested file two clients write the same byte at once. The
   token of the first is erased (226), its remainder is lost to the dangling reference
   (228-232), and the REVOKE goes to the requester, not to the holder (280).
3. `deletion_erases_new`: a deletion under way erases a file created since (API 699).
4. `ids_collide`: two clients that initialise at the same time are given the same id
   (metaserver 36), and each `pfs_close` then releases the tokens of both.

Seen in the code while modelling, and visible in the modules, without a run of their own:
`pfs_read` refuses every offset, because it takes the descriptor's offset for the file size
(API 372, action `ReadRefused`); a token granted between the test and the removal of a deletion does not keep the file
(metaserver 322, `PfsDelete`, `DeleteUnlinks`); a handler that runs on after its call has failed
overwrites what others have written since, or removes it (API 570, 706, `LateHandler`);
`pfs_delete` stops at the first server without the file, after the metadata is gone (API 709, `DeleteStops`); after an initialisation that failed
and was repeated a client places its blocks on other servers than everybody else (API 72,
`PfsInitializeFails`); two threads that open at the same time may share a descriptor or
hold two for one file (API 312, `opens_overlapped`); a file server that runs out of
descriptors truncates the file it is asked to write (fileserver 86, `Create`), and reports
success for what the disk refused at `close()` (`Write`); a READ request is merged into the
token of whichever client overlaps first, and the grant carries that client's id
(metaserver 248, `GrantMerge`); a key added to the cache twice leaves a stale copy on the
list whose eviction frees nothing, so that the cache outgrows its size (`pfs_cache.cpp` 37,
which is why `ExactUntilReadded` says "until").

## 6. Not modelled, and the plan

Not modelled: the Ping handlers (they have no state; what the library makes of the answer is
in `PFS`), the token logger (reads under the shared lock), start-up and host names,
the empty server APIs, the unreachable rest of `pfs_read` (section 5), and with it
the use of `ReadFile`; the particular example programs. Not modelled either is a restart of
the metadata server, which keeps everything in memory: nothing in the code recovers, and
no promise is left to check. What the library returns after that server has died is an
error for every call, without an effect of its own.

Order of the work, done first:

1. `TokenServer`, its runs and its invariant (done, proved).
2. `Catalog`, `BlockStore`, `PFS` and their runs (done); refinement of `TokenServer` (done,
   proved).
3. `ClientCache` (done).
4. `PFSInv` as a theorem, and from it `AnswerExpected` and `NoWriterAtDeleteTest` (done).
5. `FileServer`, and `FileStore` which it implements (done); `BlockStore` and the failing
   writes of `PFS` follow that contract (done).
6. `Sessions`: client ids, and threads of one client in the library (done).
7. `LockService`, which `TokenServer` implements (done).
8. Initialisations that fail or are repeated, in `PFS` (done).
9. Proofs: `PFSTypeOK`, `WritersExcludeUntilContested`, `Durable`, `DeletedIsGone`; the refinements
   of `LockService` and `FileStore`; the safety of `FileServer`, `Sessions` and `ClientCache` (done).
10. Deletion in two steps, and handlers that run on without their client, in the model, the
    runs and the proofs (done).
11. Left: calls to the metadata server that fail at a living client; a restart of the metadata server as an action of `PFS`, with what survives it on the
    file servers; READ requests in the system, should `pfs_read` come to ask for them; a second
    call of the same client while a first is hung.
