------------------------------- MODULE FileServer -------------------------------
(***************************************************************************)
(* A file server (pfs_fileserver.cpp): handler threads that read, write    *)
(* and delete local files, one system call after the other.  WriteFile and *)
(* ReadFile, and their twins behind StreamData, hold file_mutex from the   *)
(* first line to the last; DeleteFile takes no mutex and may come between  *)
(* any two of their steps.                                                 *)
(*                                                                         *)
(* A name leads to a local file; a file that is removed while it is open   *)
(* lives on without a name until it is closed.  What is written to a       *)
(* stream stays in its buffer (512 bytes fit) until close(), which nobody  *)
(* asks whether it worked.  An error of the disk while reading is taken    *)
(* to show when the file is opened: the answer is the same.  The directory *)
(* is there, and one process uses it.                                      *)
(***************************************************************************)
EXTENDS Integers

CONSTANTS
  Handlers,   \* handler threads
  Files,      \* file names
  Bytes,      \* the bytes of a file
  Hole,       \* the value of a byte that is zero because it was not written
  Missing,    \* no local file
  NoHandler,  \* nobody holds the mutex
  NoCall,     \* the request of a handler that has none
  NoAnswer,   \* the answer of a call under way
  Shut,       \* a stream that is not open
  Linked,     \* a stream open on the file of that name
  MayFault,   \* whether the disk may fail
  Requests    \* the calls each handler may be asked for

\* The bytes of a file have no gaps.
ASSUME FSBytesAssumption == Bytes \subseteq Nat /\ \A a, b \in Bytes : a..b \subseteq Bytes

Calls ==
  {r \in [operation : {"READ", "WRITE"}, filename : Files, first : Bytes, last : Bytes] :
     r.first <= r.last}
  \union [operation : {"DELETE"}, filename : Files]

ASSUME RequestsAssumption == Requests \in [Handlers -> SUBSET Calls]
ASSUME FSHandlersAssumption == NoHandler \notin Handlers

\* What a local file holds, and what is none.
Data == [Bytes -> Handlers \union {Hole}]
Contents == [size : Nat, data : Data]

\* What a call answers: whether it succeeded, and the bytes it read.
Responses ==
  [success : BOOLEAN, data : UNION {[S -> Handlers \union {Hole}] : S \in SUBSET Bytes}]

ASSUME MarksAssumption ==
  /\ Missing \notin Contents \union Data
  /\ Shut \notin Contents /\ Linked \notin Contents /\ Shut # Linked
  /\ NoCall \notin Calls
  /\ NoAnswer \notin Responses

VARIABLES
  files,       \* the local file under each name, or Missing
  file_mutex,  \* the handler inside the critical section, or NoHandler
  pc,          \* where each handler is
  request,     \* what it was asked for, or NoCall
  file,        \* its stream: Shut, Linked to the name, or a file without a name
  response,    \* what it answers
  met          \* what happened during the call (history)

fsVars == <<files, file_mutex, pc, request, file, response, met>>

Response(success, data) == [success |-> success, data |-> data]
NoData == [b \in {} |-> Hole]

-----------------------------------------------------------------------------
(* Local files: the size, and the bytes that were written.                  *)

Empty == [size |-> 0, data |-> [b \in Bytes |-> Hole]]

Exists(f) == files[f] # Missing

\* Write value at first..last.
Overwrite(content, first, last, value) ==
  [size |-> IF last < content.size THEN content.size ELSE last + 1,
   data |-> [b \in Bytes |-> IF b \in first..last THEN value ELSE content.data[b]]]

\* put('\0') to a stream opened with app: wherever it was positioned, the
\* zero goes to the end.  A file that is not there is created.
Appended(f) ==
  IF Exists(f) THEN [files[f] EXCEPT !.size = @ + 1] ELSE [Empty EXCEPT !.size = 1]

\* The local file behind an open stream.
Content(h) == IF file[h] = Linked THEN files[request[h].filename] ELSE file[h]

-----------------------------------------------------------------------------
(* Steps.                                                                    *)

At(h, label) == pc[h] = label
GoTo(h, label) == pc' = [pc EXCEPT ![h] = label]

Attach(h) == file' = [file EXCEPT ![h] = Linked]
Close(h) == file' = [file EXCEPT ![h] = Shut]

Fault(h) == MayFault /\ met' = [met EXCEPT ![h] = @ \union {"fault"}]

\* The end of a handler that holds the mutex: the stream is closed, the
\* lock_guard gives the mutex back.
Answer(h, r) ==
  /\ response' = [response EXCEPT ![h] = r]
  /\ GoTo(h, "answered")
  /\ Close(h)
  /\ file_mutex' = NoHandler
  /\ UNCHANGED request

Fail(h) == Answer(h, Response(FALSE, NoData))

\* One more step of a handler that goes on.
StepTo(h, label) == GoTo(h, label) /\ UNCHANGED <<file_mutex, request, response>>

\* A call comes in, or StreamData reads its next request.
Receive(h, r) ==
  /\ At(h, "idle")
  /\ request' = [request EXCEPT ![h] = r]
  /\ GoTo(h, IF r.operation = "DELETE" THEN "find" ELSE "lock")
  /\ UNCHANGED <<files, file_mutex, file, response, met>>

Send(h) ==
  /\ At(h, "answered")
  /\ request' = [request EXCEPT ![h] = NoCall]
  /\ response' = [response EXCEPT ![h] = NoAnswer]
  /\ met' = [met EXCEPT ![h] = {}]
  /\ GoTo(h, "idle")
  /\ UNCHANGED <<files, file_mutex, file>>

\* Mutant: no lock_guard.
LockNothing(h) ==
  /\ At(h, "lock")
  /\ GoTo(h, IF request[h].operation = "READ" THEN "exists" ELSE "open")
  /\ UNCHANGED <<files, file_mutex, request, file, response, met>>

Lock(h) ==
  /\ At(h, "lock")
  /\ file_mutex = NoHandler
  /\ file_mutex' = h
  /\ GoTo(h, IF request[h].operation = "READ" THEN "exists" ELSE "open")
  /\ UNCHANGED <<files, request, file, response, met>>

-----------------------------------------------------------------------------
(* Reading.                                                                  *)

ReadExists(h) ==
  /\ At(h, "exists")
  /\ IF Exists(request[h].filename)
     THEN StepTo(h, "open_in") /\ UNCHANGED file
     ELSE Fail(h)
  /\ UNCHANGED <<files, met>>

OpenToRead(h) ==
  /\ At(h, "open_in")
  /\ \/ Exists(request[h].filename) /\ Attach(h) /\ StepTo(h, "read") /\ UNCHANGED met
     \/ ~Exists(request[h].filename) /\ Fail(h) /\ UNCHANGED met
     \/ Fault(h) /\ Fail(h)
  /\ UNCHANGED files

\* The bytes of the request that are within the file; none of them is a failure.
BytesRead(h, content) ==
  LET end == IF request[h].last < content.size THEN request[h].last ELSE content.size - 1
  IN  Response(end >= request[h].first,
               [b \in request[h].first .. end |-> content.data[b]])

Read(h) ==
  /\ At(h, "read")
  /\ Answer(h, BytesRead(h, Content(h)))
  /\ UNCHANGED <<files, met>>

-----------------------------------------------------------------------------
(* Writing.                                                                  *)

\* A stream that does not open is taken for a file that is not there.
OpenToWrite(h) ==
  /\ At(h, "open")
  /\ \/ Exists(request[h].filename) /\ Attach(h) /\ StepTo(h, "measure") /\ UNCHANGED met
     \/ ~Exists(request[h].filename) /\ StepTo(h, "create") /\ UNCHANGED <<file, met>>
     \/ Fault(h) /\ StepTo(h, "create") /\ UNCHANGED file
  /\ UNCHANGED files

\* open(out | trunc), which empties a file that is there, and close().
Create(h) ==
  /\ At(h, "create")
  /\ \/ files' = [files EXCEPT ![request[h].filename] = Empty] /\ UNCHANGED met
     \/ Fault(h) /\ UNCHANGED files
  /\ StepTo(h, "reopen")
  /\ UNCHANGED file

\* Mutant: no answer, but another attempt.
ReopenAgain(h) ==
  /\ At(h, "reopen")
  /\ IF Exists(request[h].filename)
     THEN Attach(h) /\ StepTo(h, "measure")
     ELSE StepTo(h, "reopen") /\ UNCHANGED file
  /\ UNCHANGED <<files, met>>

\* "Failed to create file": it may have been deleted by now.
Reopen(h) ==
  /\ At(h, "reopen")
  /\ \/ Exists(request[h].filename) /\ Attach(h) /\ StepTo(h, "measure") /\ UNCHANGED met
     \/ ~Exists(request[h].filename) /\ Fail(h) /\ UNCHANGED met
     \/ Fault(h) /\ Fail(h)
  /\ UNCHANGED files

\* tellp() at the end of the stream; a file that is too short is closed.
Grows(h) == request[h].last + 1 > Content(h).size

Measure(h) ==
  /\ At(h, "measure")
  /\ IF Grows(h)
     THEN Close(h) /\ StepTo(h, "append")
     ELSE StepTo(h, "write") /\ UNCHANGED file
  /\ UNCHANGED <<files, met>>

\* Mutant: the stream that resizes the file truncates it.
AppendToEmpty(h) ==
  /\ At(h, "append")
  /\ files' = [files EXCEPT ![request[h].filename] = [Empty EXCEPT !.size = 1]]
  /\ StepTo(h, "resized")
  /\ UNCHANGED <<file, met>>

Append(h) ==
  /\ At(h, "append")
  /\ \/ files' = [files EXCEPT ![request[h].filename] = Appended(request[h].filename)]
        /\ UNCHANGED met
     \/ Fault(h) /\ UNCHANGED files
  /\ StepTo(h, "resized")
  /\ UNCHANGED file

\* A stream that does not open makes the write below fail.
OpenResized(h) ==
  /\ At(h, "resized")
  /\ \/ Exists(request[h].filename) /\ Attach(h) /\ UNCHANGED met
     \/ ~Exists(request[h].filename) /\ UNCHANGED <<file, met>>
     \/ Fault(h) /\ UNCHANGED file
  /\ StepTo(h, "write")
  /\ UNCHANGED files

\* good() comes before close() writes the buffer to the file, so that an
\* error of the disk goes unnoticed, and so does a file without a name.
Write(h) ==
  LET r == request[h]
  IN  /\ At(h, "write")
      /\ \/ file[h] = Shut /\ Fail(h) /\ UNCHANGED <<files, met>>
         \/ /\ file[h] = Linked
            /\ files' = [files EXCEPT ![r.filename] = Overwrite(@, r.first, r.last, h)]
            /\ Answer(h, Response(TRUE, NoData))
            /\ UNCHANGED met
         \/ /\ file[h] \notin {Shut, Linked}
            /\ Answer(h, Response(TRUE, NoData))
            /\ UNCHANGED <<files, met>>
         \/ /\ file[h] = Linked
            /\ Fault(h)
            /\ Answer(h, Response(TRUE, NoData))
            /\ UNCHANGED files

-----------------------------------------------------------------------------
(* Deleting, without the mutex.                                              *)

AnswerDelete(h, success) ==
  /\ response' = [response EXCEPT ![h] = Response(success, NoData)]
  /\ GoTo(h, "answered")
  /\ UNCHANGED <<file_mutex, request>>

FindFile(h) ==
  /\ At(h, "find")
  /\ IF Exists(request[h].filename)
     THEN StepTo(h, "remove")
     ELSE AnswerDelete(h, FALSE)
  /\ UNCHANGED <<files, file, met>>

\* fs::remove takes the name away, also when somebody else did before.
RemoveName(h) ==
  LET f == request[h].filename
      OnFile == {g \in Handlers : request[g] # NoCall /\ request[g].filename = f}
  IN  /\ At(h, "remove")
      /\ files' = [files EXCEPT ![f] = Missing]
      /\ file' = [g \in Handlers |->
                    IF g \in OnFile /\ file[g] = Linked THEN files[f] ELSE file[g]]
      /\ met' = [g \in Handlers |->
                   IF g \in OnFile THEN met[g] \union {"deletion"} ELSE met[g]]
      /\ AnswerDelete(h, TRUE)

\* fs::remove throws.
RemoveFails(h) ==
  /\ At(h, "remove")
  /\ Fault(h)
  /\ AnswerDelete(h, FALSE)
  /\ UNCHANGED <<files, file>>

-----------------------------------------------------------------------------
Serve(h) ==
  \/ ReadExists(h) \/ OpenToRead(h) \/ Read(h)
  \/ OpenToWrite(h) \/ Create(h) \/ Reopen(h) \/ Measure(h) \/ Append(h)
  \/ OpenResized(h) \/ Write(h)
  \/ FindFile(h) \/ RemoveName(h) \/ RemoveFails(h)
  \/ Send(h)

FSInit ==
  /\ files = [f \in Files |-> Missing]
  /\ file_mutex = NoHandler
  /\ pc = [h \in Handlers |-> "idle"]
  /\ request = [h \in Handlers |-> NoCall]
  /\ file = [h \in Handlers |-> Shut]
  /\ response = [h \in Handlers |-> NoAnswer]
  /\ met = [h \in Handlers |-> {}]

FSNext == \E h \in Handlers :
  \/ \E r \in Requests[h] : Receive(h, r)
  \/ Lock(h) \/ Serve(h)

FSSpec == FSInit /\ [][FSNext]_fsVars

\* A handler that can run does; nothing is asked of the order in which the
\* mutex is handed out.
FSFairness == \A h \in Handlers : WF_fsVars(Serve(h))

FairFSSpec == FSSpec /\ FSFairness

-----------------------------------------------------------------------------
(* Properties.                                                               *)

Labels == {"idle", "lock", "exists", "open_in", "read", "open", "create", "reopen",
           "measure", "append", "resized", "write", "find", "remove", "answered"}

\* The steps under the lock_guard.
Critical == Labels \ {"idle", "lock", "find", "remove", "answered"}

FSTypeOK ==
  /\ files \in [Files -> Contents \union {Missing}]
  /\ file_mutex \in Handlers \union {NoHandler}
  /\ pc \in [Handlers -> Labels]
  /\ request \in [Handlers -> Calls \union {NoCall}]
  /\ file \in [Handlers -> Contents \union {Shut, Linked}]
  /\ response \in [Handlers -> Responses \union {NoAnswer}]
  /\ met \in [Handlers -> SUBSET {"fault", "deletion"}]
  /\ \A h \in Handlers : response[h] # NoAnswer <=> At(h, "answered")
  /\ \A h \in Handlers : pc[h] \in Critical <=> file_mutex = h

\* A handler that works on a file without a name is alone with that file: no
\* other file has come up under the name, so that its answer, which says
\* nothing of the deletion, is right for the moment before it (lines 71-173).
OrphansAreLast ==
  \A h \in Handlers :
    /\ file[h] = Linked => Exists(request[h].filename)
    /\ file[h] \notin {Shut, Linked} => ~Exists(request[h].filename)

\* What the deletion of its file has overtaken: a write that will report
\* success, and a read that has the file open.
Overtaken(h) ==
  /\ file[h] \notin {Shut, Linked}
  /\ At(h, "write") \/ (At(h, "measure") /\ ~Grows(h))

\* The calls of FileServer as calls of FileStore.
AnswerOf(h) ==
  IF At(h, "read") THEN BytesRead(h, Content(h))
  ELSE IF Overtaken(h) THEN Response(TRUE, NoData)
  ELSE response[h]

LocalFiles ==
  [s \in {0} |-> [f \in Files |->
     IF files[f] = Missing THEN Missing ELSE files[f].data]]
Answers == [h \in Handlers |-> AnswerOf(h)]
Removing == {h \in Handlers : At(h, "remove")}

Store == INSTANCE FileStore WITH
  NumServers <- 1,
  storage <- LocalFiles,
  calls <- request,
  answers <- Answers,
  found <- Removing

\* The file server does what its callers rely on: every call has its effect in
\* one step although DeleteFile takes no mutex, a call fails without an effect
\* and only for a reason, and nothing that was written is lost but to a
\* deletion or to an error of the disk (lines 71-173, 276-300).
ImplementsFileStore == Store!StoreSpec

\* Whatever a call meets, a deletion or a failing disk, it gives the mutex
\* back, so that no way through a handler shuts the others out (lines 71-275).
MutexGivenBack == file_mutex # NoHandler ~> file_mutex = NoHandler

-----------------------------------------------------------------------------
(* The inductive invariant, with what the refinement needs.                 *)

\* What each step works on.
CallInv ==
  \A h \in Handlers :
    LET doing(operations) == request[h] # NoCall /\ request[h].operation \in operations
    IN  /\ At(h, "idle") <=> request[h] = NoCall
        /\ At(h, "lock") => doing({"READ", "WRITE"})
        /\ pc[h] \in {"exists", "open_in", "read"} => doing({"READ"})
        /\ pc[h] \in Critical \ {"exists", "open_in", "read"} => doing({"WRITE"})
        /\ pc[h] \in {"find", "remove"} => doing({"DELETE"})

\* When a handler has a stream.
StreamInv ==
  \A h \in Handlers :
    /\ file[h] # Shut => pc[h] \in {"read", "measure", "write"}
    /\ pc[h] \in {"read", "measure"} => file[h] # Shut

\* Nothing is beyond the end of a file.
SizeInv ==
  \A f \in Files : Exists(f) =>
    \A b \in Bytes : b >= files[f].size => files[f].data[b] = Hole

\* A file that should be there and is not, or is there and should not, is the
\* work of a deletion or of the disk.
ReasonInv ==
  \A h \in Handlers :
    /\ pc[h] \in {"open_in", "reopen", "resized"} =>
         Exists(request[h].filename) \/ met[h] # {}
    /\ At(h, "create") => ~Exists(request[h].filename) \/ "fault" \in met[h]
    /\ At(h, "write") => file[h] # Shut \/ met[h] # {}

FSInv ==
  /\ FSTypeOK /\ CallInv /\ StreamInv /\ OrphansAreLast /\ SizeInv /\ ReasonInv

=============================================================================
