------------------------------- MODULE FileStore -------------------------------
(***************************************************************************)
(* What one file server promises to its callers: the local files of        *)
(* BlockStore, on which each call has its effect in one step between the   *)
(* call and its answer.  A call may fail without an effect only if the     *)
(* file was deleted or the disk failed while it was under way, and only a  *)
(* failure of the disk makes the server report what did not happen.  The   *)
(* composition in PFS rests on this interface; FileServer implements it.   *)
(***************************************************************************)
EXTENDS BlockStore

CONSTANTS
  Handlers,  \* the handler threads, one per call under way
  Files,     \* the file names
  NoCall,    \* the request of a handler without a call
  NoAnswer,  \* the answer of a call that has none yet
  Requests   \* the calls each of them may be asked for: READ, WRITE and DELETE

VARIABLES
  calls,    \* per handler: the request under way
  answers,  \* per handler: what the call is going to return
  found,    \* the DeleteFile calls that have found their file
  met       \* per handler: what happened during the call

storeVars == <<storage, calls, answers, found, met>>

Answer(success, data) == [success |-> success, data |-> data]
NoData == [b \in {} |-> Hole]
Done == Answer(TRUE, NoData)
Failed == Answer(FALSE, NoData)

Pending(h, operation) ==
  calls[h] # NoCall /\ answers[h] = NoAnswer /\ calls[h].operation = operation

Return(h, answer) == answers' = [answers EXCEPT ![h] = answer]

Call(h, r) ==
  /\ calls[h] = NoCall
  /\ calls' = [calls EXCEPT ![h] = r]
  /\ UNCHANGED <<storage, answers, found, met>>

Reply(h) ==
  /\ calls[h] # NoCall /\ answers[h] # NoAnswer
  /\ calls' = [calls EXCEPT ![h] = NoCall]
  /\ Return(h, NoAnswer)
  /\ met' = [met EXCEPT ![h] = {}]
  /\ UNCHANGED <<storage, found>>

\* The disk fails during the call.
DiskFails(h) == met' = [met EXCEPT ![h] = @ \union {"fault"}]

WriteDone(h) ==
  /\ Pending(h, "WRITE")
  /\ WriteFile(0, calls[h].filename, calls[h].first .. calls[h].last, h)
  /\ Return(h, Done)
  /\ UNCHANGED <<calls, found, met>>

\* The local file is created before it is written.
WriteCreates(h) ==
  /\ Pending(h, "WRITE")
  /\ ~Stored(0, calls[h].filename)
  /\ WriteFile(0, calls[h].filename, {}, h)
  /\ UNCHANGED <<calls, answers, found, met>>

\* A call that gives up without an effect.
Fails(h) ==
  /\ Pending(h, "WRITE") \/ Pending(h, "READ") \/ h \in found
  /\ Return(h, Failed)
  /\ \/ met[h] # {} /\ h \notin found /\ UNCHANGED met
     \/ DiskFails(h)
  /\ found' = found \ {h}
  /\ UNCHANGED <<storage, calls>>

\* The disk fails, and nothing is said of it, or not yet.
Falters(h) ==
  /\ calls[h] # NoCall /\ answers[h] = NoAnswer
  /\ DiskFails(h)
  /\ answers' = answers \/ (Pending(h, "WRITE") /\ Return(h, Done))
  /\ UNCHANGED <<storage, calls, found>>

\* After a failure of the disk a write may erase the whole local file.
WriteErases(h) ==
  /\ Pending(h, "WRITE")
  /\ "fault" \in met[h]
  /\ storage' = [storage EXCEPT ![0][calls[h].filename] = [b \in Bytes |-> Hole]]
  /\ UNCHANGED <<calls, answers, found, met>>

\* A read returns the bytes up to the end of the file, none of which is missing.
ReadDone(h) ==
  /\ Pending(h, "READ")
  /\ LET f == calls[h].filename
     IN  \E end \in calls[h].first - 1 .. calls[h].last :
           /\ \A b \in end + 1 .. calls[h].last : ByteAt(0, f, b) = Hole
           /\ Return(h, Answer(end >= calls[h].first,
                               [b \in calls[h].first .. end |-> ByteAt(0, f, b)]))
  /\ UNCHANGED <<storage, calls, found, met>>

DeleteMisses(h) ==
  /\ Pending(h, "DELETE") /\ h \notin found
  /\ ~Stored(0, calls[h].filename)
  /\ Return(h, Failed)
  /\ UNCHANGED <<storage, calls, found, met>>

DeleteFinds(h) ==
  /\ Pending(h, "DELETE") /\ h \notin found
  /\ Stored(0, calls[h].filename)
  /\ found' = found \union {h}
  /\ UNCHANGED <<storage, calls, answers, met>>

\* Writes that are under way may end first, to be erased with the rest.
DeleteRemoves(h) ==
  LET f == calls[h].filename
      OnFile == {g \in Handlers : calls[g] # NoCall /\ calls[g].filename = f}
      writes == {g \in OnFile : Pending(g, "WRITE")}
  IN  /\ h \in found
      /\ RemoveFile(0, f)
      /\ \E overtaken \in SUBSET writes :
           answers' = [g \in Handlers |->
                         IF g \in overtaken \union {h} THEN Done ELSE answers[g]]
      /\ met' = [g \in Handlers |->
                   IF g \in OnFile THEN met[g] \union {"deletion"} ELSE met[g]]
      /\ found' = found \ {h}
      /\ UNCHANGED calls

StoreInit ==
  /\ storage = [s \in ServerIds |-> [f \in Files |-> Missing]]
  /\ calls = [h \in Handlers |-> NoCall]
  /\ answers = [h \in Handlers |-> NoAnswer]
  /\ found = {}
  /\ met = [h \in Handlers |-> {}]

StoreNext == \E h \in Handlers :
  \/ \E r \in Requests[h] : Call(h, r)
  \/ Reply(h) \/ Fails(h) \/ Falters(h)
  \/ WriteDone(h) \/ WriteCreates(h) \/ WriteErases(h)
  \/ ReadDone(h)
  \/ DeleteMisses(h) \/ DeleteFinds(h) \/ DeleteRemoves(h)

StoreSpec == StoreInit /\ [][StoreNext]_storeVars

=============================================================================
