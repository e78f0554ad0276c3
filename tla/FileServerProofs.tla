--------------------------- MODULE FileServerProofs ---------------------------
(***************************************************************************)
(* Theorems about a file server, for any number of handler threads, files  *)
(* and bytes, with deletions that take no mutex and a disk that may fail:  *)
(* its invariant, and that it implements FileStore.                        *)
(***************************************************************************)
EXTENDS FileServer, TLAPS

\* What the invariant says of one handler.
RightAt(h) ==
  LET doing(operations) == request[h] # NoCall /\ request[h].operation \in operations
      there == Exists(request[h].filename)
  IN  /\ At(h, "idle") <=> request[h] = NoCall
      /\ At(h, "lock") => doing({"READ", "WRITE"})
      /\ pc[h] \in {"exists", "open_in", "read"} => doing({"READ"})
      /\ pc[h] \in Critical \ {"exists", "open_in", "read"} => doing({"WRITE"})
      /\ pc[h] \in {"find", "remove"} => doing({"DELETE"})
      /\ file[h] # Shut => pc[h] \in {"read", "measure", "write"}
      /\ pc[h] \in {"read", "measure"} => file[h] # Shut
      /\ file[h] = Linked => there
      /\ file[h] \notin {Shut, Linked} => ~there
      /\ pc[h] \in {"open_in", "reopen", "resized"} => there \/ met[h] # {}
      /\ At(h, "create") => ~there \/ "fault" \in met[h]
      /\ At(h, "write") => file[h] # Shut \/ met[h] # {}

LEMMA InvByHandler == FSInv <=> FSTypeOK /\ SizeInv /\ \A h \in Handlers : RightAt(h)
BY DEF FSInv, CallInv, StreamInv, OrphansAreLast, ReasonInv, RightAt

LEMMA InvByHandlerNext ==
  FSTypeOK' /\ SizeInv' /\ (\A h \in Handlers : RightAt(h)') => FSInv'
BY DEF FSInv, CallInv, StreamInv, OrphansAreLast, ReasonInv, RightAt

LEMMA InitInv == FSInit => FSInv
<1> SUFFICES ASSUME FSInit PROVE FSInv
  OBVIOUS
<1>1. FSTypeOK
  BY FSHandlersAssumption, MarksAssumption DEF FSInit, FSTypeOK, Labels, Critical, At
<1>2. SizeInv /\ \A h \in Handlers : RightAt(h)
  BY MarksAssumption DEF FSInit, SizeInv, RightAt, Exists, At, Critical, Labels
<1> QED BY <1>1, <1>2, InvByHandler

-----------------------------------------------------------------------------
(* Local files.                                                             *)

\* The file behind an open stream.
LEMMA ContentTyped ==
  ASSUME FSTypeOK, NEW h \in Handlers, RightAt(h), file[h] # Shut
  PROVE  Content(h) \in Contents /\ request[h] \in Calls
<1>1. request[h] \in Calls /\ request[h].filename \in Files
  BY DEF RightAt, FSTypeOK, Calls, At
<1>2. CASE file[h] = Linked
  BY <1>1, <1>2 DEF RightAt, FSTypeOK, Content, Exists
<1>3. CASE file[h] # Linked
  BY <1>1, <1>3 DEF FSTypeOK, Content
<1> QED BY <1>1, <1>2, <1>3

LEMMA EmptyTyped == Empty \in Contents /\ [Empty EXCEPT !.size = 1] \in Contents
BY DEF Empty, Contents, Data

LEMMA AppendedTyped ==
  ASSUME FSTypeOK, NEW f \in Files
  PROVE  Appended(f) \in Contents
BY EmptyTyped DEF Appended, FSTypeOK, Exists, Contents

\* What a call asks for.
LEMMA CallTyped ==
  ASSUME NEW r \in Calls
  PROVE  /\ r.filename \in Files
         /\ r.operation \in {"READ", "WRITE", "DELETE"}
         /\ r.operation # "DELETE" =>
              r.first \in Bytes /\ r.last \in Bytes /\ r.first <= r.last
BY DEF Calls

LEMMA OverwriteTyped ==
  ASSUME NEW content \in Contents, NEW h \in Handlers,
         NEW first \in Bytes, NEW last \in Bytes
  PROVE  Overwrite(content, first, last, h) \in Contents
BY FSBytesAssumption DEF Overwrite, Contents, Data

LEMMA ReadTyped ==
  ASSUME NEW content \in Contents, NEW h \in Handlers, request[h] \in Calls,
         request[h].operation = "READ"
  PROVE  BytesRead(h, content) \in Responses
<1> DEFINE first == request[h].first
           last == request[h].last
           end == IF last < content.size THEN last ELSE content.size - 1
<1>1. first \in Bytes /\ last \in Bytes /\ content.size \in Nat
      /\ content.data \in [Bytes -> Handlers \union {Hole}]
  BY CallTyped DEF Contents, Data
<1>2. first \in Nat /\ last \in Nat /\ end \in Int /\ end <= last
  <2>1. first \in Nat /\ last \in Nat
    BY <1>1, FSBytesAssumption
  <2> QED BY <1>1, <2>1
<1>3. first..end \subseteq Bytes
  <2>1. first..last \subseteq Bytes
    <3> HIDE DEF first, last
    <3> QED BY <1>1, FSBytesAssumption
  <2>2. first..end \subseteq first..last
    BY <1>2
  <2> QED BY <2>1, <2>2
<1>4. [b \in first..end |-> content.data[b]] \in [first..end -> Handlers \union {Hole}]
  BY <1>1, <1>3
<1> DEFINE data == [b \in first..end |-> content.data[b]]
           success == end >= first
<1>5. data \in UNION {[S -> Handlers \union {Hole}] : S \in SUBSET Bytes}
  BY <1>3, <1>4
<1>6. BytesRead(h, content) = [success |-> success, data |-> data]
  BY DEF BytesRead, Response
<1>7. success \in BOOLEAN
  OBVIOUS
<1> HIDE DEF data, success
<1> QED BY <1>5, <1>6, <1>7 DEF Responses

LEMMA NoDataTyped == \A success \in BOOLEAN : Response(success, NoData) \in Responses
<1>1. NoData \in [{} -> Handlers \union {Hole}]
  BY DEF NoData
<1> QED BY <1>1 DEF Response, Responses


-----------------------------------------------------------------------------
(* What a step leaves as it was.                                            *)

\* A step of h that changes nothing of g, and no file or only under the mutex,
\* is none of g's business.
LEMMA OthersKeep ==
  ASSUME FSInv, NEW h \in Handlers, NEW g \in Handlers, g # h,
         pc'[g] = pc[g], request'[g] = request[g], file'[g] = file[g], met'[g] = met[g],
         files' = files \/ pc[h] \in Critical
  PROVE  RightAt(g)'
<1>1. FSTypeOK /\ RightAt(g) /\ RightAt(h)
  BY InvByHandler
<1>2. CASE files' = files
  BY <1>1, <1>2 DEF RightAt, Exists, At
<1>3. CASE pc[h] \in Critical
  <2>1. pc[g] \notin Critical
    BY <1>1, <1>3 DEF FSTypeOK
  <2>2. file[g] = Shut
    BY <1>1, <2>1 DEF RightAt, Critical, Labels
  <2> QED BY <1>1, <2>1, <2>2, MarksAssumption DEF RightAt, Critical, Labels, At
<1> QED BY <1>2, <1>3

\* One step under the mutex.
LEMMA StepTyped ==
  ASSUME FSTypeOK, NEW h \in Handlers, NEW label \in Critical, pc[h] \in Critical,
         StepTo(h, label),
         files' \in [Files -> Contents \union {Missing}],
         file' \in [Handlers -> Contents \union {Shut, Linked}],
         met' \in [Handlers -> SUBSET {"fault", "deletion"}]
  PROVE  FSTypeOK'
BY DEF StepTo, GoTo, FSTypeOK, Critical, Labels, At

\* The last one.
LEMMA AnswerTyped ==
  ASSUME FSTypeOK, NEW h \in Handlers, NEW r \in Responses, pc[h] \in Critical,
         Answer(h, r),
         files' \in [Files -> Contents \union {Missing}],
         met' \in [Handlers -> SUBSET {"fault", "deletion"}]
  PROVE  FSTypeOK'
<1>1. pc' = [pc EXCEPT ![h] = "answered"] /\ response' = [response EXCEPT ![h] = r]
      /\ file' = [file EXCEPT ![h] = Shut] /\ file_mutex' = NoHandler /\ request' = request
  BY DEF Answer, GoTo, Close
<1>2. file_mutex = h
  BY DEF FSTypeOK
<1>3. file_mutex' \in Handlers \union {NoHandler} /\ pc' \in [Handlers -> Labels]
      /\ request' \in [Handlers -> Calls \union {NoCall}]
      /\ file' \in [Handlers -> Contents \union {Shut, Linked}]
      /\ response' \in [Handlers -> Responses \union {NoAnswer}]
  BY <1>1 DEF FSTypeOK, Labels
<1>4. \A g \in Handlers : response'[g] # NoAnswer <=> pc'[g] = "answered"
  BY <1>1, MarksAssumption DEF FSTypeOK, At
<1>5. \A g \in Handlers : pc'[g] \in Critical <=> file_mutex' = g
  BY <1>1, <1>2, FSHandlersAssumption DEF FSTypeOK, Critical
<1> QED BY <1>3, <1>4, <1>5 DEF FSTypeOK, At

LEMMA FaultTyped ==
  ASSUME FSTypeOK, NEW h \in Handlers, Fault(h)
  PROVE  /\ met' \in [Handlers -> SUBSET {"fault", "deletion"}]
         /\ met'[h] = met[h] \union {"fault"}
         /\ \A g \in Handlers \ {h} : met'[g] = met[g]
BY DEF Fault, FSTypeOK

\* A call that fails under the mutex.
LEMMA FailKeeps ==
  ASSUME FSInv, NEW h \in Handlers, pc[h] \in Critical, Fail(h), files' = files,
         Fault(h) \/ UNCHANGED met
  PROVE  FSInv'
<1>1. FSTypeOK /\ SizeInv /\ RightAt(h)
  BY InvByHandler
<1>2. met' \in [Handlers -> SUBSET {"fault", "deletion"}]
  BY <1>1, FaultTyped DEF FSTypeOK
<1>3. FSTypeOK'
  BY <1>1, <1>2, AnswerTyped, NoDataTyped DEF Fail, FSTypeOK
<1>4. \A g \in Handlers \ {h} :
        pc'[g] = pc[g] /\ request'[g] = request[g] /\ file'[g] = file[g] /\ met'[g] = met[g]
  BY <1>1, FaultTyped DEF Fail, Answer, GoTo, Close, FSTypeOK
<1>5. pc'[h] = "answered" /\ file'[h] = Shut /\ request' = request
  BY <1>1 DEF Fail, Answer, GoTo, Close, FSTypeOK
<1>6. request[h] # NoCall
  BY <1>1 DEF RightAt, At, Critical
<1>7. RightAt(h)'
  BY <1>5, <1>6, MarksAssumption DEF RightAt, At, Critical
<1>8. SizeInv'
  BY <1>1 DEF SizeInv, Exists
<1>9. \A g \in Handlers \ {h} : RightAt(g)'
  BY <1>4, OthersKeep
<1> QED BY <1>3, <1>7, <1>8, <1>9, InvByHandlerNext


\* A call that goes on under the mutex.
LEMMA StepKeeps ==
  ASSUME FSInv, NEW h \in Handlers, NEW label \in Critical, pc[h] \in Critical,
         StepTo(h, label),
         files' \in [Files -> Contents \union {Missing}], SizeInv',
         Attach(h) \/ Close(h) \/ UNCHANGED file,
         Fault(h) \/ UNCHANGED met,
         RightAt(h)'
  PROVE  FSInv'
<1>1. FSTypeOK /\ RightAt(h)
  BY InvByHandler
<1>2. met' \in [Handlers -> SUBSET {"fault", "deletion"}]
      /\ \A g \in Handlers \ {h} : met'[g] = met[g]
  BY <1>1, FaultTyped DEF FSTypeOK
<1>3. file' \in [Handlers -> Contents \union {Shut, Linked}]
      /\ \A g \in Handlers \ {h} : file'[g] = file[g]
  BY <1>1 DEF Attach, Close, FSTypeOK
<1>4. FSTypeOK'
  BY <1>1, <1>2, <1>3, StepTyped
<1>5. \A g \in Handlers \ {h} : pc'[g] = pc[g] /\ request'[g] = request[g]
  BY <1>1 DEF StepTo, GoTo, FSTypeOK
<1>6. \A g \in Handlers \ {h} : RightAt(g)'
  BY <1>2, <1>3, <1>5, OthersKeep
<1> QED BY <1>4, <1>6, InvByHandlerNext

\* Where a step of h leads.
LEMMA Went ==
  ASSUME FSTypeOK, NEW h \in Handlers, NEW label, StepTo(h, label)
  PROVE  pc'[h] = label /\ request' = request
BY DEF FSTypeOK, StepTo, GoTo

LEMMA StreamOf ==
  ASSUME FSTypeOK, NEW h \in Handlers
  PROVE  (Attach(h) => file'[h] = Linked) /\ (Close(h) => file'[h] = Shut)
BY DEF FSTypeOK, Attach, Close

-----------------------------------------------------------------------------
(* Every step preserves the invariant.                                      *)

LEMMA ReadExistsKeeps ==
  ASSUME FSInv, NEW h \in Handlers, ReadExists(h)
  PROVE  FSInv'
<1>1. FSTypeOK /\ SizeInv /\ RightAt(h) /\ At(h, "exists") /\ files' = files /\ met' = met
  BY InvByHandler DEF ReadExists
<1>2. pc[h] \in Critical
  BY <1>1 DEF At, Critical, Labels
<1>3. SizeInv' /\ files' \in [Files -> Contents \union {Missing}]
  BY <1>1 DEF SizeInv, Exists, FSTypeOK
<1>4. CASE Fail(h)
  BY <1>1, <1>2, <1>4, FailKeeps
<1>5. CASE Exists(request[h].filename) /\ StepTo(h, "open_in") /\ UNCHANGED file
  <2>1. RightAt(h)'
    BY <1>1, <1>5, Went DEF RightAt, At, Exists, Critical, Labels
  <2> QED BY <1>1, <1>2, <1>3, <1>5, <2>1, StepKeeps DEF Critical, Labels
<1> QED BY <1>4, <1>5 DEF ReadExists

LEMMA OpenToReadKeeps ==
  ASSUME FSInv, NEW h \in Handlers, OpenToRead(h)
  PROVE  FSInv'
<1>1. FSTypeOK /\ SizeInv /\ RightAt(h) /\ At(h, "open_in") /\ files' = files
  BY InvByHandler DEF OpenToRead
<1>2. pc[h] \in Critical
  BY <1>1 DEF At, Critical, Labels
<1>3. SizeInv' /\ files' \in [Files -> Contents \union {Missing}]
  BY <1>1 DEF SizeInv, Exists, FSTypeOK
<1>4. CASE Fail(h)
  BY <1>1, <1>2, <1>4, FailKeeps DEF OpenToRead
<1>5. CASE Exists(request[h].filename) /\ Attach(h) /\ StepTo(h, "read") /\ UNCHANGED met
  <2>1. RightAt(h)'
    BY <1>1, <1>5, Went, StreamOf, MarksAssumption
    DEF RightAt, At, Exists, Critical, Labels
  <2> QED BY <1>1, <1>2, <1>3, <1>5, <2>1, StepKeeps DEF Critical, Labels
<1> QED BY <1>4, <1>5 DEF OpenToRead

LEMMA OpenToWriteKeeps ==
  ASSUME FSInv, NEW h \in Handlers, OpenToWrite(h)
  PROVE  FSInv'
<1>1. FSTypeOK /\ SizeInv /\ RightAt(h) /\ At(h, "open") /\ files' = files
  BY InvByHandler DEF OpenToWrite
<1>2. pc[h] \in Critical
  BY <1>1 DEF At, Critical, Labels
<1>3. SizeInv' /\ files' \in [Files -> Contents \union {Missing}]
  BY <1>1 DEF SizeInv, Exists, FSTypeOK
<1>4. CASE Exists(request[h].filename) /\ Attach(h) /\ StepTo(h, "measure")
           /\ UNCHANGED met
  <2>1. RightAt(h)'
    BY <1>1, <1>4, Went, StreamOf, MarksAssumption
    DEF RightAt, At, Exists, Critical, Labels
  <2> QED BY <1>1, <1>2, <1>3, <1>4, <2>1, StepKeeps DEF Critical, Labels
<1>5. CASE /\ (~Exists(request[h].filename) /\ UNCHANGED met) \/ Fault(h)
           /\ StepTo(h, "create") /\ UNCHANGED file
  <2>1. RightAt(h)'
    BY <1>1, <1>5, Went, FaultTyped DEF RightAt, At, Exists, Critical, Labels
  <2> QED BY <1>1, <1>2, <1>3, <1>5, <2>1, StepKeeps DEF Critical, Labels
<1> QED BY <1>4, <1>5 DEF OpenToWrite

\* A file that a step of h creates, empties or extends with zeros.
LEMMA FileTyped ==
  ASSUME FSTypeOK, SizeInv, NEW f \in Files, NEW content \in Contents,
         files' = [files EXCEPT ![f] = content],
         \A b \in Bytes : b >= content.size => content.data[b] = Hole
  PROVE  /\ files' \in [Files -> Contents \union {Missing}]
         /\ SizeInv'
         /\ files'[f] = content /\ Exists(f)'
<1>1. files' \in [Files -> Contents \union {Missing}] /\ files'[f] = content
  BY DEF FSTypeOK
<1>2. content # Missing
  BY MarksAssumption
<1> QED BY <1>1, <1>2 DEF SizeInv, Exists, FSTypeOK

LEMMA CreateKeeps ==
  ASSUME FSInv, NEW h \in Handlers, Create(h)
  PROVE  FSInv'
<1>1. FSTypeOK /\ SizeInv /\ RightAt(h) /\ At(h, "create") /\ StepTo(h, "reopen")
      /\ file' = file
  BY InvByHandler DEF Create
<1>2. pc[h] \in Critical /\ request[h].filename \in Files
  BY <1>1, CallTyped DEF At, Critical, Labels, RightAt, FSTypeOK
<1>3. CASE files' = [files EXCEPT ![request[h].filename] = Empty] /\ UNCHANGED met
  <2>1. files' \in [Files -> Contents \union {Missing}] /\ SizeInv'
        /\ Exists(request[h].filename)'
    <3>1. Empty \in Contents /\ \A b \in Bytes : Empty.data[b] = Hole
      BY EmptyTyped DEF Empty
    <3>2. request' = request
      BY <1>1 DEF StepTo
    <3> QED BY <1>1, <1>2, <1>3, <3>1, <3>2, FileTyped DEF Exists
  <2>2. RightAt(h)'
    BY <1>1, <2>1, Went, MarksAssumption DEF RightAt, At, Exists, Critical, Labels
  <2> QED BY <1>1, <1>2, <1>3, <2>1, <2>2, StepKeeps DEF Critical, Labels
<1>4. CASE Fault(h) /\ UNCHANGED files
  <2>1. SizeInv' /\ files' \in [Files -> Contents \union {Missing}]
    BY <1>1, <1>4 DEF SizeInv, Exists, FSTypeOK
  <2>2. RightAt(h)'
    BY <1>1, <1>4, Went, FaultTyped DEF RightAt, At, Exists, Critical, Labels
  <2> QED BY <1>1, <1>2, <1>4, <2>1, <2>2, StepKeeps DEF Critical, Labels
<1> QED BY <1>3, <1>4 DEF Create

LEMMA ReopenKeeps ==
  ASSUME FSInv, NEW h \in Handlers, Reopen(h)
  PROVE  FSInv'
<1>1. FSTypeOK /\ SizeInv /\ RightAt(h) /\ At(h, "reopen") /\ files' = files
  BY InvByHandler DEF Reopen
<1>2. pc[h] \in Critical
  BY <1>1 DEF At, Critical, Labels
<1>3. SizeInv' /\ files' \in [Files -> Contents \union {Missing}]
  BY <1>1 DEF SizeInv, Exists, FSTypeOK
<1>4. CASE Fail(h)
  BY <1>1, <1>2, <1>4, FailKeeps DEF Reopen
<1>5. CASE Exists(request[h].filename) /\ Attach(h) /\ StepTo(h, "measure") /\ UNCHANGED met
  <2>1. RightAt(h)'
    BY <1>1, <1>5, Went, StreamOf, MarksAssumption
    DEF RightAt, At, Exists, Critical, Labels
  <2> QED BY <1>1, <1>2, <1>3, <1>5, <2>1, StepKeeps DEF Critical, Labels
<1> QED BY <1>4, <1>5 DEF Reopen

LEMMA MeasureKeeps ==
  ASSUME FSInv, NEW h \in Handlers, Measure(h)
  PROVE  FSInv'
<1>1. FSTypeOK /\ SizeInv /\ RightAt(h) /\ At(h, "measure") /\ files' = files /\ met' = met
  BY InvByHandler DEF Measure
<1>2. pc[h] \in Critical /\ file[h] # Shut
  BY <1>1 DEF At, Critical, Labels, RightAt
<1>3. SizeInv' /\ files' \in [Files -> Contents \union {Missing}]
  BY <1>1 DEF SizeInv, Exists, FSTypeOK
<1>4. CASE Close(h) /\ StepTo(h, "append")
  <2>1. RightAt(h)'
    BY <1>1, <1>4, Went, StreamOf, MarksAssumption
    DEF RightAt, At, Exists, Critical, Labels
  <2> QED BY <1>1, <1>2, <1>3, <1>4, <2>1, StepKeeps DEF Critical, Labels
<1>5. CASE StepTo(h, "write") /\ UNCHANGED file
  <2>1. RightAt(h)'
    BY <1>1, <1>2, <1>5, Went DEF RightAt, At, Exists, Critical, Labels
  <2> QED BY <1>1, <1>2, <1>3, <1>5, <2>1, StepKeeps DEF Critical, Labels
<1> QED BY <1>4, <1>5 DEF Measure


\* Another zero at the end of a file.
LEMMA AppendedFits ==
  ASSUME FSTypeOK, SizeInv, NEW f \in Files
  PROVE  /\ Appended(f) \in Contents
         /\ \A b \in Bytes : b >= Appended(f).size => Appended(f).data[b] = Hole
<1>1. Appended(f) \in Contents
  BY AppendedTyped
<1>2. CASE Exists(f)
  <2>1. files[f] \in Contents /\ files[f].size \in Nat
    BY <1>2 DEF FSTypeOK, Exists, Contents
  <2>2. Appended(f).size = files[f].size + 1 /\ Appended(f).data = files[f].data
    BY <1>2, <2>1 DEF Appended, Contents
  <2>3. ASSUME NEW b \in Bytes, b >= files[f].size + 1
        PROVE  b >= files[f].size
    BY <2>1, <2>3, FSBytesAssumption
  <2> QED BY <1>1, <1>2, <2>2, <2>3 DEF SizeInv
<1>3. CASE ~Exists(f)
  BY <1>1, <1>3 DEF Appended, Empty
<1> QED BY <1>2, <1>3

LEMMA AppendKeeps ==
  ASSUME FSInv, NEW h \in Handlers, Append(h)
  PROVE  FSInv'
<1>1. FSTypeOK /\ SizeInv /\ RightAt(h) /\ At(h, "append") /\ StepTo(h, "resized")
      /\ file' = file
  BY InvByHandler DEF Append
<1>2. pc[h] \in Critical /\ request[h].filename \in Files
  BY <1>1, CallTyped DEF At, Critical, Labels, RightAt, FSTypeOK
<1>3. CASE /\ files' = [files EXCEPT ![request[h].filename] = Appended(request[h].filename)]
           /\ UNCHANGED met
  <2>1. files' \in [Files -> Contents \union {Missing}] /\ SizeInv'
        /\ Exists(request[h].filename)'
    <3>1. request' = request
      BY <1>1 DEF StepTo
    <3> DEFINE content == Appended(request[h].filename)
    <3>2. content \in Contents /\ \A b \in Bytes : b >= content.size => content.data[b] = Hole
      BY <1>1, <1>2, AppendedFits
    <3>3. files' = [files EXCEPT ![request[h].filename] = content]
      BY <1>3
    <3> HIDE DEF content
    <3> QED BY <1>1, <1>2, <3>1, <3>2, <3>3, FileTyped DEF Exists
  <2>2. RightAt(h)'
    BY <1>1, <2>1, Went, MarksAssumption DEF RightAt, At, Exists, Critical, Labels
  <2> QED BY <1>1, <1>2, <1>3, <2>1, <2>2, StepKeeps DEF Critical, Labels
<1>4. CASE Fault(h) /\ UNCHANGED files
  <2>1. SizeInv' /\ files' \in [Files -> Contents \union {Missing}]
    BY <1>1, <1>4 DEF SizeInv, Exists, FSTypeOK
  <2>2. RightAt(h)'
    BY <1>1, <1>4, Went, FaultTyped DEF RightAt, At, Exists, Critical, Labels
  <2> QED BY <1>1, <1>2, <1>4, <2>1, <2>2, StepKeeps DEF Critical, Labels
<1> QED BY <1>3, <1>4 DEF Append

LEMMA OpenResizedKeeps ==
  ASSUME FSInv, NEW h \in Handlers, OpenResized(h)
  PROVE  FSInv'
<1>1. FSTypeOK /\ SizeInv /\ RightAt(h) /\ At(h, "resized") /\ StepTo(h, "write")
      /\ files' = files
  BY InvByHandler DEF OpenResized
<1>2. pc[h] \in Critical
  BY <1>1 DEF At, Critical, Labels
<1>3. SizeInv' /\ files' \in [Files -> Contents \union {Missing}]
  BY <1>1 DEF SizeInv, Exists, FSTypeOK
<1>4. CASE Exists(request[h].filename) /\ Attach(h) /\ UNCHANGED met
  <2>1. RightAt(h)'
    BY <1>1, <1>4, Went, StreamOf, MarksAssumption
    DEF RightAt, At, Exists, Critical, Labels
  <2> QED BY <1>1, <1>2, <1>3, <1>4, <2>1, StepKeeps DEF Critical, Labels
<1>5. CASE /\ (~Exists(request[h].filename) /\ UNCHANGED met) \/ Fault(h)
           /\ UNCHANGED file
  <2>1. RightAt(h)'
    BY <1>1, <1>5, Went, FaultTyped DEF RightAt, At, Exists, Critical, Labels
  <2> QED BY <1>1, <1>2, <1>3, <1>5, <2>1, StepKeeps DEF Critical, Labels
<1> QED BY <1>4, <1>5 DEF OpenResized

\* A call that is answered under the mutex, without a file having come or gone.
LEMMA AnswerKeeps ==
  ASSUME FSInv, NEW h \in Handlers, NEW r \in Responses, pc[h] \in Critical,
         Answer(h, r),
         files' \in [Files -> Contents \union {Missing}], SizeInv',
         Fault(h) \/ UNCHANGED met
  PROVE  FSInv'
<1>1. FSTypeOK /\ RightAt(h)
  BY InvByHandler
<1>2. met' \in [Handlers -> SUBSET {"fault", "deletion"}]
      /\ \A g \in Handlers \ {h} : met'[g] = met[g]
  BY <1>1, FaultTyped DEF FSTypeOK
<1>3. FSTypeOK'
  BY <1>1, <1>2, AnswerTyped
<1>4. \A g \in Handlers \ {h} :
        pc'[g] = pc[g] /\ request'[g] = request[g] /\ file'[g] = file[g]
  BY <1>1 DEF Answer, GoTo, Close, FSTypeOK
<1>5. pc'[h] = "answered" /\ file'[h] = Shut /\ request' = request
  BY <1>1 DEF Answer, GoTo, Close, FSTypeOK
<1>6. request[h] # NoCall
  BY <1>1 DEF RightAt, At, Critical
<1>7. RightAt(h)'
  BY <1>5, <1>6, MarksAssumption DEF RightAt, At, Critical
<1>8. \A g \in Handlers \ {h} : RightAt(g)'
  BY <1>2, <1>4, OthersKeep
<1> QED BY <1>3, <1>7, <1>8, InvByHandlerNext

LEMMA ReadKeeps ==
  ASSUME FSInv, NEW h \in Handlers, Read(h)
  PROVE  FSInv'
<1>1. FSTypeOK /\ SizeInv /\ RightAt(h) /\ At(h, "read") /\ files' = files /\ met' = met
      /\ Answer(h, BytesRead(h, Content(h)))
  BY InvByHandler DEF Read
<1>2. pc[h] \in Critical /\ file[h] # Shut /\ request[h].operation = "READ"
  BY <1>1 DEF At, Critical, Labels, RightAt
<1>3. SizeInv' /\ files' \in [Files -> Contents \union {Missing}]
  BY <1>1 DEF SizeInv, Exists, FSTypeOK
<1>4. BytesRead(h, Content(h)) \in Responses
  BY <1>1, <1>2, ContentTyped, ReadTyped
<1> QED BY <1>1, <1>2, <1>3, <1>4, AnswerKeeps

\* What is written is within the file that it is written to.
LEMMA OverwriteFits ==
  ASSUME NEW content \in Contents, NEW h \in Handlers,
         NEW first \in Bytes, NEW last \in Bytes,
         \A b \in Bytes : b >= content.size => content.data[b] = Hole
  PROVE  LET c == Overwrite(content, first, last, h)
         IN  c \in Contents /\ \A b \in Bytes : b >= c.size => c.data[b] = Hole
<1> DEFINE c == Overwrite(content, first, last, h)
<1>1. c \in Contents
  BY OverwriteTyped
<1>2. content.size \in Nat /\ first \in Nat /\ last \in Nat
  BY FSBytesAssumption DEF Contents
<1>3. c.size >= content.size /\ c.size > last
  BY <1>2 DEF Overwrite
<1>4. ASSUME NEW b \in Bytes, b >= c.size
      PROVE  c.data[b] = Hole
  <2>1. b \in Nat /\ c.size \in Nat
    BY <1>1, FSBytesAssumption DEF Contents
  <2>2. b >= content.size /\ b > last
    <3> HIDE DEF c
    <3> QED BY <1>2, <1>3, <1>4, <2>1
  <2>3. b \notin first..last
    BY <1>2, <2>1, <2>2
  <2>4. c.data[b] = content.data[b]
    BY <2>3 DEF Overwrite
  <2> QED BY <2>2, <2>4
<1> QED BY <1>1, <1>4

LEMMA WriteKeeps ==
  ASSUME FSInv, NEW h \in Handlers, Write(h)
  PROVE  FSInv'
<1> DEFINE r == request[h]
<1>1. FSTypeOK /\ SizeInv /\ RightAt(h) /\ At(h, "write")
  BY InvByHandler DEF Write
<1>2. pc[h] \in Critical /\ r \in Calls /\ r.operation = "WRITE"
  BY <1>1 DEF At, Critical, Labels, RightAt, FSTypeOK
<1>3. r.filename \in Files /\ r.first \in Bytes /\ r.last \in Bytes
  BY <1>2, CallTyped
<1>4. CASE files' = files /\ (Fault(h) \/ UNCHANGED met)
           /\ \E success \in BOOLEAN : Answer(h, Response(success, NoData))
  <2>1. SizeInv' /\ files' \in [Files -> Contents \union {Missing}]
    BY <1>1, <1>4 DEF SizeInv, Exists, FSTypeOK
  <2> QED BY <1>2, <1>4, <2>1, AnswerKeeps, NoDataTyped
<1>5. CASE /\ file[h] = Linked
           /\ files' = [files EXCEPT ![r.filename] = Overwrite(@, r.first, r.last, h)]
           /\ Answer(h, Response(TRUE, NoData))
           /\ UNCHANGED met
  <2>1. files[r.filename] \in Contents /\ Exists(r.filename)
    BY <1>1, <1>3, <1>5 DEF RightAt, FSTypeOK, Exists
  <2> DEFINE content == Overwrite(files[r.filename], r.first, r.last, h)
  <2>2. content \in Contents /\ \A b \in Bytes : b >= content.size => content.data[b] = Hole
    BY <1>1, <1>3, <2>1, OverwriteFits DEF SizeInv
  <2>3. files' = [files EXCEPT ![r.filename] = content]
    BY <1>5
  <2>4. SizeInv' /\ files' \in [Files -> Contents \union {Missing}]
    <3> HIDE DEF content
    <3> QED BY <1>1, <1>3, <2>2, <2>3, FileTyped
  <2> QED BY <1>2, <1>5, <2>4, AnswerKeeps, NoDataTyped
<1> QED BY <1>1, <1>4, <1>5 DEF Write, Fail


\* A step outside the critical section that changes no file and no stream.
LEMMA OutsideKeeps ==
  ASSUME FSInv, NEW h \in Handlers, NEW label \in {"find", "lock", "remove", "answered", "idle"},
         pc[h] \notin Critical,
         GoTo(h, label), UNCHANGED <<files, file_mutex, file>>,
         request' \in [Handlers -> Calls \union {NoCall}],
         response' \in [Handlers -> Responses \union {NoAnswer}],
         met' \in [Handlers -> SUBSET {"fault", "deletion"}],
         \A g \in Handlers \ {h} :
           request'[g] = request[g] /\ response'[g] = response[g] /\ met'[g] = met[g],
         response'[h] # NoAnswer <=> label = "answered",
         label = "idle" <=> request'[h] = NoCall,
         label = "lock" => request'[h].operation \in {"READ", "WRITE"},
         label \in {"find", "remove"} => request'[h].operation = "DELETE"
  PROVE  FSInv'
<1>1. FSTypeOK /\ SizeInv /\ RightAt(h)
  BY InvByHandler
<1>2. pc' = [pc EXCEPT ![h] = label] /\ pc'[h] = label /\ label \in Labels \ Critical
  BY <1>1 DEF GoTo, FSTypeOK, Labels, Critical
<1>3. pc' \in [Handlers -> Labels] /\ \A g \in Handlers \ {h} : pc'[g] = pc[g]
  BY <1>1, <1>2 DEF FSTypeOK
<1>4. FSTypeOK'
  <2>1. \A g \in Handlers : response'[g] # NoAnswer <=> pc'[g] = "answered"
    BY <1>1, <1>2, <1>3 DEF FSTypeOK, At
  <2>2. \A g \in Handlers : pc'[g] \in Critical <=> file_mutex' = g
    BY <1>1, <1>2, <1>3 DEF FSTypeOK
  <2> QED BY <1>1, <1>3, <2>1, <2>2 DEF FSTypeOK, At
<1>5. SizeInv'
  BY <1>1 DEF SizeInv, Exists
<1>6. \A g \in Handlers \ {h} : RightAt(g)'
  BY <1>3, OthersKeep
<1>7. file[h] = Shut
  BY <1>1 DEF RightAt, Critical, Labels
<1>8. RightAt(h)'
  BY <1>2, <1>7, MarksAssumption DEF RightAt, At, Critical, Labels
<1> QED BY <1>4, <1>5, <1>6, <1>8, InvByHandlerNext

LEMMA ReceiveKeeps ==
  ASSUME FSInv, NEW h \in Handlers, NEW r \in Requests[h], Receive(h, r)
  PROVE  FSInv'
<1>1. FSTypeOK /\ RightAt(h) /\ At(h, "idle")
  BY InvByHandler DEF Receive
<1>2. r \in Calls /\ r # NoCall
  BY RequestsAssumption, MarksAssumption
<1>3. r.operation \in {"READ", "WRITE", "DELETE"}
  BY <1>2, CallTyped
<1>4. response[h] = NoAnswer /\ pc[h] \notin Critical
  BY <1>1 DEF FSTypeOK, At, Critical
<1>5. request' \in [Handlers -> Calls \union {NoCall}] /\ request'[h] = r
      /\ \A g \in Handlers \ {h} : request'[g] = request[g]
  BY <1>1, <1>2 DEF Receive, FSTypeOK
<1>6. response' \in [Handlers -> Responses \union {NoAnswer}]
      /\ met' \in [Handlers -> SUBSET {"fault", "deletion"}]
      /\ UNCHANGED <<files, file_mutex, file, response, met>>
  BY <1>1 DEF Receive, FSTypeOK
<1>7. CASE r.operation = "DELETE"
  <2>1. GoTo(h, "find")
    BY <1>7 DEF Receive
  <2> QED BY <1>2, <1>4, <1>5, <1>6, <1>7, <2>1, OutsideKeeps
<1>8. CASE r.operation # "DELETE"
  <2>1. GoTo(h, "lock")
    BY <1>8 DEF Receive
  <2> QED BY <1>2, <1>3, <1>4, <1>5, <1>6, <1>8, <2>1, OutsideKeeps
<1> QED BY <1>7, <1>8

LEMMA SendKeeps ==
  ASSUME FSInv, NEW h \in Handlers, Send(h)
  PROVE  FSInv'
<1>1. FSTypeOK /\ RightAt(h) /\ At(h, "answered")
  BY InvByHandler DEF Send
<1>2. pc[h] \notin Critical
  BY <1>1 DEF At, Critical
<1>3. request' \in [Handlers -> Calls \union {NoCall}] /\ request'[h] = NoCall
      /\ response' \in [Handlers -> Responses \union {NoAnswer}] /\ response'[h] = NoAnswer
      /\ met' \in [Handlers -> SUBSET {"fault", "deletion"}]
  BY <1>1 DEF Send, FSTypeOK
<1>4. \A g \in Handlers \ {h} :
        request'[g] = request[g] /\ response'[g] = response[g] /\ met'[g] = met[g]
  BY <1>1 DEF Send, FSTypeOK
<1>5. GoTo(h, "idle") /\ UNCHANGED <<files, file_mutex, file>>
  BY DEF Send
<1> QED BY <1>2, <1>3, <1>4, <1>5, OutsideKeeps

LEMMA LockKeeps ==
  ASSUME FSInv, NEW h \in Handlers, Lock(h)
  PROVE  FSInv'
<1>1. FSTypeOK /\ SizeInv /\ RightAt(h) /\ At(h, "lock") /\ file_mutex = NoHandler
      /\ file_mutex' = h /\ UNCHANGED <<files, request, file, response, met>>
  BY InvByHandler DEF Lock
<1>2. request[h] # NoCall /\ request[h].operation \in {"READ", "WRITE"}
  BY <1>1 DEF RightAt
<1> DEFINE label == IF request[h].operation = "READ" THEN "exists" ELSE "open"
<1>3. pc' = [pc EXCEPT ![h] = label] /\ label \in Critical /\ label \in Labels
      /\ label \notin {"answered", "idle"}
  BY DEF Lock, GoTo, Critical, Labels
<1>4. pc' \in [Handlers -> Labels] /\ pc'[h] = label
      /\ \A g \in Handlers \ {h} : pc'[g] = pc[g]
  BY <1>1, <1>3 DEF FSTypeOK
<1>5. FSTypeOK'
  <2>1. \A g \in Handlers : response'[g] # NoAnswer <=> pc'[g] = "answered"
    BY <1>1, <1>3, <1>4 DEF FSTypeOK, At
  <2>2. \A g \in Handlers : pc'[g] \in Critical <=> file_mutex' = g
    BY <1>1, <1>3, <1>4, FSHandlersAssumption DEF FSTypeOK
  <2> QED BY <1>1, <1>4, <2>1, <2>2 DEF FSTypeOK, At
<1>6. SizeInv'
  BY <1>1 DEF SizeInv, Exists
<1>7. \A g \in Handlers \ {h} : RightAt(g)'
  BY <1>1, <1>4, OthersKeep
<1>8. file[h] = Shut
  BY <1>1 DEF RightAt, At
<1>9. RightAt(h)'
  BY <1>1, <1>2, <1>4, <1>8, MarksAssumption DEF RightAt, At, Critical, Labels
<1> QED BY <1>5, <1>6, <1>7, <1>9, InvByHandlerNext

\* A deletion that answers without having changed anything.
LEMMA AnswerDeleteKeeps ==
  ASSUME FSInv, NEW h \in Handlers, NEW success \in BOOLEAN,
         pc[h] \in {"find", "remove"}, AnswerDelete(h, success),
         UNCHANGED <<files, file>>, Fault(h) \/ UNCHANGED met
  PROVE  FSInv'
<1>1. FSTypeOK /\ RightAt(h)
  BY InvByHandler
<1>2. pc[h] \notin Critical /\ request[h] # NoCall
  BY <1>1 DEF Critical, RightAt
<1>3. response' \in [Handlers -> Responses \union {NoAnswer}] /\ response'[h] # NoAnswer
      /\ \A g \in Handlers \ {h} : response'[g] = response[g]
  <2>1. Response(success, NoData) \in Responses
    BY NoDataTyped
  <2> QED BY <1>1, <2>1, MarksAssumption DEF AnswerDelete, FSTypeOK
<1>4. met' \in [Handlers -> SUBSET {"fault", "deletion"}]
      /\ \A g \in Handlers \ {h} : met'[g] = met[g]
  BY <1>1, FaultTyped DEF FSTypeOK
<1>5. GoTo(h, "answered") /\ UNCHANGED <<file_mutex, request>>
      /\ request' \in [Handlers -> Calls \union {NoCall}]
  BY <1>1 DEF AnswerDelete, FSTypeOK
<1> QED BY <1>2, <1>3, <1>4, <1>5, OutsideKeeps

LEMMA FindFileKeeps ==
  ASSUME FSInv, NEW h \in Handlers, FindFile(h)
  PROVE  FSInv'
<1>1. FSTypeOK /\ RightAt(h) /\ At(h, "find") /\ UNCHANGED <<files, file, met>>
  BY InvByHandler DEF FindFile
<1>2. CASE StepTo(h, "remove")
  <2>1. pc[h] \notin Critical /\ response[h] = NoAnswer /\ request[h] # NoCall
        /\ request[h].operation = "DELETE"
    BY <1>1 DEF FSTypeOK, At, Critical, RightAt
  <2>2. GoTo(h, "remove") /\ UNCHANGED <<file_mutex, request, response>>
    BY <1>2 DEF StepTo
  <2>3. request' \in [Handlers -> Calls \union {NoCall}]
        /\ response' \in [Handlers -> Responses \union {NoAnswer}]
        /\ met' \in [Handlers -> SUBSET {"fault", "deletion"}]
    BY <1>1, <2>2 DEF FSTypeOK
  <2> QED BY <1>1, <2>1, <2>2, <2>3, OutsideKeeps
<1>3. CASE AnswerDelete(h, FALSE)
  BY <1>1, <1>3, AnswerDeleteKeeps DEF At
<1> QED BY <1>2, <1>3 DEF FindFile

LEMMA RemoveFailsKeeps ==
  ASSUME FSInv, NEW h \in Handlers, RemoveFails(h)
  PROVE  FSInv'
BY AnswerDeleteKeeps DEF RemoveFails, At

LEMMA RemoveNameKeeps ==
  ASSUME FSInv, NEW h \in Handlers, RemoveName(h)
  PROVE  FSInv'
<1> DEFINE f == request[h].filename
           On(g) == request[g] # NoCall /\ request[g].filename = f
<1>1. FSTypeOK /\ SizeInv /\ RightAt(h) /\ At(h, "remove")
      /\ \A g \in Handlers : RightAt(g)
  BY InvByHandler DEF RemoveName
<1>2. request[h] # NoCall /\ f \in Files /\ pc[h] \notin Critical /\ file[h] = Shut
  BY <1>1, CallTyped DEF RightAt, FSTypeOK, At, Critical
<1>3. files' = [files EXCEPT ![f] = Missing] /\ request' = request
      /\ file_mutex' = file_mutex /\ pc' = [pc EXCEPT ![h] = "answered"]
      /\ response' = [response EXCEPT ![h] = Response(TRUE, NoData)]
  BY DEF RemoveName, AnswerDelete, GoTo
<1>4. /\ file' = [g \in Handlers |-> IF On(g) /\ file[g] = Linked THEN files[f] ELSE file[g]]
      /\ met' = [g \in Handlers |->
                   IF On(g) THEN met[g] \union {"deletion"} ELSE met[g]]
  BY DEF RemoveName
<1>5. \A g \in Handlers : file[g] # Shut => request[g] # NoCall
  BY <1>1 DEF RightAt, At
<1>6. \A g \in Handlers : On(g) /\ file[g] = Linked => files[f] \in Contents
  BY <1>1, <1>2 DEF RightAt, Exists, FSTypeOK
<1>7. FSTypeOK'
  <2>1. files' \in [Files -> Contents \union {Missing}]
    BY <1>1, <1>3 DEF FSTypeOK
  <2>2. file' \in [Handlers -> Contents \union {Shut, Linked}]
    BY <1>1, <1>4, <1>6 DEF FSTypeOK
  <2>3. met' \in [Handlers -> SUBSET {"fault", "deletion"}]
    BY <1>1, <1>4 DEF FSTypeOK
  <2>4. Response(TRUE, NoData) \in Responses
    BY NoDataTyped
  <2>5. pc' \in [Handlers -> Labels] /\ response' \in [Handlers -> Responses \union {NoAnswer}]
    BY <1>1, <1>3, <2>4 DEF FSTypeOK, Labels
  <2>6. \A g \in Handlers : response'[g] # NoAnswer <=> pc'[g] = "answered"
    BY <1>1, <1>3, <2>4, MarksAssumption DEF FSTypeOK, At
  <2>7. \A g \in Handlers : pc'[g] \in Critical <=> file_mutex' = g
    BY <1>1, <1>2, <1>3 DEF FSTypeOK, Critical
  <2> QED BY <1>1, <1>3, <2>1, <2>2, <2>3, <2>5, <2>6, <2>7 DEF FSTypeOK, At
<1>8. SizeInv'
  BY <1>1, <1>2, <1>3 DEF SizeInv, Exists, FSTypeOK
<1>9. RightAt(h)'
  <2>1. pc'[h] = "answered" /\ file'[h] = Shut
    BY <1>1, <1>2, <1>3, <1>4, MarksAssumption DEF FSTypeOK
  <2> QED BY <1>2, <1>3, <2>1, MarksAssumption DEF RightAt, At, Critical
<1>10. ASSUME NEW g \in Handlers \ {h}
       PROVE  RightAt(g)'
  <2>1. pc'[g] = pc[g] /\ request'[g] = request[g] /\ RightAt(g)
    BY <1>1, <1>3 DEF FSTypeOK
  <2>2. CASE ~On(g)
    <3>1. file'[g] = file[g] /\ met'[g] = met[g]
      BY <1>4, <2>2
    <3>2. request[g] # NoCall => files'[request[g].filename] = files[request[g].filename]
      BY <1>1, <1>3, <2>2, CallTyped DEF FSTypeOK
    <3> QED BY <1>5, <2>1, <3>1, <3>2, MarksAssumption DEF RightAt, At, Exists, Critical, Labels
  <2>3. CASE On(g)
    <3>1. met'[g] # {} /\ ("fault" \in met[g] => "fault" \in met'[g])
      BY <1>4, <2>3
    <3>2. ~Exists(request[g].filename)'
      BY <1>1, <1>2, <1>3, <2>3 DEF Exists, FSTypeOK
    <3>3. file'[g] # Linked /\ (file'[g] = Shut <=> file[g] = Shut)
      BY <1>4, <1>6, <2>3, MarksAssumption
    <3> QED BY <2>1, <3>1, <3>2, <3>3, MarksAssumption DEF RightAt, At, Exists, Critical, Labels
  <2> QED BY <2>2, <2>3
<1> QED BY <1>7, <1>8, <1>9, <1>10, InvByHandlerNext


LEMMA NextInv == FSInv /\ [FSNext]_fsVars => FSInv'
<1> SUFFICES ASSUME FSInv, [FSNext]_fsVars PROVE FSInv'
  OBVIOUS
<1>1. CASE UNCHANGED fsVars
  <2>1. FSTypeOK'
    BY <1>1 DEF fsVars, FSInv, FSTypeOK, At
  <2>2. CallInv' /\ StreamInv' /\ OrphansAreLast' /\ SizeInv' /\ ReasonInv'
    BY <1>1 DEF fsVars, FSInv, CallInv, StreamInv, OrphansAreLast, SizeInv, ReasonInv,
                Exists, At
  <2> QED BY <2>1, <2>2 DEF FSInv
<1>2. CASE FSNext
  <2> SUFFICES ASSUME NEW h \in Handlers,
                      (\E r \in Requests[h] : Receive(h, r)) \/ Lock(h) \/ Serve(h)
               PROVE  FSInv'
    BY <1>2 DEF FSNext
  <2>1. CASE \E r \in Requests[h] : Receive(h, r)
    BY <2>1, ReceiveKeeps
  <2>2. CASE Lock(h)
    BY <2>2, LockKeeps
  <2>3. CASE Serve(h)
    BY <2>3, ReadExistsKeeps, OpenToReadKeeps, ReadKeeps, OpenToWriteKeeps, CreateKeeps,
       ReopenKeeps, MeasureKeeps, AppendKeeps, OpenResizedKeeps, WriteKeeps, FindFileKeeps,
       RemoveNameKeeps, RemoveFailsKeeps, SendKeeps
    DEF Serve
  <2> QED BY <2>1, <2>2, <2>3
<1> QED BY <1>1, <1>2

\* The invariant of a file server: every handler works on what its step is
\* for, has a stream where it needs one, on the file of that name or on the last
\* one of that name, and nothing lies beyond the end of a file
\* (pfs_fileserver.cpp lines 71-300).
THEOREM FSInvariant == FSSpec => []FSInv
BY InitInv, NextInv, PTL DEF FSSpec

\* The variables have their types, and the handler between the lines that the
\* lock_guard covers is the one that holds file_mutex.
THEOREM FSTyped == FSSpec => []FSTypeOK
<1>1. FSInv => FSTypeOK
  BY DEF FSInv
<1> QED BY <1>1, FSInvariant, PTL

\* A handler that works on a file whose name is gone finds no other file under
\* that name before it has answered.
THEOREM OrphansLast == FSSpec => []OrphansAreLast
<1>1. FSInv => OrphansAreLast
  BY DEF FSInv
<1> QED BY <1>1, FSInvariant, PTL


-----------------------------------------------------------------------------
(* The file server as FileStore sees it.                                    *)

\* A step of h that touches nothing of the other handlers.
Only(h) ==
  /\ \A g \in Handlers \ {h} :
       /\ pc'[g] = pc[g] /\ request'[g] = request[g] /\ file'[g] = file[g]
       /\ response'[g] = response[g]
  /\ files' = files \/ pc[h] \in Critical

\* A call has no answer yet before its last step, unless it is reading or has
\* been overtaken.
LEMMA NoAnswerYet ==
  ASSUME FSTypeOK, NEW h \in Handlers,
         ~At(h, "answered"), ~At(h, "read"), ~Overtaken(h)
  PROVE  AnswerOf(h) = NoAnswer
BY DEF AnswerOf, FSTypeOK

LEMMA OvertakenWhen ==
  ASSUME NEW h \in Handlers, file[h] \in {Shut, Linked} \/ pc[h] \notin {"write", "measure"}
  PROVE  ~Overtaken(h)
BY DEF Overtaken, At

\* The same, after a step.
LEMMA NoAnswerNext ==
  ASSUME FSTypeOK', NEW h \in Handlers, pc'[h] \notin {"answered", "read"},
         file'[h] \in {Shut, Linked} \/ pc'[h] \notin {"write", "measure"}
  PROVE  AnswerOf(h)' = NoAnswer
BY DEF AnswerOf, FSTypeOK, Overtaken, At

LEMMA AnsweredNext ==
  ASSUME NEW h \in Handlers, pc'[h] = "answered"
  PROVE  AnswerOf(h)' = response'[h]
BY DEF AnswerOf, Overtaken, At

\* What h does is not seen in the answers of the others.
LEMMA OthersAnswer ==
  ASSUME FSInv, NEW h \in Handlers, Only(h), NEW g \in Handlers \ {h}
  PROVE  AnswerOf(g)' = AnswerOf(g)
<1>1. FSTypeOK /\ RightAt(g)
  BY InvByHandler
<1>2. CASE files' = files
  BY <1>2 DEF Only, AnswerOf, Overtaken, Grows, Content, BytesRead, At
<1>3. CASE pc[h] \in Critical
  <2>1. pc[g] \notin Critical
    BY <1>1, <1>3 DEF FSTypeOK
  <2>2. pc[g] \notin {"read", "measure", "write"}
    BY <2>1 DEF Critical, Labels
  <2> QED BY <2>2 DEF Only, AnswerOf, Overtaken, At
<1> QED BY <1>2, <1>3 DEF Only

LEMMA AnswersStep ==
  ASSUME FSInv, NEW h \in Handlers, Only(h)
  PROVE  /\ Answers' = [Answers EXCEPT ![h] = AnswerOf(h)']
         /\ Removing' = IF At(h, "remove")' THEN Removing \union {h} ELSE Removing \ {h}
<1>1. \A g \in Handlers \ {h} : AnswerOf(g)' = AnswerOf(g)
  BY OthersAnswer
<1>2. Answers' = [Answers EXCEPT ![h] = AnswerOf(h)']
  BY <1>1 DEF Answers
<1>3. Removing' = IF At(h, "remove")' THEN Removing \union {h} ELSE Removing \ {h}
  BY DEF Removing, Only, At
<1> QED BY <1>2, <1>3

LEMMA AnswersAt == \A h \in Handlers : Answers[h] = AnswerOf(h) /\ (h \in Removing <=> At(h, "remove"))
BY DEF Answers, Removing

\* The same answer as before.
LEMMA AnswersSame ==
  ASSUME FSInv, NEW h \in Handlers, Only(h), AnswerOf(h)' = AnswerOf(h),
         At(h, "remove")' <=> At(h, "remove")
  PROVE  Answers' = Answers /\ Removing' = Removing
<1>1. Answers' = [Answers EXCEPT ![h] = Answers[h]]
  BY AnswersStep, AnswersAt
<1>2. Answers' = Answers
  BY <1>1 DEF Answers
<1>3. Removing' = Removing
  BY AnswersStep, AnswersAt
<1> QED BY <1>2, <1>3

\* A byte of a local file.
Byte(f, b) == IF Exists(f) THEN files[f].data[b] ELSE Hole

LEMMA StorageSeen ==
  ASSUME FSTypeOK, NEW f \in Files
  PROVE  /\ Store!Stored(0, f) <=> Exists(f)
         /\ \A b : Store!ByteAt(0, f, b) = Byte(f, b)
<1>1. LocalFiles[0][f] = IF files[f] = Missing THEN Missing ELSE files[f].data
  BY DEF LocalFiles
<1>2. Exists(f) => files[f].data # Missing
  BY MarksAssumption DEF FSTypeOK, Exists, Contents
<1> QED BY <1>1, <1>2 DEF Store!Stored, Store!ByteAt, Byte, Exists

LEMMA StorageStep ==
  ASSUME FSTypeOK, NEW f \in Files, NEW content \in Contents,
         files' = [files EXCEPT ![f] = content]
  PROVE  LocalFiles' = [LocalFiles EXCEPT ![0][f] = content.data]
<1>1. content # Missing
  BY MarksAssumption
<1>2. files' \in [Files -> Contents \union {Missing}]
  BY DEF FSTypeOK
<1> DEFINE local == [g \in Files |-> IF files[g] = Missing THEN Missing ELSE files[g].data]
<1>3. local' = [local EXCEPT ![f] = content.data]
  BY <1>1, <1>2 DEF FSTypeOK
<1>4. LocalFiles = [s \in {0} |-> local] /\ LocalFiles' = [s \in {0} |-> local']
  BY DEF LocalFiles
<1> HIDE DEF local
<1> QED BY <1>3, <1>4

LEMMA StorageSame == files' = files => LocalFiles' = LocalFiles
BY DEF LocalFiles

LEMMA AnswersDone ==
  /\ Store!Done = Response(TRUE, NoData)
  /\ Store!Failed = Response(FALSE, NoData)
BY DEF Store!Done, Store!Failed, Store!Answer, Store!NoData, Response, NoData


\* Where the steps of a call lead, and that they are its own.
LEMMA StepOnly ==
  ASSUME FSInv, NEW h \in Handlers, NEW label, StepTo(h, label), pc[h] \in Critical,
         Attach(h) \/ Close(h) \/ UNCHANGED file
  PROVE  /\ Only(h)
         /\ pc'[h] = label /\ request' = request /\ response' = response
<1>1. FSTypeOK
  BY DEF FSInv
<1> QED BY <1>1 DEF FSTypeOK, StepTo, GoTo, Attach, Close, Only

LEMMA AnswerOnly ==
  ASSUME FSInv, NEW h \in Handlers, NEW r \in Responses, Answer(h, r), pc[h] \in Critical
  PROVE  /\ Only(h)
         /\ pc'[h] = "answered" /\ request' = request /\ AnswerOf(h)' = r
<1>1. FSTypeOK
  BY DEF FSInv
<1>2. Only(h) /\ pc'[h] = "answered" /\ request' = request /\ response'[h] = r
  BY <1>1 DEF FSTypeOK, Answer, GoTo, Close, Only
<1> QED BY <1>2, AnsweredNext

\* A step that callers do not see.
LEMMA Unseen ==
  ASSUME FSInv, NEW h \in Handlers, Only(h), request' = request, met' = met,
         LocalFiles' = LocalFiles, AnswerOf(h)' = AnswerOf(h),
         At(h, "remove")' <=> At(h, "remove")
  PROVE  UNCHANGED Store!storeVars
BY AnswersSame DEF Store!storeVars

\* A call that gives up: Fails.
LEMMA FailRefines ==
  ASSUME FSInv, NEW h \in Handlers, Fail(h), files' = files,
         pc[h] \in Critical \ {"read"}, ~Overtaken(h),
         Fault(h) \/ (met' = met /\ met[h] # {})
  PROVE  Store!Fails(h)
<1>1. FSTypeOK /\ RightAt(h)
  BY InvByHandler
<1>2. Response(FALSE, NoData) \in Responses
  BY NoDataTyped
<1>3. Only(h) /\ pc'[h] = "answered" /\ request' = request
      /\ AnswerOf(h)' = Response(FALSE, NoData)
  BY <1>2, AnswerOnly DEF Fail
<1>4. AnswerOf(h) = NoAnswer
  BY <1>1, NoAnswerYet DEF Critical, At
<1>5. request[h] # NoCall /\ request[h].operation \in {"READ", "WRITE"}
  BY <1>1 DEF RightAt, Critical, Labels, At
<1>6. Store!Pending(h, "WRITE") \/ Store!Pending(h, "READ")
  BY <1>4, <1>5, AnswersAt DEF Store!Pending
<1>7. Store!Return(h, Store!Failed)
  BY <1>3, AnswersStep, AnswersDone DEF Store!Return
<1>8. h \notin Removing /\ Removing' = Removing \ {h}
  BY <1>3, AnswersStep, AnswersAt DEF At, Critical
<1>9. \/ met[h] # {} /\ h \notin Removing /\ UNCHANGED met
      \/ Store!DiskFails(h)
  BY <1>8 DEF Fault, Store!DiskFails
<1>10. LocalFiles' = LocalFiles
  BY StorageSame
<1> QED BY <1>3, <1>6, <1>7, <1>8, <1>9, <1>10 DEF Store!Fails

\* The disk fails, and the call goes on: Falters.
LEMMA FaultRefines ==
  ASSUME FSInv, FSTypeOK', NEW h \in Handlers, Fault(h), files' = files, Only(h),
         pc[h] \in Critical \ {"read"}, ~Overtaken(h),
         request' = request, pc'[h] \in Critical \ {"read"},
         file'[h] \in {Shut, Linked} \/ pc'[h] \notin {"write", "measure"}
  PROVE  Store!Falters(h)
<1>1. FSTypeOK /\ RightAt(h)
  BY InvByHandler
<1>2. AnswerOf(h) = NoAnswer /\ request[h] # NoCall
  BY <1>1, NoAnswerYet DEF Critical, At, RightAt
<1>3. AnswerOf(h)' = NoAnswer
  BY NoAnswerNext DEF Critical
<1>4. Answers' = Answers /\ Removing' = Removing
  BY <1>2, <1>3, AnswersSame DEF At, Critical
<1>5. LocalFiles' = LocalFiles
  BY StorageSame
<1>6. Store!DiskFails(h)
  BY DEF Fault, Store!DiskFails
<1> QED BY <1>2, <1>4, <1>5, <1>6, AnswersAt DEF Store!Falters

\* A read that has its answer: ReadDone.
LEMMA ReadRefines ==
  ASSUME FSInv, NEW h \in Handlers, Only(h), pc[h] \in {"exists", "open_in"},
         files' = files, request' = request, met' = met, ~At(h, "remove")',
         NEW end \in request[h].first - 1 .. request[h].last,
         \A b \in end + 1 .. request[h].last : Byte(request[h].filename, b) = Hole,
         AnswerOf(h)' = Response(end >= request[h].first,
                                 [b \in request[h].first .. end |->
                                    Byte(request[h].filename, b)])
  PROVE  Store!ReadDone(h)
<1>1. FSTypeOK /\ RightAt(h)
  BY InvByHandler
<1> DEFINE f == request[h].filename
           first == request[h].first
           last == request[h].last
<1>2. request[h] # NoCall /\ request[h].operation = "READ" /\ f \in Files
  BY <1>1, CallTyped DEF RightAt, FSTypeOK
<1>3. AnswerOf(h) = NoAnswer
  BY <1>1, NoAnswerYet, OvertakenWhen DEF At
<1>4. Store!Pending(h, "READ")
  BY <1>2, <1>3, AnswersAt DEF Store!Pending
<1>5. Removing' = Removing
  <2>1. h \notin Removing
    BY AnswersAt DEF At
  <2>2. Removing' = Removing \ {h}
    BY AnswersStep
  <2> QED BY <2>1, <2>2
<1>6. LocalFiles' = LocalFiles
  BY StorageSame
<1>7. \A b : Store!ByteAt(0, f, b) = Byte(f, b)
  BY <1>1, <1>2, StorageSeen
<1>8. Store!Return(h, Store!Answer(end >= first,
                                   [b \in first .. end |-> Store!ByteAt(0, f, b)]))
  <2>1. [b \in first .. end |-> Store!ByteAt(0, f, b)] = [b \in first .. end |-> Byte(f, b)]
    BY <1>7
  <2>2. Answers' = [Answers EXCEPT ![h] = Response(end >= first,
                                            [b \in first .. end |-> Byte(f, b)])]
    BY AnswersStep
  <2> QED BY <2>1, <2>2 DEF Store!Return, Store!Answer, Response
<1>9. \A b \in end + 1 .. last : Store!ByteAt(0, f, b) = Hole
  BY <1>7
<1> QED BY <1>4, <1>5, <1>6, <1>8, <1>9 DEF Store!ReadDone


-----------------------------------------------------------------------------
(* Every step is one of FileStore's, or is not seen.                        *)

LEMMA ReadBounds ==
  ASSUME FSTypeOK, NEW h \in Handlers, RightAt(h), pc[h] \in {"exists", "open_in"}
  PROVE  /\ request[h].filename \in Files
         /\ request[h].first \in Bytes /\ request[h].last \in Bytes
         /\ request[h].first \in Int /\ request[h].last \in Int
         /\ request[h].first <= request[h].last
<1>1. request[h] \in Calls /\ request[h].operation = "READ"
  BY DEF RightAt, FSTypeOK
<1>2. /\ request[h].first \in Bytes /\ request[h].last \in Bytes
      /\ request[h].first <= request[h].last
      /\ request[h].filename \in Files
  BY <1>1, CallTyped
<1>3. \A b \in Bytes : b \in Int
  BY FSBytesAssumption
<1> QED BY <1>2, <1>3

LEMMA ReadExistsRefines ==
  ASSUME FSInv, FSInv', NEW h \in Handlers, ReadExists(h)
  PROVE  Store!ReadDone(h) \/ UNCHANGED Store!storeVars
<1> DEFINE first == request[h].first
           last == request[h].last
           f == request[h].filename
<1>1. FSTypeOK /\ FSTypeOK' /\ RightAt(h) /\ At(h, "exists") /\ files' = files /\ met' = met
  BY InvByHandler DEF ReadExists, FSInv
<1>2. pc[h] \in Critical \ {"read"} /\ ~Overtaken(h)
  BY <1>1, OvertakenWhen DEF At, Critical, Labels
<1>3. CASE Exists(f) /\ StepTo(h, "open_in") /\ UNCHANGED file
  <2>1. Only(h) /\ pc'[h] = "open_in" /\ request' = request
    BY <1>2, <1>3, StepOnly
  <2>2. AnswerOf(h)' = NoAnswer /\ AnswerOf(h) = NoAnswer
    BY <1>1, <1>2, <2>1, NoAnswerNext, NoAnswerYet DEF At
  <2>3. UNCHANGED Store!storeVars
    BY <1>1, <2>1, <2>2, StorageSame, Unseen DEF At
  <2> QED BY <2>3
<1>4. CASE ~Exists(f) /\ Fail(h)
  <2>1. Only(h) /\ pc'[h] = "answered" /\ request' = request
        /\ AnswerOf(h)' = Response(FALSE, NoData)
    BY <1>2, <1>4, NoDataTyped, AnswerOnly DEF Fail
  <2>2. first \in Int /\ last \in Int /\ first <= last
    BY <1>1, ReadBounds DEF At
  <2> DEFINE end == first - 1
  <2>3. end \in first - 1 .. last /\ ~(end >= first)
    BY <2>2
  <2>4. \A b : Byte(f, b) = Hole
    BY <1>4 DEF Byte
  <2>5. [b \in first .. end |-> Byte(f, b)] = NoData
    <3>1. first .. end = {}
      BY <2>2
    <3> QED BY <3>1 DEF NoData
  <2>6. AnswerOf(h)' = Response(end >= first, [b \in first .. end |-> Byte(f, b)])
    <3>1. (end >= first) = FALSE
      BY <2>3
    <3> QED BY <2>1, <2>5, <3>1, Zenon
  <2>7. Store!ReadDone(h)
    BY <1>1, <2>1, <2>3, <2>4, <2>6, ReadRefines DEF At
  <2> QED BY <2>7
<1> QED BY <1>3, <1>4 DEF ReadExists

\* What Read will return is decided when the file is opened.
LEMMA OpenToReadRefines ==
  ASSUME FSInv, FSInv', NEW h \in Handlers, OpenToRead(h)
  PROVE  Store!ReadDone(h) \/ Store!Fails(h)
<1> DEFINE first == request[h].first
           last == request[h].last
           f == request[h].filename
<1>1. FSTypeOK /\ SizeInv /\ RightAt(h) /\ At(h, "open_in") /\ files' = files
  BY InvByHandler DEF OpenToRead
<1>2. pc[h] \in Critical \ {"read"} /\ ~Overtaken(h)
  BY <1>1, OvertakenWhen DEF At, Critical, Labels
<1>3. CASE Exists(f) /\ Attach(h) /\ StepTo(h, "read") /\ UNCHANGED met
  <2>1. Only(h) /\ pc'[h] = "read" /\ request' = request
    BY <1>2, <1>3, StepOnly
  <2>2. file'[h] = Linked
    BY <1>1, <1>3, StreamOf
  <2>3. f \in Files /\ first \in Int /\ last \in Int /\ first <= last
        /\ first \in Bytes /\ last \in Bytes
    BY <1>1, ReadBounds DEF At
  <2> DEFINE size == files[f].size
             reads == IF last < size THEN last ELSE size - 1
             end == IF reads >= first - 1 THEN reads ELSE first - 1
  <2>4. files[f] \in Contents /\ size \in Nat
    BY <1>1, <1>3, <2>3 DEF FSTypeOK, Exists, Contents
  <2>5. AnswerOf(h)' = Response(reads >= first, [b \in first .. reads |-> files[f].data[b]])
    BY <1>1, <2>1, <2>2 DEF AnswerOf, At, BytesRead, Content
  <2>6. end \in first - 1 .. last /\ (reads >= first) = (end >= first)
        /\ first .. reads = first .. end
    <3> HIDE DEF size, first, last
    <3> QED BY <2>3, <2>4
  <2>7. Byte(f, 0) = files[f].data[0] /\ \A b : Byte(f, b) = files[f].data[b]
    BY <1>3 DEF Byte
  <2>8. AnswerOf(h)' = Response(end >= first, [b \in first .. end |-> Byte(f, b)])
    <3>1. [b \in first .. reads |-> files[f].data[b]] = [b \in first .. end |-> Byte(f, b)]
      BY <2>6, <2>7
    <3> HIDE DEF reads, end, first, f
    <3> QED BY <2>5, <2>6, <3>1, Zenon
  <2>9. ASSUME NEW b \in end + 1 .. last
        PROVE  Byte(f, b) = Hole
    <3>1. b >= size /\ b \in first .. last
      <4> HIDE DEF size, first, last
      <4> QED BY <2>3, <2>4
    <3>2. b \in Bytes
      <4> HIDE DEF first, last
      <4> QED BY <2>3, <3>1, FSBytesAssumption
    <3> QED BY <1>1, <1>3, <2>3, <2>7, <3>1, <3>2 DEF SizeInv
  <2>10. Store!ReadDone(h)
    <3> HIDE DEF end
    <3> QED BY <1>1, <1>3, <2>1, <2>6, <2>8, <2>9, ReadRefines DEF At
  <2> QED BY <2>10
<1>4. CASE ~Exists(f) /\ Fail(h) /\ UNCHANGED met
  BY <1>1, <1>2, <1>4, FailRefines DEF RightAt, At
<1>5. CASE Fault(h) /\ Fail(h)
  BY <1>1, <1>2, <1>5, FailRefines
<1> QED BY <1>3, <1>4, <1>5 DEF OpenToRead

LEMMA ReadDoneRefines ==
  ASSUME FSInv, NEW h \in Handlers, Read(h)
  PROVE  UNCHANGED Store!storeVars
<1>1. FSTypeOK /\ RightAt(h) /\ At(h, "read") /\ files' = files /\ met' = met
      /\ Answer(h, BytesRead(h, Content(h)))
  BY InvByHandler DEF Read
<1>2. pc[h] \in Critical /\ file[h] # Shut /\ request[h].operation = "READ"
  BY <1>1 DEF At, Critical, Labels, RightAt
<1>3. BytesRead(h, Content(h)) \in Responses
  BY <1>1, <1>2, ContentTyped, ReadTyped
<1>4. Only(h) /\ pc'[h] = "answered" /\ request' = request
      /\ AnswerOf(h)' = BytesRead(h, Content(h))
  BY <1>1, <1>2, <1>3, AnswerOnly
<1>5. AnswerOf(h) = BytesRead(h, Content(h))
  BY <1>1 DEF AnswerOf
<1> QED BY <1>1, <1>4, <1>5, StorageSame, Unseen DEF At

LEMMA OpenToWriteRefines ==
  ASSUME FSInv, FSInv', NEW h \in Handlers, OpenToWrite(h)
  PROVE  Store!Falters(h) \/ UNCHANGED Store!storeVars
<1>1. FSTypeOK /\ FSTypeOK' /\ At(h, "open") /\ files' = files
  BY DEF OpenToWrite, FSInv
<1>2. pc[h] \in Critical \ {"read"} /\ ~Overtaken(h) /\ AnswerOf(h) = NoAnswer
  BY <1>1, OvertakenWhen, NoAnswerYet DEF At, Critical, Labels
<1>3. CASE Attach(h) /\ StepTo(h, "measure") /\ UNCHANGED met
  <2>1. Only(h) /\ pc'[h] = "measure" /\ request' = request /\ file'[h] = Linked
    BY <1>1, <1>2, <1>3, StepOnly, StreamOf
  <2>2. AnswerOf(h)' = NoAnswer
    BY <1>1, <2>1, NoAnswerNext
  <2> QED BY <1>1, <1>2, <1>3, <2>1, <2>2, StorageSame, Unseen DEF At
<1>4. CASE StepTo(h, "create") /\ UNCHANGED <<file, met>>
  <2>1. Only(h) /\ pc'[h] = "create" /\ request' = request
    BY <1>2, <1>4, StepOnly
  <2>2. AnswerOf(h)' = NoAnswer
    BY <1>1, <2>1, NoAnswerNext
  <2> QED BY <1>1, <1>2, <1>4, <2>1, <2>2, StorageSame, Unseen DEF At
<1>5. CASE Fault(h) /\ StepTo(h, "create") /\ UNCHANGED file
  <2>1. Only(h) /\ pc'[h] = "create" /\ request' = request
    BY <1>2, <1>5, StepOnly
  <2> QED BY <1>1, <1>2, <1>5, <2>1, FaultRefines DEF Critical, Labels
<1> QED BY <1>3, <1>4, <1>5 DEF OpenToWrite

\* A file of zeros in the place of none.
LEMMA CreatesRefines ==
  ASSUME FSInv, FSInv', NEW h \in Handlers, Only(h), pc[h] \in {"create", "append"},
         request' = request, met' = met, pc'[h] \in {"reopen", "resized"},
         NEW content \in Contents, content.data = [b \in Bytes |-> Hole],
         files' = [files EXCEPT ![request[h].filename] = content]
  PROVE  /\ ~Exists(request[h].filename) => Store!WriteCreates(h)
         /\ "fault" \in met[h] => Store!WriteErases(h)
<1> DEFINE f == request[h].filename
<1>1. FSTypeOK /\ FSTypeOK' /\ RightAt(h)
  BY InvByHandler DEF FSInv
<1>2. request[h] # NoCall /\ request[h].operation = "WRITE" /\ f \in Files
  BY <1>1, CallTyped DEF RightAt, FSTypeOK, Critical, Labels
<1>3. AnswerOf(h) = NoAnswer /\ AnswerOf(h)' = NoAnswer
  BY <1>1, OvertakenWhen, NoAnswerYet, NoAnswerNext DEF At
<1>4. Answers' = Answers /\ Removing' = Removing
  BY <1>3, AnswersSame DEF At
<1>5. Store!Pending(h, "WRITE")
  BY <1>2, <1>3, AnswersAt DEF Store!Pending
<1>6. LocalFiles' = [LocalFiles EXCEPT ![0][f] = [b \in Bytes |-> Hole]]
  BY <1>1, <1>2, StorageStep
<1>7. ASSUME ~Exists(f)
      PROVE  Store!WriteCreates(h)
  <2>1. ~Store!Stored(0, f)
    BY <1>1, <1>2, <1>7, StorageSeen
  <2>2. [b \in Bytes |-> IF b \in {} THEN h ELSE Store!ByteAt(0, f, b)]
        = [b \in Bytes |-> Hole]
    BY <2>1 DEF Store!ByteAt
  <2>3. Store!WriteFile(0, f, {}, h)
    BY <1>6, <2>2 DEF Store!WriteFile
  <2> QED BY <1>4, <1>5, <2>1, <2>3 DEF Store!WriteCreates
<1>8. ASSUME "fault" \in met[h]
      PROVE  Store!WriteErases(h)
  BY <1>4, <1>5, <1>6, <1>8 DEF Store!WriteErases
<1> QED BY <1>7, <1>8

LEMMA CreateRefines ==
  ASSUME FSInv, FSInv', NEW h \in Handlers, Create(h)
  PROVE  Store!WriteCreates(h) \/ Store!WriteErases(h) \/ Store!Falters(h)
<1>1. FSTypeOK /\ FSTypeOK' /\ RightAt(h) /\ At(h, "create") /\ StepTo(h, "reopen")
      /\ file' = file
  BY InvByHandler DEF Create, FSInv
<1>2. pc[h] \in Critical \ {"read"} /\ ~Overtaken(h)
  BY <1>1, OvertakenWhen DEF At, Critical, Labels
<1>3. Only(h) /\ pc'[h] = "reopen" /\ request' = request
  BY <1>1, <1>2, StepOnly
<1>4. CASE files' = [files EXCEPT ![request[h].filename] = Empty] /\ UNCHANGED met
  <2>1. Empty \in Contents /\ Empty.data = [b \in Bytes |-> Hole]
    BY EmptyTyped DEF Empty
  <2>2. ~Exists(request[h].filename) \/ "fault" \in met[h]
    BY <1>1 DEF RightAt
  <2> QED BY <1>1, <1>3, <1>4, <2>1, <2>2, CreatesRefines DEF At
<1>5. CASE Fault(h) /\ UNCHANGED files
  BY <1>1, <1>2, <1>3, <1>5, FaultRefines DEF Critical, Labels
<1> QED BY <1>4, <1>5 DEF Create

LEMMA ReopenRefines ==
  ASSUME FSInv, FSInv', NEW h \in Handlers, Reopen(h)
  PROVE  Store!Fails(h) \/ UNCHANGED Store!storeVars
<1>1. FSTypeOK /\ FSTypeOK' /\ RightAt(h) /\ At(h, "reopen") /\ files' = files
  BY InvByHandler DEF Reopen, FSInv
<1>2. pc[h] \in Critical \ {"read"} /\ ~Overtaken(h) /\ AnswerOf(h) = NoAnswer
  BY <1>1, OvertakenWhen, NoAnswerYet DEF At, Critical, Labels
<1>3. CASE Attach(h) /\ StepTo(h, "measure") /\ UNCHANGED met
  <2>1. Only(h) /\ pc'[h] = "measure" /\ request' = request /\ file'[h] = Linked
    BY <1>1, <1>2, <1>3, StepOnly, StreamOf
  <2>2. AnswerOf(h)' = NoAnswer
    BY <1>1, <2>1, NoAnswerNext
  <2> QED BY <1>1, <1>2, <1>3, <2>1, <2>2, StorageSame, Unseen DEF At
<1>4. CASE ~Exists(request[h].filename) /\ Fail(h) /\ UNCHANGED met
  BY <1>1, <1>2, <1>4, FailRefines DEF RightAt, At
<1>5. CASE Fault(h) /\ Fail(h)
  BY <1>1, <1>2, <1>5, FailRefines
<1> QED BY <1>3, <1>4, <1>5 DEF Reopen


LEMMA MeasureRefines ==
  ASSUME FSInv, FSInv', NEW h \in Handlers, Measure(h)
  PROVE  UNCHANGED Store!storeVars
<1>1. FSTypeOK /\ FSTypeOK' /\ RightAt(h) /\ At(h, "measure") /\ files' = files
      /\ met' = met
  BY InvByHandler DEF Measure, FSInv
<1>2. pc[h] \in Critical \ {"read"} /\ response[h] = NoAnswer
  BY <1>1 DEF At, Critical, Labels, FSTypeOK
<1>3. CASE Grows(h) /\ Close(h) /\ StepTo(h, "append")
  <2>1. Only(h) /\ pc'[h] = "append" /\ request' = request
    BY <1>2, <1>3, StepOnly
  <2>2. AnswerOf(h) = NoAnswer
    BY <1>1, <1>3, NoAnswerYet DEF Overtaken, At
  <2>3. AnswerOf(h)' = NoAnswer
    BY <1>1, <2>1, NoAnswerNext
  <2> QED BY <1>1, <2>1, <2>2, <2>3, StorageSame, Unseen DEF At
<1>4. CASE ~Grows(h) /\ StepTo(h, "write") /\ UNCHANGED file
  <2>1. Only(h) /\ pc'[h] = "write" /\ request' = request /\ response' = response
    BY <1>2, <1>4, StepOnly
  <2>2. AnswerOf(h)' = AnswerOf(h)
    BY <1>1, <1>4, <2>1 DEF AnswerOf, Overtaken, At
  <2> QED BY <1>1, <2>1, <2>2, StorageSame, Unseen DEF At
<1> QED BY <1>3, <1>4 DEF Measure

LEMMA AppendRefines ==
  ASSUME FSInv, FSInv', NEW h \in Handlers, Append(h)
  PROVE  Store!WriteCreates(h) \/ Store!Falters(h) \/ UNCHANGED Store!storeVars
<1> DEFINE f == request[h].filename
<1>1. FSTypeOK /\ FSTypeOK' /\ RightAt(h) /\ At(h, "append") /\ StepTo(h, "resized")
      /\ file' = file
  BY InvByHandler DEF Append, FSInv
<1>2. pc[h] \in Critical \ {"read"} /\ ~Overtaken(h) /\ f \in Files
  BY <1>1, OvertakenWhen, CallTyped DEF At, Critical, Labels, RightAt, FSTypeOK
<1>3. Only(h) /\ pc'[h] = "resized" /\ request' = request
  BY <1>1, <1>2, StepOnly
<1>4. CASE files' = [files EXCEPT ![f] = Appended(f)] /\ UNCHANGED met /\ ~Exists(f)
  <2>1. Appended(f) \in Contents /\ Appended(f).data = [b \in Bytes |-> Hole]
    BY <1>1, <1>2, <1>4, AppendedTyped DEF Appended, Empty
  <2> QED BY <1>1, <1>3, <1>4, <2>1, CreatesRefines DEF At
<1>5. CASE files' = [files EXCEPT ![f] = Appended(f)] /\ UNCHANGED met /\ Exists(f)
  <2>1. Appended(f).data = files[f].data /\ Appended(f) \in Contents
    BY <1>1, <1>2, <1>5, AppendedTyped DEF Appended, FSTypeOK, Exists, Contents
  <2>2. LocalFiles' = [LocalFiles EXCEPT ![0][f] = files[f].data]
    <3> DEFINE content == Appended(f)
    <3>1. content \in Contents /\ content.data = files[f].data
          /\ files' = [files EXCEPT ![f] = content]
      BY <1>5, <2>1
    <3> HIDE DEF content
    <3>2. LocalFiles' = [LocalFiles EXCEPT ![0][f] = content.data]
      BY <1>1, <1>2, <3>1, StorageStep
    <3> QED BY <3>1, <3>2
  <2>3. LocalFiles[0][f] = files[f].data
    BY <1>2, <1>5 DEF LocalFiles, Exists
  <2>4. LocalFiles' = LocalFiles
    <3> DEFINE local == [g \in Files |-> IF files[g] = Missing THEN Missing ELSE files[g].data]
               d == files[f].data
    <3>1. LocalFiles = [s \in {0} |-> local] /\ local[f] = d
      BY <2>3 DEF LocalFiles
    <3>2. [local EXCEPT ![f] = d] = local
      BY <3>1
    <3>3. LocalFiles' = [LocalFiles EXCEPT ![0][f] = d]
      BY <2>2
    <3> HIDE DEF local, d
    <3> QED BY <3>1, <3>2, <3>3
  <2>5. AnswerOf(h) = NoAnswer /\ AnswerOf(h)' = NoAnswer
    BY <1>1, <1>2, <1>3, NoAnswerYet, NoAnswerNext DEF At
  <2> QED BY <1>1, <1>3, <1>5, <2>4, <2>5, Unseen DEF At
<1>6. CASE Fault(h) /\ UNCHANGED files
  BY <1>1, <1>2, <1>3, <1>6, FaultRefines DEF Critical, Labels
<1> QED BY <1>4, <1>5, <1>6 DEF Append

LEMMA OpenResizedRefines ==
  ASSUME FSInv, FSInv', NEW h \in Handlers, OpenResized(h)
  PROVE  Store!Falters(h) \/ UNCHANGED Store!storeVars
<1>1. FSTypeOK /\ FSTypeOK' /\ RightAt(h) /\ At(h, "resized") /\ StepTo(h, "write")
      /\ files' = files
  BY InvByHandler DEF OpenResized, FSInv
<1>2. pc[h] \in Critical \ {"read"} /\ ~Overtaken(h) /\ AnswerOf(h) = NoAnswer
      /\ file[h] = Shut
  BY <1>1, OvertakenWhen, NoAnswerYet DEF At, Critical, Labels, RightAt
<1>3. Attach(h) \/ UNCHANGED file
  BY DEF OpenResized
<1>4. file'[h] \in {Shut, Linked}
  BY <1>1, <1>2, <1>3, StreamOf
<1>5. Only(h) /\ pc'[h] = "write" /\ request' = request
  BY <1>1, <1>2, <1>3, StepOnly
<1>6. AnswerOf(h)' = NoAnswer
  BY <1>1, <1>4, <1>5, NoAnswerNext
<1>7. CASE UNCHANGED met
  BY <1>1, <1>2, <1>5, <1>6, <1>7, StorageSame, Unseen DEF At
<1>8. CASE Fault(h)
  BY <1>1, <1>2, <1>4, <1>5, <1>8, FaultRefines DEF Critical, Labels
<1> QED BY <1>7, <1>8 DEF OpenResized

LEMMA WriteRefines ==
  ASSUME FSInv, FSInv', NEW h \in Handlers, Write(h)
  PROVE  Store!Fails(h) \/ Store!WriteDone(h) \/ Store!Falters(h)
         \/ UNCHANGED Store!storeVars
<1> DEFINE r == request[h]
<1>1. FSTypeOK /\ RightAt(h) /\ At(h, "write")
  BY InvByHandler DEF Write
<1>2. pc[h] \in Critical \ {"read"} /\ r \in Calls /\ r.operation = "WRITE" /\ r # NoCall
  BY <1>1 DEF At, Critical, Labels, RightAt, FSTypeOK
<1>3. r.filename \in Files /\ r.first \in Bytes /\ r.last \in Bytes
  BY <1>2, CallTyped
<1>4. Answer(h, Response(TRUE, NoData)) =>
        Only(h) /\ request' = request /\ AnswerOf(h)' = Response(TRUE, NoData)
        /\ pc'[h] = "answered"
  BY <1>2, NoDataTyped, AnswerOnly
<1>5. CASE file[h] = Shut /\ Fail(h) /\ UNCHANGED <<files, met>>
  <2>1. met[h] # {} /\ ~Overtaken(h)
    BY <1>1, <1>5, OvertakenWhen DEF RightAt, At
  <2> QED BY <1>2, <1>5, <2>1, FailRefines
<1>6. ASSUME file[h] = Linked, Answer(h, Response(TRUE, NoData))
      PROVE  /\ Store!Pending(h, "WRITE") /\ AnswerOf(h) = NoAnswer
             /\ Answers' = [Answers EXCEPT ![h] = Store!Done]
             /\ Removing' = Removing
  <2>1. AnswerOf(h) = NoAnswer
    BY <1>1, <1>6, OvertakenWhen, NoAnswerYet DEF At
  <2>2. Store!Pending(h, "WRITE")
    BY <1>2, <2>1, AnswersAt DEF Store!Pending
  <2>3. Answers' = [Answers EXCEPT ![h] = Store!Done]
    BY <1>4, <1>6, AnswersStep, AnswersDone
  <2>4. h \notin Removing
    BY <1>1, AnswersAt DEF At
  <2>5. Removing' = Removing \ {h}
    BY <1>4, <1>6, AnswersStep DEF At
  <2> QED BY <2>1, <2>2, <2>3, <2>4, <2>5
<1>7. CASE /\ file[h] = Linked
           /\ files' = [files EXCEPT ![r.filename] = Overwrite(@, r.first, r.last, h)]
           /\ Answer(h, Response(TRUE, NoData))
           /\ UNCHANGED met
  <2> DEFINE f == r.filename
             content == Overwrite(files[f], r.first, r.last, h)
  <2>1. Exists(f) /\ files[f] \in Contents
    BY <1>1, <1>3, <1>7 DEF RightAt, FSTypeOK, Exists
  <2>2. content \in Contents /\ files' = [files EXCEPT ![f] = content]
    BY <1>3, <1>7, <2>1, OverwriteTyped
  <2>3. content.data = [b \in Bytes |-> IF b \in r.first .. r.last THEN h
                                        ELSE Store!ByteAt(0, f, b)]
    <3>1. \A b : Store!ByteAt(0, f, b) = files[f].data[b]
      BY <1>1, <1>3, <2>1, StorageSeen DEF Byte
    <3> QED BY <3>1 DEF Overwrite
  <2>4. LocalFiles' = [LocalFiles EXCEPT ![0][f] = content.data]
    <3> HIDE DEF content
    <3> QED BY <1>1, <1>3, <2>2, StorageStep
  <2>5. Store!WriteFile(0, f, r.first .. r.last, h)
    BY <2>3, <2>4 DEF Store!WriteFile
  <2> QED BY <1>4, <1>6, <1>7, <2>5 DEF Store!WriteDone, Store!Return
<1>8. CASE /\ file[h] \notin {Shut, Linked}
           /\ Answer(h, Response(TRUE, NoData))
           /\ UNCHANGED <<files, met>>
  <2>1. AnswerOf(h) = Response(TRUE, NoData)
    BY <1>1, <1>8 DEF AnswerOf, Overtaken, At
  <2> QED BY <1>1, <1>4, <1>8, <2>1, StorageSame, Unseen DEF At
<1>9. CASE /\ file[h] = Linked
           /\ Fault(h)
           /\ Answer(h, Response(TRUE, NoData))
           /\ UNCHANGED files
  <2>1. Store!DiskFails(h) /\ LocalFiles' = LocalFiles
    BY <1>9, StorageSame DEF Fault, Store!DiskFails
  <2> QED BY <1>2, <1>4, <1>6, <1>9, <2>1, AnswersAt DEF Store!Falters, Store!Return
<1> QED BY <1>5, <1>7, <1>8, <1>9 DEF Write


\* A step outside the critical section, of h alone.
LEMMA OutsideOnly ==
  ASSUME FSTypeOK, NEW h \in Handlers, NEW label, GoTo(h, label), UNCHANGED <<files, file>>,
         \A g \in Handlers \ {h} : request'[g] = request[g] /\ response'[g] = response[g]
  PROVE  Only(h) /\ pc'[h] = label
BY DEF GoTo, Only, FSTypeOK

LEMMA ReceiveRefines ==
  ASSUME FSInv, FSInv', NEW h \in Handlers, NEW r \in Requests[h], Receive(h, r)
  PROVE  Store!Call(h, r)
<1>1. FSTypeOK /\ FSTypeOK' /\ RightAt(h) /\ At(h, "idle")
      /\ UNCHANGED <<files, file, response, met>> /\ request' = [request EXCEPT ![h] = r]
  BY InvByHandler DEF FSInv, Receive
<1>2. GoTo(h, "find") \/ GoTo(h, "lock")
  BY DEF Receive
<1>3. \A g \in Handlers \ {h} : request'[g] = request[g] /\ response'[g] = response[g]
  BY <1>1 DEF FSTypeOK
<1>4. Only(h) /\ pc'[h] \in {"find", "lock"}
  BY <1>1, <1>2, <1>3, OutsideOnly
<1>5. AnswerOf(h)' = NoAnswer /\ AnswerOf(h) = NoAnswer
  BY <1>1, <1>4, NoAnswerNext, NoAnswerYet, OvertakenWhen DEF At
<1>6. Answers' = Answers /\ Removing' = Removing
  BY <1>1, <1>4, <1>5, AnswersSame DEF At
<1>7. request[h] = NoCall /\ LocalFiles' = LocalFiles
  BY <1>1, StorageSame DEF RightAt
<1> QED BY <1>1, <1>6, <1>7 DEF Store!Call

LEMMA SendRefines ==
  ASSUME FSInv, FSInv', NEW h \in Handlers, Send(h)
  PROVE  Store!Reply(h)
<1>1. FSTypeOK /\ FSTypeOK' /\ RightAt(h) /\ At(h, "answered") /\ UNCHANGED <<files, file>>
      /\ request' = [request EXCEPT ![h] = NoCall]
      /\ response' = [response EXCEPT ![h] = NoAnswer]
      /\ met' = [met EXCEPT ![h] = {}] /\ GoTo(h, "idle")
  BY InvByHandler DEF FSInv, Send
<1>2. \A g \in Handlers \ {h} : request'[g] = request[g] /\ response'[g] = response[g]
  BY <1>1 DEF FSTypeOK
<1>3. Only(h) /\ pc'[h] = "idle"
  BY <1>1, <1>2, OutsideOnly
<1>4. AnswerOf(h)' = NoAnswer
  BY <1>1, <1>3, NoAnswerNext
<1>5. AnswerOf(h) # NoAnswer
  BY <1>1 DEF AnswerOf, Overtaken, FSTypeOK, At
<1>6. Answers' = [Answers EXCEPT ![h] = NoAnswer]
  BY <1>3, <1>4, AnswersStep
<1>7. Removing' = Removing
  <2>1. h \notin Removing /\ Removing' = Removing \ {h}
    BY <1>1, <1>3, AnswersStep, AnswersAt DEF At
  <2> QED BY <2>1
<1>8. request[h] # NoCall /\ LocalFiles' = LocalFiles
  BY <1>1, StorageSame DEF RightAt, At
<1> QED BY <1>1, <1>5, <1>6, <1>7, <1>8, AnswersAt DEF Store!Reply, Store!Return

LEMMA LockRefines ==
  ASSUME FSInv, FSInv', NEW h \in Handlers, Lock(h)
  PROVE  UNCHANGED Store!storeVars
<1>1. FSTypeOK /\ FSTypeOK' /\ At(h, "lock") /\ UNCHANGED <<files, request, file, response, met>>
  BY DEF FSInv, Lock
<1>2. GoTo(h, "exists") \/ GoTo(h, "open")
  BY DEF Lock
<1>3. Only(h) /\ pc'[h] \in {"exists", "open"}
  BY <1>1, <1>2, OutsideOnly
<1>4. AnswerOf(h)' = NoAnswer /\ AnswerOf(h) = NoAnswer
  BY <1>1, <1>3, NoAnswerNext, NoAnswerYet, OvertakenWhen DEF At
<1> QED BY <1>1, <1>3, <1>4, StorageSame, Unseen DEF At

\* What a deletion is asked, before its answer.
LEMMA DeletePending ==
  ASSUME FSInv, NEW h \in Handlers, pc[h] \in {"find", "remove"}
  PROVE  /\ request[h] # NoCall /\ request[h].filename \in Files
         /\ AnswerOf(h) = NoAnswer
         /\ Store!Pending(h, "DELETE")
<1>1. FSTypeOK /\ RightAt(h)
  BY InvByHandler
<1>2. request[h] # NoCall /\ request[h].operation = "DELETE" /\ request[h].filename \in Files
  BY <1>1, CallTyped DEF RightAt, FSTypeOK
<1>3. AnswerOf(h) = NoAnswer
  BY <1>1, NoAnswerYet, OvertakenWhen DEF At
<1> QED BY <1>2, <1>3, AnswersAt DEF Store!Pending

LEMMA FindFileRefines ==
  ASSUME FSInv, FSInv', NEW h \in Handlers, FindFile(h)
  PROVE  Store!DeleteFinds(h) \/ Store!DeleteMisses(h)
<1> DEFINE f == request[h].filename
<1>1. FSTypeOK /\ FSTypeOK' /\ At(h, "find") /\ UNCHANGED <<files, file, met>>
  BY DEF FSInv, FindFile
<1>2. f \in Files /\ AnswerOf(h) = NoAnswer /\ Store!Pending(h, "DELETE")
  BY <1>1, DeletePending DEF At
<1>3. h \notin Removing /\ LocalFiles' = LocalFiles
  BY <1>1, AnswersAt, StorageSame DEF At
<1>4. Store!Stored(0, f) <=> Exists(f)
  BY <1>1, <1>2, StorageSeen
<1>5. CASE Exists(f) /\ StepTo(h, "remove")
  <2>1. Only(h) /\ pc'[h] = "remove" /\ request' = request
    BY <1>1, <1>5, OutsideOnly DEF StepTo
  <2>2. AnswerOf(h)' = NoAnswer
    BY <1>1, <2>1, NoAnswerNext
  <2>3. Answers' = [Answers EXCEPT ![h] = Answers[h]]
    BY <1>2, <2>1, <2>2, AnswersStep, AnswersAt
  <2>4. Answers' = Answers
    BY <2>3 DEF Answers
  <2>5. Removing' = Removing \union {h}
    BY <2>1, AnswersStep DEF At
  <2>6. Store!DeleteFinds(h)
    BY <1>1, <1>2, <1>3, <1>4, <1>5, <2>1, <2>4, <2>5 DEF Store!DeleteFinds
  <2> QED BY <2>6
<1>6. CASE ~Exists(f) /\ AnswerDelete(h, FALSE)
  <2>1. GoTo(h, "answered") /\ request' = request
        /\ response' = [response EXCEPT ![h] = Response(FALSE, NoData)]
    BY <1>6 DEF AnswerDelete
  <2>2. \A g \in Handlers \ {h} : request'[g] = request[g] /\ response'[g] = response[g]
    BY <1>1, <2>1 DEF FSTypeOK
  <2>3. Only(h) /\ pc'[h] = "answered"
    BY <1>1, <2>1, <2>2, OutsideOnly
  <2>4. AnswerOf(h)' = Response(FALSE, NoData)
    BY <1>1, <2>1, <2>3, AnsweredNext DEF FSTypeOK
  <2>5. Answers' = [Answers EXCEPT ![h] = Store!Failed]
    BY <2>3, <2>4, AnswersStep, AnswersDone
  <2>6. Removing' = Removing
    <3>1. Removing' = Removing \ {h}
      BY <2>3, AnswersStep DEF At
    <3> QED BY <1>3, <3>1
  <2>7. Store!DeleteMisses(h)
    BY <1>1, <1>2, <1>3, <1>4, <1>6, <2>1, <2>5, <2>6 DEF Store!DeleteMisses, Store!Return
  <2> QED BY <2>7
<1> QED BY <1>5, <1>6 DEF FindFile

LEMMA RemoveFailsRefines ==
  ASSUME FSInv, FSInv', NEW h \in Handlers, RemoveFails(h)
  PROVE  Store!Fails(h)
<1>1. FSTypeOK /\ At(h, "remove") /\ UNCHANGED <<files, file>> /\ Fault(h)
      /\ GoTo(h, "answered") /\ request' = request
      /\ response' = [response EXCEPT ![h] = Response(FALSE, NoData)]
  BY DEF FSInv, RemoveFails, AnswerDelete
<1>2. \A g \in Handlers \ {h} : request'[g] = request[g] /\ response'[g] = response[g]
  BY <1>1 DEF FSTypeOK
<1>3. Only(h) /\ pc'[h] = "answered"
  BY <1>1, <1>2, OutsideOnly
<1>4. AnswerOf(h)' = Response(FALSE, NoData)
  BY <1>1, <1>3, AnsweredNext DEF FSTypeOK
<1>5. Answers' = [Answers EXCEPT ![h] = Store!Failed] /\ Removing' = Removing \ {h}
  BY <1>3, <1>4, AnswersStep, AnswersDone DEF At
<1>6. h \in Removing /\ LocalFiles' = LocalFiles /\ Store!DiskFails(h)
  BY <1>1, AnswersAt, StorageSame DEF Fault, Store!DiskFails
<1> QED BY <1>1, <1>5, <1>6 DEF Store!Fails, Store!Return


\* A deletion ends the writes that have its file open and will only overwrite.
LEMMA RemoveNameRefines ==
  ASSUME FSInv, FSInv', NEW h \in Handlers, RemoveName(h)
  PROVE  Store!DeleteRemoves(h)
<1> DEFINE f == request[h].filename
           On(g) == request[g] # NoCall /\ request[g].filename = f
           OnFile == {g \in Handlers : On(g)}
           writing(g) == At(g, "write") \/ (At(g, "measure") /\ ~Grows(g))
           overtaken == {g \in Handlers \ {h} : On(g) /\ file[g] = Linked /\ writing(g)}
<1>1. FSTypeOK /\ FSTypeOK' /\ At(h, "remove") /\ \A g \in Handlers : RightAt(g)
  BY InvByHandler DEF RemoveName, FSInv
<1>2. files' = [files EXCEPT ![f] = Missing] /\ request' = request
      /\ file_mutex' = file_mutex /\ pc' = [pc EXCEPT ![h] = "answered"]
      /\ response' = [response EXCEPT ![h] = Response(TRUE, NoData)]
  BY DEF RemoveName, AnswerDelete, GoTo
<1>3. /\ file' = [g \in Handlers |-> IF On(g) /\ file[g] = Linked THEN files[f] ELSE file[g]]
      /\ met' = [g \in Handlers |-> IF g \in OnFile THEN met[g] \union {"deletion"} ELSE met[g]]
  BY DEF RemoveName
<1>4. request[h] # NoCall /\ f \in Files /\ Store!Pending(h, "DELETE") /\ h \in Removing
  BY <1>1, DeletePending, AnswersAt DEF At
<1>5. LocalFiles' = [LocalFiles EXCEPT ![0][f] = Missing]
  <2> DEFINE local == [g \in Files |-> IF files[g] = Missing THEN Missing ELSE files[g].data]
  <2>1. local' = [local EXCEPT ![f] = Missing]
    BY <1>1, <1>2, <1>4 DEF FSTypeOK
  <2>2. LocalFiles = [s \in {0} |-> local] /\ LocalFiles' = [s \in {0} |-> local']
    BY DEF LocalFiles
  <2> HIDE DEF local
  <2> QED BY <2>1, <2>2
<1>6. \A g \in Handlers : On(g) /\ file[g] = Linked => files[f] \in Contents
  BY <1>1, <1>4 DEF RightAt, Exists, FSTypeOK
<1>7. ASSUME NEW g \in overtaken
      PROVE  Store!Pending(g, "WRITE") /\ AnswerOf(g)' = Store!Done
  <2>1. g \in Handlers /\ g # h /\ On(g) /\ file[g] = Linked /\ writing(g)
    OBVIOUS
  <2>2. request[g].operation = "WRITE"
    BY <1>1, <2>1 DEF RightAt, Critical, Labels, At
  <2>3. AnswerOf(g) = NoAnswer
    BY <1>1, <2>1, OvertakenWhen, NoAnswerYet DEF At
  <2>4. Store!Pending(g, "WRITE")
    BY <2>1, <2>2, <2>3, AnswersAt DEF Store!Pending
  <2>5. file'[g] = files[f] /\ file'[g] \notin {Shut, Linked}
    BY <1>3, <1>6, <2>1, MarksAssumption
  <2>6. Content(g)' = Content(g) /\ request'[g] = request[g] /\ pc'[g] = pc[g]
    BY <1>1, <1>2, <2>1, <2>5 DEF Content, FSTypeOK
  <2>7. Overtaken(g)' /\ ~At(g, "read")'
    BY <2>1, <2>5, <2>6 DEF Overtaken, At, Grows
  <2> QED BY <2>4, <2>7, AnswersDone DEF AnswerOf
<1>8. ASSUME NEW g \in Handlers \ {h}, g \notin overtaken
      PROVE  AnswerOf(g)' = AnswerOf(g)
  <2>1. RightAt(g) /\ pc'[g] = pc[g] /\ request'[g] = request[g] /\ response'[g] = response[g]
    BY <1>1, <1>2 DEF FSTypeOK
  <2>2. file[g] # Shut => request[g] # NoCall
    BY <2>1 DEF RightAt, At
  <2>3. CASE On(g) /\ file[g] = Linked
    <3>1. file'[g] = files[f] /\ file'[g] \notin {Shut, Linked}
      BY <1>3, <1>6, <2>3, MarksAssumption
    <3>2. Content(g)' = Content(g)
      BY <2>3, <3>1 DEF Content
    <3>3. ~writing(g)
      BY <1>8, <2>3
    <3>4. ~Overtaken(g) /\ ~Overtaken(g)'
      BY <2>1, <3>2, <3>3 DEF Overtaken, At, Grows
    <3> QED BY <2>1, <3>2, <3>4 DEF AnswerOf, At, BytesRead
  <2>4. CASE ~(On(g) /\ file[g] = Linked)
    <3>1. file'[g] = file[g]
      BY <1>3, <2>4
    <3>2. file[g] = Linked => files'[request[g].filename] = files[request[g].filename]
      <4>1. request[g] # NoCall => request[g].filename \in Files
        BY <1>1, CallTyped DEF FSTypeOK
      <4> QED BY <1>1, <1>2, <2>2, <2>4, <4>1, MarksAssumption DEF FSTypeOK
    <3>3. Content(g)' = Content(g)
      BY <2>1, <3>1, <3>2 DEF Content
    <3> QED BY <2>1, <3>1, <3>3 DEF AnswerOf, Overtaken, At, BytesRead, Grows
  <2> QED BY <2>3, <2>4
<1>9. AnswerOf(h)' = Store!Done
  BY <1>1, <1>2, AnsweredNext, AnswersDone DEF FSTypeOK
<1>10. Answers' = [g \in Handlers |-> IF g \in overtaken \union {h} THEN Store!Done
                                      ELSE Answers[g]]
  <2>1. \A g \in Handlers : AnswerOf(g)' = IF g \in overtaken \union {h} THEN Store!Done
                                           ELSE AnswerOf(g)
    <3> HIDE DEF overtaken
    <3> QED BY <1>7, <1>8, <1>9
  <2> HIDE DEF overtaken
  <2> QED BY <2>1 DEF Answers
<1>11. Removing' = Removing \ {h}
  BY <1>1, <1>2 DEF Removing, At, FSTypeOK
<1>12. overtaken \in SUBSET {g \in OnFile : Store!Pending(g, "WRITE")}
  BY <1>7
<1>13. Store!RemoveFile(0, f)
  BY <1>5 DEF Store!RemoveFile
<1> HIDE DEF overtaken
<1> QED BY <1>2, <1>3, <1>4, <1>10, <1>11, <1>12, <1>13 DEF Store!DeleteRemoves

LEMMA InitRefines == FSInit => Store!StoreInit
<1> SUFFICES ASSUME FSInit PROVE Store!StoreInit
  OBVIOUS
<1>1. LocalFiles = [s \in Store!ServerIds |-> [f \in Files |-> Missing]]
  <2>1. Store!ServerIds = {0}
    BY DEF Store!ServerIds
  <2> QED BY <2>1 DEF FSInit, LocalFiles
<1>2. Answers = [h \in Handlers |-> NoAnswer]
  BY DEF FSInit, Answers, AnswerOf, Overtaken, At
<1>3. Removing = {}
  BY DEF FSInit, Removing, At
<1> QED BY <1>1, <1>2, <1>3 DEF FSInit, Store!StoreInit

LEMMA NextRefines ==
  FSInv /\ FSInv' /\ [FSNext]_fsVars => [Store!StoreNext]_Store!storeVars
<1> SUFFICES ASSUME FSInv, FSInv', [FSNext]_fsVars
             PROVE  Store!StoreNext \/ UNCHANGED Store!storeVars
  OBVIOUS
<1>1. CASE UNCHANGED fsVars
  BY <1>1 DEF fsVars, Store!storeVars, LocalFiles, Answers, Removing, AnswerOf, Overtaken,
              At, Grows, Content, BytesRead
<1>2. CASE FSNext
  <2> SUFFICES ASSUME NEW h \in Handlers,
                      (\E r \in Requests[h] : Receive(h, r)) \/ Lock(h) \/ Serve(h)
               PROVE  Store!StoreNext \/ UNCHANGED Store!storeVars
    BY <1>2 DEF FSNext
  <2>1. \/ \E r \in Requests[h] : Store!Call(h, r)
        \/ Store!Reply(h) \/ Store!Fails(h) \/ Store!Falters(h)
        \/ Store!WriteDone(h) \/ Store!WriteCreates(h) \/ Store!WriteErases(h)
        \/ Store!ReadDone(h)
        \/ Store!DeleteMisses(h) \/ Store!DeleteFinds(h) \/ Store!DeleteRemoves(h)
        \/ UNCHANGED Store!storeVars
    <3>1. CASE \E r \in Requests[h] : Receive(h, r)
      BY <3>1, ReceiveRefines
    <3>2. CASE Lock(h)
      BY <3>2, LockRefines
    <3>3. CASE Serve(h)
      BY <3>3, ReadExistsRefines, OpenToReadRefines, ReadDoneRefines, OpenToWriteRefines,
         CreateRefines, ReopenRefines, MeasureRefines, AppendRefines, OpenResizedRefines,
         WriteRefines, FindFileRefines, RemoveNameRefines, RemoveFailsRefines, SendRefines
      DEF Serve
    <3> QED BY <3>1, <3>2, <3>3
  <2> QED BY <2>1 DEF Store!StoreNext
<1> QED BY <1>1, <1>2

\* Every call takes its effect in one step between the call and its answer,
\* although the system calls of several handlers interleave and DeleteFile
\* takes no mutex; a call fails without an effect, and only for a reason; what
\* was written is lost only to a deletion or to an error of the disk
\* (pfs_fileserver.cpp lines 71-300).
THEOREM FileServerImplementsStore == FSSpec => ImplementsFileStore
<1>1. FSInit => Store!StoreInit
  BY InitRefines
<1>2. FSInv /\ FSInv' /\ [FSNext]_fsVars => [Store!StoreNext]_Store!storeVars
  BY NextRefines
<1> QED BY <1>1, <1>2, FSInvariant, PTL DEF FSSpec, ImplementsFileStore, Store!StoreSpec

=============================================================================
