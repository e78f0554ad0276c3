------------------------------ MODULE PFSProofs ------------------------------
(***************************************************************************)
(* Theorems about the whole system.  PFSSpec implies the specification of  *)
(* the token service, so that the invariants proved in TokenServerProofs   *)
(* hold of the system; on top of them, DeleteFile never passes its test of *)
(* the tokens while a client that was granted one writes to the file.      *)
(***************************************************************************)
EXTENDS PFS, TokenServerProofs

\* The tuples of variables that UNCHANGED is used with.
USE DEF catalogVars, storeVars

-----------------------------------------------------------------------------
(* The library keeps to the token protocol.                                 *)

\* A pfs_write and a pfs_close open a stream with a request that TokenServer
\* allows.
LEMMA WriteAllowed ==
  ASSUME NEW c \in Clients, NEW f \in Files, NEW r \in WriteRanges, PfsWrite(c, f, r)
  PROVE  ClientCall(c)
BY DEF PfsWrite, WriteRequest, ClientCall

LEMMA CloseAllowed ==
  ASSUME NEW c \in Clients, NEW f \in Files, PfsClose(c, f)
  PROVE  ClientCall(c)
BY DEF PfsClose, CloseRequest, ClientCall

\* A pfs_initialize leaves everything but the lists of servers alone.
LEMMA PingUnchanged ==
  ASSUME NEW c \in Clients, NEW n, Ping(c, n)
  PROVE  UNCHANGED <<tokenVars, catalogVars>>
BY DEF Ping

LEMMA InitializeFailsUnchanged ==
  ASSUME NEW c \in Clients, NEW n \in 0..MaxStubs, PfsInitializeFails(c, n)
  PROVE  UNCHANGED <<tokenVars, catalogVars, api>>
BY PingUnchanged DEF PfsInitializeFails

\* A server that goes on with a call nobody waits for moves no client.
LEMMA UnaskedIsQuiet ==
  ASSUME Unasked
  PROVE  UNCHANGED <<tokenVars, libraryVars, historyVars>>
BY DEF Unasked, UnlinkUnasked, LateHandler

\* Every step of a client's program.
LEMMA StartIsTokenStep ==
  ASSUME NEW c \in Clients, Start(c)
  PROVE  ClientCall(c) \/ UNCHANGED tokenVars
<1>2. CASE \E f \in Files : (\E r \in WriteRanges : PfsWrite(c, f, r)) \/ PfsClose(c, f)
  BY <1>2, WriteAllowed, CloseAllowed
<1> QED
  BY <1>2, PingUnchanged, InitializeFailsUnchanged
     DEF Start, PfsInitialize, PfsFinish, PfsCreate, PfsOpen, PfsRead, PfsDelete

\* Every step of a library call under way.
LEMMA ContinueIsTokenStep ==
  ASSUME NEW c \in Clients, Continue(c)
  PROVE  Client(c) \/ UNCHANGED tokenVars
<1>2. CASE \E f \in Files : PfsClose(c, f)
  BY <1>2, CloseAllowed DEF Client
<1>3. CASE LibraryRead(c) \/ LibraryHangUp(c)
  BY <1>3 DEF LibraryRead, LibraryHangUp, Client
<1> QED
  BY <1>2, <1>3 DEF Continue, ReadRefused, CloseReturns, WriteBlock, WriteBlockFails,
     WriteReturns, WriteOrphaned, DeleteUnlinks, DeleteFinds, DeleteRemoves,
     DeleteStops, DeleteFails, FinishReturns

\* The system implements the token service (StreamToken and the library's use
\* of it in pfs_write, pfs_close and pfs_finish): TokenServer's Spec holds.
THEOREM LibraryKeepsProtocol == PFSSpec => KeepsTokenProtocol
<1>1. PFSInit => TokenInit
  BY DEF PFSInit
<1>2. [PFSNext]_pfsVars => [Next]_tokenVars
  <2> SUFFICES ASSUME [PFSNext]_pfsVars PROVE Next \/ UNCHANGED tokenVars
    OBVIOUS
  <2>1. CASE UNCHANGED pfsVars
    BY <2>1 DEF pfsVars
  <2>2. ASSUME NEW c \in Clients, Start(c) PROVE Next \/ UNCHANGED tokenVars
    BY <2>2, StartIsTokenStep DEF Next, Client
  <2>3. ASSUME NEW c \in Clients, Continue(c) PROVE Next \/ UNCHANGED tokenVars
    BY <2>3, ContinueIsTokenStep DEF Next
  <2>4. ASSUME NEW c \in Clients, Die(c) PROVE Next \/ UNCHANGED tokenVars
    BY <2>4 DEF Die, Next, Client
  <2>5. ASSUME NEW c \in Clients, Serve(c) PROVE Next \/ UNCHANGED tokenVars
    BY <2>5 DEF Serve, Next
  <2>6. CASE Unasked
    BY <2>6, UnaskedIsQuiet
  <2> QED BY <2>1, <2>2, <2>3, <2>4, <2>5, <2>6 DEF PFSNext
<1> QED BY <1>1, <1>2, PTL DEF PFSSpec, KeepsTokenProtocol, Spec

\* Hence the inductive invariant of the token service holds in the system.
THEOREM TokenInvariantInSystem == PFSSpec => []TokenInv
BY LibraryKeepsProtocol, TokenInvariant DEF KeepsTokenProtocol

-----------------------------------------------------------------------------
(* Who takes a step, and what it leaves alone.                              *)

\* What the invariant says of client c looks at nothing but these.
SameFor(c) ==
  /\ api'[c] = api[c] /\ call'[c] = call[c] /\ pc'[c] = pc[c]
  /\ request'[c] = request[c] /\ conflicting'[c] = conflicting[c]
  /\ requests'[c] = requests[c] /\ responses'[c] = responses[c]

\* A library call moves on: only its own client's record changes.
LEMMA GoToFacts ==
  ASSUME Shape, NEW c \in Clients, NEW e, GoTo(c, e)
  PROVE  /\ api'[c] = e
         /\ \A d \in Clients : d # c => api'[d] = api[d]
         /\ api' = [d \in Clients |-> api'[d]]
BY DEF Shape, GoTo

\* A step of a program or its library moves no server and no other client.
LEMMA LibraryIsLocal ==
  ASSUME TypeOK, Shape, NEW c \in Clients, Start(c) \/ Continue(c) \/ Die(c)
  PROVE  /\ UNCHANGED serverVars
         /\ \A d \in Clients : d # c => SameFor(d)
         /\ api' = [d \in Clients |-> api'[d]]
<1>1. ASSUME NEW e, GoTo(c, e), UNCHANGED serverVars,
             \A d \in Clients : d # c =>
               call'[d] = call[d] /\ requests'[d] = requests[d] /\ responses'[d] = responses[d]
      PROVE  /\ UNCHANGED serverVars
             /\ \A d \in Clients : d # c => SameFor(d)
             /\ api' = [d \in Clients |-> api'[d]]
  BY <1>1, GoToFacts DEF SameFor, serverVars
<1>2. ASSUME NEW e, GoTo(c, e), UNCHANGED tokenVars
      PROVE  /\ UNCHANGED serverVars
             /\ \A d \in Clients : d # c => SameFor(d)
             /\ api' = [d \in Clients |-> api'[d]]
  BY <1>1, <1>2 DEF tokenVars, streamVars
<1>3. ASSUME UNCHANGED <<tokenVars, api>>
      PROVE  /\ UNCHANGED serverVars
             /\ \A d \in Clients : d # c => SameFor(d)
             /\ api' = [d \in Clients |-> api'[d]]
  BY <1>3 DEF SameFor, tokenVars, serverVars, streamVars, Shape
<1>4. CASE Die(c)
  <2>1. CASE ClientDies(c)
    BY <1>1, <1>4, <2>1 DEF Die, ClientDies, HangUp, TypeOK
  <2>2. CASE UNCHANGED tokenVars
    BY <1>2, <1>4, <2>2 DEF Die
  <2> QED BY <1>4, <2>1, <2>2 DEF Die
<1>5. ASSUME NEW f \in Files, PfsClose(c, f)
      PROVE  /\ UNCHANGED serverVars
             /\ \A d \in Clients : d # c => SameFor(d)
             /\ api' = [d \in Clients |-> api'[d]]
  BY <1>1, <1>5 DEF PfsClose, OpenCall, TypeOK
<1>6. CASE Start(c)
  <2>1. CASE PfsInitialize(c) \/ PfsFinish(c)
    BY <1>2, <2>1, PingUnchanged DEF PfsInitialize, PfsFinish, Return
  <2>5. CASE \E answering \in 0..MaxStubs : PfsInitializeFails(c, answering)
    BY <1>3, <2>5, InitializeFailsUnchanged
  <2>2. ASSUME NEW f \in Files, PfsCreate(c, f) \/ \E mode \in Modes : PfsOpen(c, f, mode)
        PROVE  UNCHANGED <<tokenVars, api>>
    BY <2>2 DEF PfsCreate, PfsOpen, libraryVars
  <2>3. ASSUME NEW f \in Files, PfsDelete(c, f) \/ \E offset \in Offsets : PfsRead(c, f, offset)
        PROVE  \E e : GoTo(c, e) /\ UNCHANGED tokenVars
    BY <2>3 DEF PfsDelete, PfsRead
  <2>4. ASSUME NEW f \in Files, NEW r \in WriteRanges, PfsWrite(c, f, r)
        PROVE  /\ UNCHANGED serverVars
               /\ \A d \in Clients : d # c => SameFor(d)
               /\ api' = [d \in Clients |-> api'[d]]
    BY <1>1, <2>4 DEF PfsWrite, OpenCall, TypeOK
  <2> QED BY <1>2, <1>3, <1>5, <1>6, <2>1, <2>2, <2>3, <2>4, <2>5 DEF Start
<1>7. CASE Continue(c)
  <2>1. CASE LibraryRead(c)
    <3>1. UNCHANGED <<serverVars, api>>
      BY <2>1 DEF LibraryRead, ClientRead, libraryVars
    <3>2. \A d \in Clients : d # c =>
            call'[d] = call[d] /\ requests'[d] = requests[d] /\ responses'[d] = responses[d]
      BY <2>1 DEF LibraryRead, ClientRead, TypeOK
    <3> QED BY <3>1, <3>2 DEF SameFor, serverVars, Shape
  <2>2. CASE LibraryHangUp(c)
    <3>1. \E e : GoTo(c, e)
      BY <2>2 DEF LibraryHangUp
    <3>2. UNCHANGED serverVars
      BY <2>2 DEF LibraryHangUp, ClientDone, HangUp
    <3>3. \A d \in Clients : d # c =>
            call'[d] = call[d] /\ requests'[d] = requests[d] /\ responses'[d] = responses[d]
      BY <2>2 DEF LibraryHangUp, ClientDone, HangUp, TypeOK
    <3> QED BY <1>1, <3>1, <3>2, <3>3
  <2>3. CASE \/ ReadRefused(c) \/ CloseReturns(c) \/ WriteBlock(c) \/ WriteBlockFails(c)
             \/ WriteReturns(c) \/ WriteOrphaned(c) \/ DeleteUnlinks(c) \/ DeleteFinds(c)
             \/ DeleteRemoves(c) \/ DeleteStops(c) \/ DeleteFails(c) \/ FinishReturns(c)
    <3>1. UNCHANGED tokenVars
      BY <2>3 DEF ReadRefused, CloseReturns, WriteBlock, WriteBlockFails, WriteReturns,
         WriteOrphaned, DeleteUnlinks, DeleteFinds, DeleteRemoves, DeleteStops, DeleteFails,
         FinishReturns
    <3>2. \E e : GoTo(c, e)
      BY <2>3 DEF ReadRefused, CloseReturns, WriteBlock, WriteBlockFails, WriteReturns,
         WriteOrphaned, DeleteUnlinks, DeleteFinds, DeleteRemoves, DeleteStops, DeleteFails,
         FinishReturns, Return
    <3> QED BY <1>2, <3>1, <3>2
  <2> QED BY <1>5, <1>7, <2>1, <2>2, <2>3 DEF Continue
<1> QED BY <1>4, <1>6, <1>7

\* A step of a handler moves no other handler and no client.
LEMMA HandlerIsLocal ==
  ASSUME TypeOK, Shape, NEW c \in Clients, Serve(c)
  PROVE  /\ \A d \in Clients : d # c => SameFor(d)
         /\ UNCHANGED <<api, catalogVars>>
<1>1. UNCHANGED <<api, catalogVars>>
  BY DEF Serve, libraryVars
<1>2. ASSUME NEW d \in Clients, d # c
      PROVE  /\ call'[d] = call[d] /\ pc'[d] = pc[d]
             /\ request'[d] = request[d] /\ conflicting'[d] = conflicting[d]
             /\ requests'[d] = requests[d] /\ responses'[d] = responses[d]
  <2>1. CASE ReadRequest(c) \/ ScanKeep(c) \/ SplitErase(c)
    BY <1>2, <2>1 DEF ReadRequest, ScanKeep, SplitErase, streamVars, TypeOK
  <2>2. CASE GrantMerge(c) \/ GrantNew(c)
    <3>1. PICK granted : GrantRevoke(c, granted)
      BY <2>2 DEF GrantMerge, GrantNew
    <3>2. call'[d] = call[d] /\ conflicting'[d] = conflicting[d] /\ requests'[d] = requests[d]
      BY <3>1 DEF GrantRevoke
    <3>3. responses'[d] = responses[d]
      BY <1>2, <3>1 DEF GrantRevoke, Write, TypeOK
    <3>4. pc'[d] = pc[d] /\ request'[d] = request[d]
      BY <1>2, <3>1 DEF GrantRevoke, TypeOK
    <3> QED BY <3>2, <3>3, <3>4
  <2>3. CASE ReleaseErase(c) \/ ReleaseKeep(c) \/ ReleaseDone(c)
    BY <1>2, <2>3 DEF ReleaseErase, ReleaseKeep, ReleaseDone, Write, streamVars, TypeOK
  <2>4. CASE AwaitAck(c) \/ HandlerReturn(c)
    BY <1>2, <2>4 DEF AwaitAck, HandlerReturn, EndCall, serverVars, TypeOK
  <2> QED BY <2>1, <2>2, <2>3, <2>4 DEF Serve, Handler
<1> QED BY <1>1, <1>2 DEF SameFor

-----------------------------------------------------------------------------
(* Where a call is in the library, and where it is in the stream.           *)

LinkFor(c) == LinkOf(c) /\ StreamLinkOf(c) /\ AnswerExpectedBy(c)

\* A client nothing of which has changed is where it was.
LEMMA SameLink ==
  ASSUME NEW c, SameFor(c), LinkFor(c)
  PROVE  LinkFor(c)'
<1>1. LinkOf(c)'
  BY DEF LinkFor, SameFor, LinkOf, Unserved, In
<1>2. StreamLinkOf(c)'
  BY DEF LinkFor, SameFor, StreamLinkOf, In
<1>3. AnswerExpectedBy(c)'
  BY DEF LinkFor, SameFor, AnswerExpectedBy, In
<1> QED BY <1>1, <1>2, <1>3 DEF LinkFor

\* A step between calls, or in a part of a call that has no stream.
LEMMA QuietLink ==
  ASSUME NEW c \in Clients, LinkFor(c), ~In(c, "write"), ~In(c, "close"),
         UNCHANGED tokenVars,
         api'[c].stage \notin {"write", "close", "closed", "data"}
  PROVE  LinkFor(c)'
<1>1. call[c] \notin {"open", "answered"}
  BY DEF LinkFor, StreamLinkOf
<1>2. LinkOf(c)'
  BY DEF LinkOf, In
<1>3. StreamLinkOf(c)'
  BY <1>1 DEF LinkFor, StreamLinkOf, tokenVars, serverVars, streamVars
<1>4. AnswerExpectedBy(c)'
  BY <1>1 DEF AnswerExpectedBy, tokenVars, streamVars
<1> QED BY <1>2, <1>3, <1>4 DEF LinkFor

\* A client that opens a stream finds nothing on it and the handler idle.
LEMMA FreshStream ==
  ASSUME TokenInv, NEW c \in Clients, Running, NEW req, OpenCall(c, req), UNCHANGED serverVars
  PROVE  /\ call'[c] = "open" /\ pc'[c] = "read"
         /\ requests'[c] = <<req>> /\ responses'[c] = <<>>
<1>1. pc[c] = "read" /\ responses[c] = <<>>
  BY DEF TokenInv, StreamInv, StreamInvOf, OpenCall
<1> QED BY <1>1 DEF OpenCall, serverVars, TokenInv, TypeOK

\* pfs_write starts.
LEMMA WriteLink ==
  ASSUME TokenInv, Shape, NEW c \in Clients, NEW f \in Files, NEW r \in WriteRanges,
         PfsWrite(c, f, r)
  PROVE  LinkFor(c)'
<1> DEFINE req == WriteRequest(f, r)
           entry == [stage |-> "write", file |-> f, first |-> r.start_byte,
                     last |-> r.end_byte, next |-> r.start_byte]
<1>1. /\ call'[c] = "open" /\ pc'[c] = "read"
      /\ requests'[c] = <<req>> /\ responses'[c] = <<>>
  BY FreshStream DEF PfsWrite
<1>2. api'[c] = entry
  BY GoToFacts DEF PfsWrite
<1>3. /\ req.token_type = "WRITE" /\ req.filename = f
      /\ entry.stage = "write" /\ entry.file = f /\ entry.last \in Int
  BY RangesAssumption DEF WriteRequest, RequestFor
<1> HIDE DEF req, entry
<1>4. Len(requests'[c]) = 1 /\ requests'[c][1] = req
  BY <1>1
<1>5. LinkOf(c)'
  BY <1>1, <1>2, <1>3, <1>4 DEF LinkOf, Unserved, In
<1>6. StreamLinkOf(c)'
  BY <1>1, <1>2, <1>3, <1>4 DEF StreamLinkOf, In
<1>7. AnswerExpectedBy(c)'
  BY <1>1 DEF AnswerExpectedBy
<1> QED BY <1>5, <1>6, <1>7 DEF LinkFor

\* pfs_close starts, or pfs_finish closes the next file.
LEMMA CloseLink ==
  ASSUME TokenInv, Shape, NEW c \in Clients, NEW f \in Files, PfsClose(c, f)
  PROVE  LinkFor(c)'
<1> DEFINE req == CloseRequest(f)
           entry == [stage |-> "close", file |-> f, after |-> api[c]]
<1>1. /\ call'[c] = "open" /\ pc'[c] = "read"
      /\ requests'[c] = <<req>> /\ responses'[c] = <<>>
  BY FreshStream DEF PfsClose
<1>2. api'[c] = entry
  BY GoToFacts DEF PfsClose
<1>3. /\ req.token_type = "CLOSE"
      /\ entry.stage = "close" /\ entry.after.stage \in {"idle", "finish"}
  BY DEF CloseRequest, RequestFor, PfsClose, In
<1> HIDE DEF req, entry
<1>4. Len(requests'[c]) = 1 /\ requests'[c][1] = req
  BY <1>1
<1>5. LinkOf(c)'
  BY <1>1, <1>2, <1>3, <1>4 DEF LinkOf, In
<1>6. StreamLinkOf(c)'
  BY <1>1, <1>2, <1>3, <1>4 DEF StreamLinkOf, In
<1>7. AnswerExpectedBy(c)'
  BY <1>1 DEF AnswerExpectedBy
<1> QED BY <1>5, <1>6, <1>7 DEF LinkFor

\* Two lengths that add up to at most one.
LEMMA AtMostOne ==
  ASSUME NEW S, NEW T, NEW s \in Seq(S), NEW t \in Seq(T), Len(s) + Len(t) <= 1
  PROVE  /\ t # <<>> => s = <<>>
         /\ s # <<>> => /\ t = <<>> /\ Len(s) = 1
                        /\ Tail(s) = <<>> /\ Head(s) = s[1]
<1> DEFINE m == Len(s)
           n == Len(t)
<1>1. m \in Nat /\ n \in Nat /\ m + n <= 1
  OBVIOUS
<1>2. (s # <<>> => m # 0) /\ (m = 0 => s = <<>>) /\ (t # <<>> => n # 0) /\ (n = 0 => t = <<>>)
  OBVIOUS
<1>3. ASSUME m = 1 PROVE Tail(s) = <<>> /\ Head(s) = s[1]
  <2>1. s # <<>>
    BY <1>3
  <2>2. Tail(s) \in Seq(S) /\ Len(Tail(s)) = Len(s) - 1
    BY <2>1, HeadTailProperties
  <2>3. Len(Tail(s)) = 0
    BY <1>3, <2>2
  <2> QED BY <2>2, <2>3
<1> HIDE DEF m, n
<1>4. (n # 0 => m = 0) /\ (m # 0 => n = 0 /\ m = 1)
  BY <1>1
<1> QED BY <1>2, <1>3, <1>4 DEF m

\* The library reads its answer, which is no REVOKE: nothing is acknowledged.
LEMMA ReadLink ==
  ASSUME TokenInv, NEW c \in Clients, LinkFor(c), LibraryRead(c)
  PROVE  /\ LinkFor(c)'
         /\ UNCHANGED <<requests, api>> /\ requests[c] = <<>>
<1>1. /\ call[c] = "open" /\ responses[c] # <<>> /\ call'[c] = "answered"
      /\ UNCHANGED <<serverVars, api>>
  BY DEF LibraryRead, ClientRead, libraryVars, TokenInv, TypeOK
<1>2. Head(responses[c]).token_action \in {"GRANT", "ACK"}
  BY <1>1 DEF LinkFor, AnswerExpectedBy
<1>3. UNCHANGED requests
  BY <1>2 DEF LibraryRead, ClientRead
<1>4. requests[c] \in Seq(Request) /\ responses[c] \in Seq(Response)
  BY DEF TokenInv, TypeOK
<1>6. pc[c] \in {"read", "await_ack"}
  BY <1>1 DEF TokenInv, TypeOK, StreamInv, StreamInvOf
<1>7. requests[c] = <<>>
  <2>1. CASE pc[c] = "read"
    <3>1. Len(requests[c]) + Len(responses[c]) <= 1
      BY <2>1 DEF TokenInv, StreamInv, StreamInvOf
    <3> QED BY <1>1, <1>4, <3>1, AtMostOne
  <2>2. CASE pc[c] = "await_ack"
    BY <2>2 DEF LinkFor, StreamLinkOf
  <2> QED BY <1>6, <2>1, <2>2
<1>8. LinkOf(c)'
  BY <1>1, <1>3 DEF LinkFor, LinkOf, Unserved, In, serverVars
<1>9. StreamLinkOf(c)'
  BY <1>1, <1>3, <1>6, <1>7 DEF LinkFor, StreamLinkOf, In, serverVars
<1>10. AnswerExpectedBy(c)'
  BY <1>1 DEF AnswerExpectedBy
<1> QED BY <1>1, <1>3, <1>7, <1>8, <1>9, <1>10 DEF LinkFor

\* The library half-closes an answered stream.
LEMMA HangUpLink ==
  ASSUME TokenInv, Shape, NEW c \in Clients, LinkFor(c), LibraryHangUp(c)
  PROVE  LinkFor(c)'
<1>1. /\ call[c] = "answered" /\ call'[c] = "done"
      /\ UNCHANGED <<serverVars, requests>>
  BY DEF LibraryHangUp, ClientDone, HangUp, TokenInv, TypeOK
<1>2. requests[c] = <<>> /\ pc[c] \in {"read", "await_ack"}
  BY <1>1 DEF LinkFor, StreamLinkOf
<1>3. StreamLinkOf(c)'
  BY <1>1, <1>2 DEF LinkFor, StreamLinkOf, serverVars
<1>4. AnswerExpectedBy(c)'
  BY <1>1 DEF AnswerExpectedBy
<1>5. CASE In(c, "write")
  <2> DEFINE entry == DataCall(api[c].file, api[c].first, api[c].last, api[c].next,
                               Value(c, api[c].file, api[c].first .. api[c].last))
  <2>1. GoTo(c, entry)
    BY <1>5 DEF LibraryHangUp, In
  <2>2. entry.stage = "data" /\ entry.file = api[c].file /\ entry.last = api[c].last
    BY DEF DataCall
  <2> HIDE DEF entry
  <2>3. api'[c] = entry
    BY <2>1, GoToFacts
  <2>4. LinkOf(c)'
    BY <1>1, <1>2, <1>5, <2>2, <2>3 DEF LinkFor, LinkOf, Unserved, In, serverVars
  <2> QED BY <1>3, <1>4, <2>4 DEF LinkFor
<1>6. CASE In(c, "close")
  <2> DEFINE entry == [stage |-> "closed", file |-> api[c].file, after |-> api[c].after]
  <2>1. GoTo(c, entry)
    BY <1>6 DEF LibraryHangUp, In
  <2>2. entry.stage = "closed" /\ entry.after = api[c].after
    OBVIOUS
  <2> HIDE DEF entry
  <2>3. api'[c] = entry
    BY <2>1, GoToFacts
  <2>4. LinkOf(c)'
    BY <1>6, <2>2, <2>3 DEF LinkFor, LinkOf, In
  <2> QED BY <1>3, <1>4, <2>4 DEF LinkFor
<1> QED BY <1>5, <1>6 DEF LibraryHangUp

\* The client's process dies.
LEMMA DieLink ==
  ASSUME TokenInv, Shape, NEW c \in Clients, LinkFor(c), Die(c)
  PROVE  LinkFor(c)'
<1>1. api'[c].stage = "dead"
  BY GoToFacts DEF Die, Dead
<1>2. LinkOf(c)'
  BY <1>1 DEF LinkOf, In
<1>3. CASE ClientDies(c)
  <2>1. call'[c] = "done" /\ UNCHANGED serverVars /\ requests'[c] \in {requests[c], <<>>}
    BY <1>3 DEF ClientDies, HangUp, TokenInv, TypeOK
  <2>2. StreamLinkOf(c)'
    <3>1. CASE requests'[c] = requests[c]
      BY <2>1, <3>1 DEF LinkFor, StreamLinkOf, serverVars
    <3>2. CASE requests'[c] = <<>>
      BY <2>1, <3>2 DEF LinkFor, StreamLinkOf, serverVars
    <3> QED BY <2>1, <3>1, <3>2
  <2>3. AnswerExpectedBy(c)'
    BY <2>1 DEF AnswerExpectedBy
  <2> QED BY <1>2, <2>2, <2>3 DEF LinkFor
<1>4. CASE call[c] \in {"none", "done"} /\ UNCHANGED tokenVars
  <2>1. StreamLinkOf(c)'
    BY <1>4 DEF LinkFor, StreamLinkOf, tokenVars, serverVars, streamVars
  <2>2. AnswerExpectedBy(c)'
    BY <1>4 DEF AnswerExpectedBy, tokenVars, streamVars
  <2> QED BY <1>2, <2>1, <2>2 DEF LinkFor
<1> QED BY <1>3, <1>4 DEF Die

\* A program makes a call, or its call goes on.
LEMMA LibraryLink ==
  ASSUME TokenInv, Shape, NEW c \in Clients, LinkFor(c), Start(c) \/ Continue(c) \/ Die(c)
  PROVE  LinkFor(c)'
<1>1. ASSUME NEW e, GoTo(c, e), e.stage \notin {"write", "close", "closed", "data"},
             UNCHANGED tokenVars, ~In(c, "write"), ~In(c, "close")
      PROVE  LinkFor(c)'
  BY <1>1, QuietLink, GoToFacts
<1>2. ASSUME UNCHANGED <<tokenVars, api>> PROVE LinkFor(c)'
  BY <1>2, SameLink DEF SameFor, tokenVars, serverVars, streamVars
<1>3. CASE Start(c)
  <2>1. CASE PfsInitialize(c) \/ PfsFinish(c)
    BY <1>1, <2>1, PingUnchanged DEF PfsInitialize, PfsFinish, Ping, Return, Idle, In
  <2>5. CASE \E answering \in 0..MaxStubs : PfsInitializeFails(c, answering)
    BY <1>2, <2>5, InitializeFailsUnchanged
  <2>2. ASSUME NEW f \in Files, PfsCreate(c, f) \/ \E mode \in Modes : PfsOpen(c, f, mode)
        PROVE  LinkFor(c)'
    BY <1>2, <2>2 DEF PfsCreate, PfsOpen, libraryVars
  <2>3. ASSUME NEW f \in Files, PfsDelete(c, f) PROVE LinkFor(c)'
    BY <1>1, <2>3 DEF PfsDelete, DeleteCall, In
  <2>4. ASSUME NEW f \in Files, NEW offset \in Offsets, PfsRead(c, f, offset) PROVE LinkFor(c)'
    BY <1>1, <2>4 DEF PfsRead, In
  <2> QED BY <1>3, <2>1, <2>2, <2>3, <2>4, <2>5, WriteLink, CloseLink DEF Start
<1>4. CASE Continue(c)
  <2>1. CASE LibraryRead(c) \/ LibraryHangUp(c) \/ \E f \in Files : PfsClose(c, f)
    BY <2>1, ReadLink, HangUpLink, CloseLink
  <2>2. CASE ReadRefused(c) \/ WriteBlockFails(c) \/ WriteReturns(c) \/ WriteOrphaned(c)
             \/ DeleteStops(c) \/ DeleteFails(c)
    <3>1. UNCHANGED tokenVars /\ GoTo(c, Idle)
      BY <2>2 DEF ReadRefused, WriteBlockFails, WriteReturns, WriteOrphaned, DeleteStops,
         DeleteFails, Return
    <3>2. ~In(c, "write") /\ ~In(c, "close")
      BY <2>2 DEF ReadRefused, WriteBlockFails, GiveUpWrite, WriteReturns, WriteOrphaned,
         DeleteStops, DeleteFails, GiveUpRemove, Resumed, In
    <3> QED BY <1>1, <3>1, <3>2 DEF Idle
  <2>3. CASE DeleteUnlinks(c) \/ DeleteFinds(c)
    BY <1>1, <2>3 DEF DeleteUnlinks, DeleteFinds, DeleteCall, In
  <2>4. CASE DeleteRemoves(c)
    BY <1>1, <2>4 DEF DeleteRemoves, DeleteCall, Return, Idle, In
  <2>5. CASE FinishReturns(c)
    BY <1>1, <2>5 DEF FinishReturns, Down, In
  <2>6. CASE CloseReturns(c)
    <3>1. api[c].after.stage \in {"idle", "finish"} /\ ~In(c, "write") /\ ~In(c, "close")
      BY <2>6 DEF LinkFor, LinkOf, CloseReturns, Resumed, In
    <3> QED BY <1>1, <2>6, <3>1 DEF CloseReturns
  <2>7. CASE WriteBlock(c)
    <3> DEFINE entry == DataCall(api[c].file, api[c].first, api[c].last,
                          ChunkEnd(api[c].next, api[c].last) + 1, api[c].value)
    <3>1. entry.stage = "data" /\ entry.file = api[c].file /\ entry.last = api[c].last
      BY DEF DataCall
    <3>2. GoTo(c, entry) /\ UNCHANGED tokenVars /\ In(c, "data") /\ call[c] = "none"
      BY <2>7 DEF WriteBlock, Resumed
    <3> HIDE DEF entry
    <3>3. api'[c] = entry
      BY <3>2, GoToFacts
    <3>4. LinkOf(c)'
      BY <3>1, <3>2, <3>3 DEF LinkFor, LinkOf, In, tokenVars, serverVars, streamVars
    <3>5. StreamLinkOf(c)'
      BY <3>2 DEF LinkFor, StreamLinkOf, tokenVars, serverVars, streamVars
    <3>6. AnswerExpectedBy(c)'
      BY <3>2 DEF AnswerExpectedBy, tokenVars, streamVars
    <3> QED BY <3>4, <3>5, <3>6 DEF LinkFor
  <2> QED BY <1>4, <2>1, <2>2, <2>3, <2>4, <2>5, <2>6, <2>7 DEF Continue
<1> QED BY <1>3, <1>4, DieLink

\* The handler of the client's own stream takes a step.
LEMMA HandlerLink ==
  ASSUME TokenInv, Shape, NEW c \in Clients, LinkFor(c), Serve(c)
  PROVE  LinkFor(c)'
<1>1. UNCHANGED api /\ Handler(c)
  BY DEF Serve, libraryVars
<1>2. requests[c] \in Seq(Request) /\ responses[c] \in Seq(Response)
  BY DEF TokenInv, TypeOK
<1>3. CASE ReadRequest(c)
  <2>1. pc[c] = "read" /\ requests[c] # <<>>
    BY <1>3 DEF ReadRequest
  <2>2. Len(requests[c]) + Len(responses[c]) <= 1
    BY <2>1 DEF TokenInv, StreamInv, StreamInvOf
  <2>3. Len(requests[c]) = 1
    BY <1>2, <2>1, <2>2, AtMostOne
  <2>4. Tail(requests[c]) = <<>> /\ responses[c] = <<>> /\ Head(requests[c]) = requests[c][1]
    BY <1>2, <2>1, <2>2, AtMostOne
  <2> DEFINE req == requests[c][1]
  <2>5. /\ requests'[c] = <<>> /\ responses'[c] = <<>> /\ call'[c] = call[c]
        /\ request'[c] = req
        /\ pc'[c] = IF req.token_type = "CLOSE" THEN "release" ELSE "split"
    BY <1>3, <2>4 DEF ReadRequest, TokenInv, TypeOK
  <2>6. req.token_type \in {"WRITE", "CLOSE"}
    BY <2>3 DEF LinkFor, StreamLinkOf
  <2>7. call[c] # "answered" /\ ~In(c, "data")
    BY <2>1 DEF LinkFor, StreamLinkOf, LinkOf
  <2>8. In(c, "write") => req.token_type = "WRITE" /\ req.filename = api[c].file
    BY <2>3 DEF LinkFor, LinkOf, Unserved
  <2>9. In(c, "close") => req.token_type = "CLOSE"
    BY <2>3 DEF LinkFor, LinkOf
  <2> HIDE DEF req
  <2>10. LinkOf(c)'
    BY <1>1, <2>5, <2>7, <2>8, <2>9 DEF LinkFor, LinkOf, Unserved, In
  <2>11. StreamLinkOf(c)'
    BY <1>1, <2>5, <2>6, <2>7 DEF LinkFor, StreamLinkOf, In
  <2>12. AnswerExpectedBy(c)'
    BY <2>5 DEF AnswerExpectedBy
  <2> QED BY <2>10, <2>11, <2>12 DEF LinkFor
<1>4. CASE ScanKeep(c) \/ SplitErase(c) \/ ReleaseErase(c) \/ ReleaseKeep(c)
  <2>1. UNCHANGED <<pc, request, call, requests, responses>>
    BY <1>4 DEF ScanKeep, SplitErase, ReleaseErase, ReleaseKeep, streamVars
  <2>2. LinkOf(c)'
    BY <1>1, <2>1 DEF LinkFor, LinkOf, Unserved, In
  <2>3. StreamLinkOf(c)'
    BY <1>1, <2>1 DEF LinkFor, StreamLinkOf, In
  <2>4. AnswerExpectedBy(c)'
    BY <1>1, <2>1 DEF LinkFor, AnswerExpectedBy, In
  <2> QED BY <2>2, <2>3, <2>4 DEF LinkFor
<1>5. CASE GrantMerge(c) \/ GrantNew(c)
  <2>1. PICK granted : GrantRevoke(c, granted)
    BY <1>5 DEF GrantMerge, GrantNew
  <2>2. pc[c] = "split"
    BY <1>5 DEF GrantMerge, GrantNew, SplitOver
  <2>3. requests[c] = <<>> /\ responses[c] = <<>>
    BY <2>2 DEF TokenInv, StreamInv, StreamInvOf
  <2>4. /\ pc'[c] \in {"read", "await_ack"} /\ UNCHANGED <<call, requests>>
        /\ pc'[c] = "await_ack" => request'[c] = request[c]
    BY <2>1 DEF GrantRevoke, TokenInv, TypeOK
  <2>5. ~In(c, "close") /\ ~In(c, "data")
    BY <2>2 DEF LinkFor, LinkOf
  <2>6. LinkOf(c)'
    BY <1>1, <2>2, <2>3, <2>4, <2>5 DEF LinkFor, LinkOf, Unserved, In
  <2>7. StreamLinkOf(c)'
    BY <1>1, <2>3, <2>4 DEF LinkFor, StreamLinkOf, In
  <2>8. ASSUME call[c] = "open" PROVE Head(responses'[c]).token_action = "GRANT"
    <3>1. responses'[c] = responses[c] \o Answer(c, granted)
      BY <2>1, <2>8 DEF GrantRevoke, Write, TokenInv, TypeOK
    <3> DEFINE first == Message("GRANT", request[c].filename, granted)
               rest == Revokes(c)
    <3>2. first.token_action = "GRANT"
      BY DEF Message
    <3>3. rest \in Seq(Range(rest))
      BY DEF Revokes, Range
    <3> HIDE DEF first, rest
    <3>4. Head(responses'[c]) = first
      BY <2>3, <3>1, <3>3 DEF Answer, first, rest
    <3> QED BY <3>2, <3>4
  <2>9. AnswerExpectedBy(c)'
    BY <1>1, <2>4, <2>5, <2>8 DEF LinkFor, StreamLinkOf, AnswerExpectedBy, In
  <2> QED BY <2>6, <2>7, <2>9 DEF LinkFor
<1>6. CASE ReleaseDone(c)
  <2>1. pc[c] = "release"
    BY <1>6 DEF ReleaseDone
  <2>2. requests[c] = <<>> /\ responses[c] = <<>>
    BY <2>1 DEF TokenInv, StreamInv, StreamInvOf
  <2>3. pc'[c] = "read" /\ UNCHANGED <<call, requests>>
    BY <1>6 DEF ReleaseDone, TokenInv, TypeOK
  <2>4. ~In(c, "write") /\ ~In(c, "data")
    BY <2>1 DEF LinkFor, LinkOf, Unserved
  <2>5. LinkOf(c)'
    BY <1>1, <2>3, <2>4 DEF LinkFor, LinkOf, In
  <2>6. StreamLinkOf(c)'
    BY <1>1, <2>2, <2>3 DEF LinkFor, StreamLinkOf, In
  <2>7. ASSUME call[c] = "open" PROVE Head(responses'[c]).token_action = "ACK"
    <3>1. responses'[c] = <<CloseAck(request[c].filename, c)>>
      BY <1>6, <2>2, <2>7 DEF ReleaseDone, Write, TokenInv, TypeOK
    <3> QED BY <3>1 DEF CloseAck
  <2>8. AnswerExpectedBy(c)'
    BY <1>1, <2>3, <2>4, <2>7 DEF AnswerExpectedBy, In
  <2> QED BY <2>5, <2>6, <2>8 DEF LinkFor
<1>7. CASE AwaitAck(c)
  BY <1>7 DEF AwaitAck, LinkFor, StreamLinkOf
<1>8. CASE HandlerReturn(c)
  <2>1. /\ call[c] = "done" /\ call'[c] = "none" /\ requests[c] = <<>> /\ requests'[c] = <<>>
        /\ UNCHANGED serverVars
    BY <1>8 DEF HandlerReturn, EndCall, TokenInv, TypeOK
  <2>2. LinkOf(c)'
    BY <1>1, <2>1 DEF LinkFor, LinkOf, Unserved, In, serverVars
  <2>3. StreamLinkOf(c)'
    BY <1>1, <2>1 DEF LinkFor, StreamLinkOf, In, serverVars
  <2>4. AnswerExpectedBy(c)'
    BY <2>1 DEF AnswerExpectedBy
  <2> QED BY <2>2, <2>3, <2>4 DEF LinkFor
<1> QED BY <1>1, <1>3, <1>4, <1>5, <1>6, <1>7, <1>8 DEF Handler

\* Every step of the system keeps every client where it should be.
LEMMA LinkStep ==
  ASSUME TokenInv, Shape, Link, AnswerExpected, [PFSNext]_pfsVars
  PROVE  Link' /\ AnswerExpected'
<1>1. \A d \in Clients : LinkFor(d)
  BY DEF Link, AnswerExpected, LinkFor
<1>2. \A d \in Clients : LinkFor(d)'
  <2>1. ASSUME NEW c \in Clients, Start(c) \/ Continue(c) \/ Die(c), NEW d \in Clients
        PROVE  LinkFor(d)'
    <3>1. CASE d = c
      BY <1>1, <2>1, <3>1, LibraryLink
    <3>2. CASE d # c
      BY <1>1, <2>1, <3>2, LibraryIsLocal, SameLink DEF TokenInv
    <3> QED BY <3>1, <3>2
  <2>2. ASSUME NEW c \in Clients, Serve(c), NEW d \in Clients
        PROVE  LinkFor(d)'
    <3>1. CASE d = c
      BY <1>1, <2>2, <3>1, HandlerLink
    <3>2. CASE d # c
      BY <1>1, <2>2, <3>2, HandlerIsLocal, SameLink DEF TokenInv
    <3> QED BY <3>1, <3>2
  <2>3. ASSUME UNCHANGED pfsVars, NEW d \in Clients PROVE LinkFor(d)'
    BY <1>1, <2>3, SameLink
       DEF SameFor, pfsVars, libraryVars, tokenVars, serverVars, streamVars
  <2>4. ASSUME Unasked, NEW d \in Clients PROVE LinkFor(d)'
    BY <1>1, <2>4, UnaskedIsQuiet, SameLink
       DEF SameFor, libraryVars, tokenVars, serverVars, streamVars
  <2> QED BY <2>1, <2>2, <2>3, <2>4 DEF PFSNext
<1> QED BY <1>2 DEF Link, AnswerExpected, LinkFor

-----------------------------------------------------------------------------
(* Writers keep a token on their file, or a hung handler's client does.     *)

\* A step after which the same handlers are hung, their clients and those that
\* hold a grant still own what they owned, and nobody else holds one.
LEMMA GuardedKept ==
  ASSUME NEW f, Guarded(f),
         \A d \in Clients : Hung(d, f)' <=> Hung(d, f),
         \A d \in Clients : (Hung(d, f) \/ Holds(d, f)) /\ Owns(d, f) => Owns(d, f)',
         \A d \in Clients : Holds(d, f)' => Holds(d, f) \/ Owns(d, f)'
  PROVE  Guarded(f)'
BY DEF Guarded

\* Without a split under way on any file, every file is guarded.
LEMMA GuardedUnlessSplitting ==
  ASSUME HandlerInv, WritersGuarded, Sound, NEW f \in Files,
         \A d \in Clients : pc[d] = "split" => conflicting[d] = <<>> \/ request[d].filename # f
  PROVE  Guarded(f)
BY DEF WritersGuarded, Splitting

\* A client nothing of which has changed is hung, and holds a grant, as before.
LEMMA SameGuard ==
  ASSUME NEW d, SameFor(d), NEW f
  PROVE  (Hung(d, f)' <=> Hung(d, f)) /\ (Holds(d, f)' <=> Holds(d, f))
BY DEF SameFor, Hung, Holds, In

\* A vector that is unchanged, or pushed to, has the owners it had.
LEMMA OwnsKept ==
  ASSUME TypeOK, NEW f \in Files, NEW d \in Clients, Owns(d, f),
         \/ token_table'[f] = token_table[f]
         \/ \E t \in Token : token_table'[f] = Append(token_table[f], t)
  PROVE  Owns(d, f)'
<1>1. token_table[f] \in Seq(Token)
  BY DEF TypeOK
<1>2. PICK k \in 1..Len(token_table[f]) : token_table[f][k].client_id = d
  BY DEF Owns
<1>3. CASE token_table'[f] = token_table[f]
  BY <1>2, <1>3 DEF Owns
<1>4. ASSUME NEW t \in Token, token_table'[f] = Append(token_table[f], t) PROVE Owns(d, f)'
  <2>1. k \in 1..Len(token_table'[f]) /\ token_table'[f][k] = token_table[f][k]
    BY <1>1, <1>4
  <2> QED BY <1>2, <2>1 DEF Owns
<1> QED BY <1>3, <1>4

\* A step of a program or its library: it takes no token from anybody, and who
\* begins or goes on to write without a request under way did so before.
LEMMA LibraryGuards ==
  ASSUME TokenInv, Shape, WritersGuarded, NEW c \in Clients, LinkFor(c),
         Start(c) \/ Continue(c) \/ Die(c)
  PROVE  WritersGuarded'
<1>1. UNCHANGED serverVars /\ \A d \in Clients : d # c => SameFor(d)
  BY LibraryIsLocal DEF TokenInv
<1>2. \A d \in Clients, f \in Files : (Hung(d, f)' <=> Hung(d, f)) /\ (Owns(d, f)' <=> Owns(d, f))
  BY <1>1 DEF Hung, Owns, serverVars
<1>3. \A f \in Files : Holds(c, f)' => Holds(c, f)
  <2>1. ASSUME NEW e, GoTo(c, e), e.stage \notin {"write", "data"}
        PROVE  \A f \in Files : ~Holds(c, f)'
    BY <2>1, GoToFacts DEF Holds, In
  <2>2. ASSUME UNCHANGED <<serverVars, requests, api>>
        PROVE  \A f \in Files : Holds(c, f)' => Holds(c, f)
    BY <2>2 DEF Holds, In, serverVars
  <2>3. ASSUME NEW e, GoTo(c, e), e.file = api[c].file, UNCHANGED requests,
               In(c, "write") \/ In(c, "data")
        PROVE  \A f \in Files : Holds(c, f)' => Holds(c, f)
    BY <1>1, <2>3, GoToFacts DEF Holds, In, serverVars
  <2>4. CASE Die(c)
    BY <2>1, <2>4 DEF Die, Dead
  <2>5. ASSUME NEW f \in Files, PfsClose(c, f) PROVE \A g \in Files : ~Holds(c, g)'
    BY <2>1, <2>5 DEF PfsClose
  <2>6. CASE Start(c)
    <3>1. CASE PfsInitialize(c) \/ PfsFinish(c)
      BY <2>1, <3>1 DEF PfsInitialize, PfsFinish, Return, Idle
    <3>6. CASE \E answering \in 0..MaxStubs : PfsInitializeFails(c, answering)
      BY <2>2, <3>6, InitializeFailsUnchanged DEF tokenVars, streamVars
    <3>2. ASSUME NEW f \in Files, PfsCreate(c, f) \/ \E mode \in Modes : PfsOpen(c, f, mode)
          PROVE  UNCHANGED <<serverVars, requests, api>>
      BY <3>2 DEF PfsCreate, PfsOpen, libraryVars, tokenVars, streamVars
    <3>3. ASSUME NEW f \in Files, PfsDelete(c, f) PROVE \A g \in Files : ~Holds(c, g)'
      BY <2>1, <3>3 DEF PfsDelete, DeleteCall
    <3>4. ASSUME NEW f \in Files, NEW offset \in Offsets, PfsRead(c, f, offset)
          PROVE  \A g \in Files : ~Holds(c, g)'
      BY <2>1, <3>4 DEF PfsRead
    <3>5. ASSUME NEW f \in Files, NEW r \in WriteRanges, PfsWrite(c, f, r)
          PROVE  \A g \in Files : ~Holds(c, g)'
      <4>1. requests'[c] = <<WriteRequest(f, r)>>
        BY <3>5, FreshStream DEF PfsWrite
      <4>2. Len(requests'[c]) = 1
        BY <4>1
      <4>3. requests'[c] # <<>>
        BY <4>1, <4>2, Len(<<>>) = 0
      <4> QED BY <4>3 DEF Holds
    <3> QED BY <2>2, <2>5, <2>6, <3>1, <3>2, <3>3, <3>4, <3>5, <3>6 DEF Start
  <2>7. CASE Continue(c)
    <3>1. CASE LibraryRead(c)
      BY <1>1, <2>2, <3>1, ReadLink
    <3>2. CASE LibraryHangUp(c)
      <4>1. UNCHANGED requests
        BY <3>2 DEF LibraryHangUp, ClientDone
      <4>2. CASE In(c, "write")
        <5> DEFINE entry == DataCall(api[c].file, api[c].first, api[c].last, api[c].next,
                                     Value(c, api[c].file, api[c].first .. api[c].last))
        <5>1. GoTo(c, entry)
          BY <3>2, <4>2 DEF LibraryHangUp, In
        <5>2. entry.file = api[c].file
          BY DEF DataCall
        <5> QED BY <2>3, <4>1, <4>2, <5>1, <5>2
      <4>3. CASE In(c, "close")
        BY <2>1, <3>2, <4>3 DEF LibraryHangUp, In
      <4> QED BY <3>2, <4>2, <4>3 DEF LibraryHangUp
    <3>3. CASE ReadRefused(c) \/ WriteBlockFails(c) \/ WriteReturns(c) \/ WriteOrphaned(c)
               \/ DeleteStops(c) \/ DeleteFails(c)
      BY <2>1, <3>3 DEF ReadRefused, WriteBlockFails, WriteReturns, WriteOrphaned,
         DeleteStops, DeleteFails, Return, Idle
    <3>4. CASE DeleteUnlinks(c) \/ DeleteFinds(c)
      BY <2>1, <3>4 DEF DeleteUnlinks, DeleteFinds, DeleteCall
    <3>5. CASE DeleteRemoves(c)
      BY <2>1, <3>5 DEF DeleteRemoves, DeleteCall, Return, Idle
    <3>6. CASE FinishReturns(c)
      BY <2>1, <3>6 DEF FinishReturns, Down
    <3>7. CASE CloseReturns(c)
      <4>1. api[c].after.stage \in {"idle", "finish"}
        BY <3>7 DEF LinkFor, LinkOf, CloseReturns, Resumed
      <4> QED BY <2>1, <3>7, <4>1 DEF CloseReturns
    <3>8. CASE WriteBlock(c)
      <4> DEFINE entry == DataCall(api[c].file, api[c].first, api[c].last,
                            ChunkEnd(api[c].next, api[c].last) + 1, api[c].value)
      <4>1. entry.file = api[c].file
        BY DEF DataCall
      <4>2. GoTo(c, entry) /\ UNCHANGED requests /\ In(c, "data")
        BY <3>8 DEF WriteBlock, Resumed, tokenVars, streamVars
      <4> QED BY <2>3, <4>1, <4>2
    <3> QED BY <2>5, <2>7, <3>1, <3>2, <3>3, <3>4, <3>5, <3>6, <3>7, <3>8 DEF Continue
  <2> QED BY <2>4, <2>6, <2>7
<1>4. \A d \in Clients, f \in Files : Holds(d, f)' => Holds(d, f)
  BY <1>1, <1>3, SameGuard
<1>5. ASSUME Sound', NEW f \in Files PROVE (Splitting(f) \/ Guarded(f))'
  <2>1. Sound
    BY <1>1, <1>5 DEF Sound, serverVars
  <2>2. CASE Splitting(f)
    BY <1>1, <2>2 DEF Splitting, serverVars
  <2>3. CASE Guarded(f)
    BY <1>2, <1>4, <2>3, GuardedKept
  <2> QED BY <2>1, <2>2, <2>3 DEF WritersGuarded
<1> QED BY <1>5 DEF WritersGuarded

\* A step of a handler.  The one that grants gives its client a token; the one
\* that releases takes its client's only, which is neither hung nor writing.
LEMMA HandlerGuards ==
  ASSUME TokenInv, Shape, WritersGuarded, NEW c \in Clients, LinkFor(c), Serve(c)
  PROVE  WritersGuarded'
<1> DEFINE f0 == request[c].filename
<1>1. /\ UNCHANGED api /\ Handler(c) /\ TypeOK /\ HandlerInv
      /\ \A d \in Clients : d # c => SameFor(d)
  BY HandlerIsLocal DEF Serve, libraryVars, TokenInv
<1>2. \A d \in Clients : d # c =>
        \A f \in Files : (Hung(d, f)' <=> Hung(d, f)) /\ (Holds(d, f)' <=> Holds(d, f))
  BY <1>1, SameGuard
<1>3. ASSUME NEW f \in Files, pc[c] \in {"split", "release"}
      PROVE  /\ ~Hung(c, f) /\ ~Holds(c, f)
             /\ \A d \in Clients : pc[d] = "split" => d = c
  BY <1>1, <1>3, NoClientAssumption DEF Hung, Holds, HandlerInv
<1>4. ASSUME pc[c] # "read" PROVE f0 \in Files
  BY <1>1, <1>4 DEF HandlerInv, Request
<1>5. CASE ReadRequest(c)
  <2>1. /\ UNCHANGED <<token_table, conflicting, health>> /\ pc[c] = "read"
        /\ pc'[c] \in {"split", "release"} /\ token_table_mutex = NoClient
    BY <1>1, <1>5 DEF ReadRequest, TypeOK
  <2>2. \A d \in Clients : pc[d] # "split"
    BY <1>1, <2>1, NoClientAssumption DEF HandlerInv
  <2>3. ASSUME Sound', NEW f \in Files PROVE Guarded(f)'
    <3>1. Guarded(f)
      BY <1>1, <2>1, <2>2, <2>3, GuardedUnlessSplitting DEF Sound
    <3>2. ~Hung(c, f) /\ ~Hung(c, f)' /\ ~Holds(c, f)'
      BY <2>1 DEF Hung, Holds
    <3>3. \A d \in Clients : Owns(d, f)' <=> Owns(d, f)
      BY <2>1 DEF Owns
    <3> QED BY <1>2, <3>1, <3>2, <3>3, GuardedKept
  <2> QED BY <2>3 DEF WritersGuarded
<1>6. CASE ScanKeep(c) \/ ReleaseKeep(c)
  <2>1. UNCHANGED <<token_table, pc, request, conflicting, health, requests>>
    BY <1>6 DEF ScanKeep, ReleaseKeep, streamVars
  <2> QED BY <1>1, <2>1 DEF WritersGuarded, Sound, Splitting, Guarded, Hung, Holds, Owns, In
<1>7. CASE SplitErase(c)
  <2>1. pc[c] = "split" /\ UNCHANGED <<pc, request, requests>>
    BY <1>7 DEF SplitErase, At, streamVars
  <2>2. /\ \A f \in Files : f # f0 => token_table'[f] = token_table[f]
        /\ conflicting'[c] # <<>>
        /\ health' = "sound" => health = "sound"
    <3>1. \A f \in Files : f # f0 => token_table'[f] = token_table[f]
      BY <1>1, <1>7 DEF SplitErase, TypeOK
    <3>2. conflicting'[c] = Append(conflicting[c], Table(c)[it[c]]) /\ conflicting[c] \in Seq(Token)
      BY <1>1, <1>7 DEF SplitErase, TypeOK
    <3>3. Table(c)[it[c]] \in Token
      BY <1>1, <1>4, <1>7, <2>1 DEF SplitErase, At, Table, TypeOK
    <3>4. conflicting'[c] # <<>>
      BY <3>2, <3>3, AppendNonEmpty
    <3>5. health' = "sound" => health = "sound"
      BY <1>7 DEF SplitErase
    <3> QED BY <3>1, <3>4, <3>5
  <2>3. \A f \in Files : f = f0 => Splitting(f)'
    BY <2>1, <2>2 DEF Splitting
  <2>4. ASSUME Sound', NEW f \in Files, f # f0 PROVE (Splitting(f) \/ Guarded(f))'
    <3>1. Guarded(f)
      BY <1>1, <1>3, <2>1, <2>2, <2>4, GuardedUnlessSplitting DEF Sound
    <3>2. \A d \in Clients : Owns(d, f)' <=> Owns(d, f)
      BY <2>2, <2>4 DEF Owns
    <3>3. \A d \in Clients : (Hung(d, f)' <=> Hung(d, f)) /\ (Holds(d, f)' <=> Holds(d, f))
      BY <1>1, <2>1 DEF Hung, Holds, In
    <3> QED BY <3>1, <3>2, <3>3, GuardedKept
  <2> QED BY <2>3, <2>4 DEF WritersGuarded
<1>8. CASE GrantMerge(c) \/ GrantNew(c)
  <2>1. PICK granted : GrantRevoke(c, granted)
    BY <1>8 DEF GrantMerge, GrantNew
  <2>2. pc[c] = "split" /\ SplitOver(c) /\ request[c].token_type = "WRITE"
    BY <1>8 DEF GrantMerge, GrantNew, SplitOver, LinkFor, StreamLinkOf
  <2>3. /\ UNCHANGED health
        /\ IF conflicting[c] = <<>> THEN pc'[c] = "read"
           ELSE pc'[c] = "await_ack" /\ request'[c] = request[c]
    BY <1>1, <2>1 DEF GrantRevoke, TypeOK
  <2>4. \A f \in Files : f # f0 => ~Holds(c, f)' /\ ~Hung(c, f)'
    <3>1. In(c, "write") => f0 = api[c].file
      BY <2>2 DEF LinkFor, LinkOf, Unserved
    <3>2. ~In(c, "data")
      BY <2>2 DEF LinkFor, LinkOf
    <3> QED BY <1>1, <2>3, <3>1, <3>2 DEF Holds, Hung, In
  <2>5. ASSUME Sound' PROVE GrantNew(c) /\ \A f \in Files : f = f0 => Owns(c, f)'
    <3>1. Sound
      BY <2>3, <2>5 DEF Sound
    <3>2. ~GrantMerge(c)
      BY <2>2, <3>1, WriteNeverMerges DEF GrantMerge, NeverDangled
    <3>3. WriteGranted(c)
      <4>1. [Next]_tokenVars
        BY <1>1 DEF Next
      <4>2. GrantStep
        BY <4>1, WriteGrantStep
      <4> QED BY <2>2, <2>3, <3>1, <4>2 DEF GrantStep
    <3>4. RequestedToken(c).client_id = c
      BY DEF RequestedToken
    <3>5. \A f \in Files : f = f0 => Owns(c, f)'
      BY <3>3, <3>4 DEF WriteGranted, Owns
    <3> QED BY <1>8, <3>2, <3>5
  <2>6. ASSUME Sound', NEW f \in Files, NEW d \in Clients, Owns(d, f) PROVE Owns(d, f)'
    <3>1. RequestedToken(c) \in Token
      BY <1>1, <2>2, RequestedTokenType
    <3>2. \/ token_table'[f] = token_table[f]
          \/ token_table'[f] = Append(token_table[f], RequestedToken(c))
      BY <1>1, <2>5, <2>6 DEF GrantNew, TypeOK
    <3> QED BY <1>1, <2>6, <3>1, <3>2, OwnsKept
  <2>7. ASSUME Sound', NEW f \in Files PROVE Guarded(f)'
    <3>1. CASE f = f0 /\ conflicting[c] # <<>>
      <4>1. Hung(c, f)'
        BY <2>3, <3>1 DEF Hung
      <4> QED BY <2>5, <2>7, <3>1, <4>1 DEF Guarded
    <3>2. CASE f # f0 \/ conflicting[c] = <<>>
      <4>1. Guarded(f)
        BY <1>1, <1>3, <2>2, <2>3, <2>7, <3>2, GuardedUnlessSplitting DEF Sound
      <4>2. ~Hung(c, f) /\ ~Hung(c, f)'
        BY <1>3, <2>2, <2>3, <2>4, <3>2 DEF Hung
      <4>3. CASE \E d \in Clients : Hung(d, f) /\ Owns(d, f)
        BY <1>2, <2>6, <2>7, <4>2, <4>3 DEF Guarded
      <4>4. CASE \A d \in Clients : ~Hung(d, f) /\ (Holds(d, f) => Owns(d, f))
        <5>1. ASSUME NEW d \in Clients PROVE ~Hung(d, f)' /\ (Holds(d, f)' => Owns(d, f)')
          <6>1. CASE d # c
            BY <1>2, <2>6, <2>7, <4>4, <6>1
          <6>2. CASE d = c
            BY <2>4, <2>5, <2>7, <4>2, <6>2
          <6> QED BY <6>1, <6>2
        <5> QED BY <5>1 DEF Guarded
      <4> QED BY <4>1, <4>3, <4>4 DEF Guarded
    <3> QED BY <3>1, <3>2
  <2> QED BY <2>7 DEF WritersGuarded
<1>9. CASE ReleaseErase(c)
  <2>1. pc[c] = "release" /\ UNCHANGED <<pc, request, requests, conflicting, health>>
    BY <1>9 DEF ReleaseErase, At, streamVars
  <2>2. ASSUME NEW f \in Files, NEW d \in Clients, d # c, Owns(d, f) PROVE Owns(d, f)'
    <3>1. CASE f # f0
      BY <1>1, <1>9, <2>2, <3>1 DEF ReleaseErase, Owns, TypeOK
    <3>2. CASE f = f0
      <4> DEFINE old == token_table[f]
                 i == it[c]
                 new == token_table'[f]
      <4>1. /\ old \in Seq(Token) /\ i \in 1..Len(old) /\ old[i].client_id = c
            /\ new = RemoveAt(old, i)
        BY <1>1, <1>9, <3>2 DEF ReleaseErase, At, Table, TypeOK
      <4>2. PICK k \in 1..Len(old) : old[k].client_id = d
        BY <2>2 DEF Owns
      <4>3. /\ Len(new) = Len(old) - 1 /\ Len(old) \in Nat
            /\ \A j \in 1..Len(old) - 1 : new[j] = IF j < i THEN old[j] ELSE old[j + 1]
        <5> HIDE DEF old, i, new
        <5>1. old \in Seq(Token) /\ i \in 1..Len(old) /\ new = RemoveAt(old, i)
          BY <4>1
        <5>2. Len(RemoveAt(old, i)) = Len(old) - 1
          BY <5>1, RemoveAtFacts, Zenon
        <5>3. \A j \in 1..Len(old) - 1 :
                RemoveAt(old, i)[j] = IF j < i THEN old[j] ELSE old[j + 1]
          BY <5>1, RemoveAtFacts, Zenon
        <5>4. Len(old) \in Nat
          BY <5>1
        <5> QED BY <5>1, <5>2, <5>3, <5>4, Zenon
      <4> HIDE DEF old, new, i
      <4>4. CASE k < i
        <5>1. k \in 1..Len(old) - 1 /\ new[k] = old[k]
          BY <4>1, <4>2, <4>3, <4>4
        <5> QED BY <4>2, <4>3, <5>1 DEF Owns, new
      <4>5. CASE k > i
        <5>1. k - 1 \in 1..Len(old) - 1 /\ new[k - 1] = old[k]
          BY <4>1, <4>2, <4>3, <4>5
        <5> QED BY <4>2, <4>3, <5>1 DEF Owns, new
      <4>6. k # i
        BY <2>2, <4>1, <4>2
      <4> QED BY <4>1, <4>2, <4>4, <4>5, <4>6
    <3> QED BY <3>1, <3>2
  <2>3. ASSUME Sound', NEW f \in Files PROVE Guarded(f)'
    <3>1. Guarded(f)
      BY <1>1, <1>3, <2>1, <2>3, GuardedUnlessSplitting DEF Sound
    <3>2. \A d \in Clients : (Hung(d, f)' <=> Hung(d, f)) /\ (Holds(d, f)' <=> Holds(d, f))
      BY <1>1, <2>1 DEF Hung, Holds, In
    <3>3. ~Hung(c, f) /\ ~Holds(c, f)
      BY <1>3, <2>1
    <3> QED BY <2>2, <3>1, <3>2, <3>3, GuardedKept
  <2> QED BY <2>3 DEF WritersGuarded
<1>10. CASE ReleaseDone(c)
  <2>1. /\ pc[c] = "release" /\ pc'[c] = "read"
        /\ UNCHANGED <<token_table, requests, conflicting, health>>
    BY <1>1, <1>10 DEF ReleaseDone, TypeOK
  <2>2. ~In(c, "write") /\ ~In(c, "data")
    BY <2>1 DEF LinkFor, LinkOf, Unserved
  <2>3. ASSUME Sound', NEW f \in Files PROVE Guarded(f)'
    <3>1. Guarded(f)
      BY <1>1, <1>3, <2>1, <2>3, GuardedUnlessSplitting DEF Sound
    <3>2. ~Hung(c, f) /\ ~Hung(c, f)' /\ ~Holds(c, f)'
      BY <1>1, <2>1, <2>2 DEF Hung, Holds, In
    <3>3. \A d \in Clients : Owns(d, f)' <=> Owns(d, f)
      BY <2>1 DEF Owns
    <3> QED BY <1>2, <3>1, <3>2, <3>3, GuardedKept
  <2> QED BY <2>3 DEF WritersGuarded
<1>11. CASE AwaitAck(c)
  BY <1>11 DEF AwaitAck, LinkFor, StreamLinkOf
<1>12. CASE HandlerReturn(c)
  <2>1. UNCHANGED serverVars /\ requests[c] = <<>>
    BY <1>12 DEF HandlerReturn
  <2>2. ASSUME Sound', NEW f \in Files PROVE (Splitting(f) \/ Guarded(f))'
    <3>1. Sound
      BY <2>1, <2>2 DEF Sound, serverVars
    <3>2. CASE Splitting(f)
      BY <2>1, <3>2 DEF Splitting, serverVars
    <3>3. CASE Guarded(f)
      <4>1. \A d \in Clients : (Hung(d, f)' <=> Hung(d, f)) /\ (Owns(d, f)' <=> Owns(d, f))
        BY <2>1 DEF Hung, Owns, serverVars
      <4>2. Holds(c, f)' => Holds(c, f)
        BY <1>1, <2>1 DEF Holds, In, serverVars
      <4> QED BY <1>2, <3>3, <4>1, <4>2, GuardedKept
    <3> QED BY <3>1, <3>2, <3>3 DEF WritersGuarded
  <2> QED BY <2>2 DEF WritersGuarded
<1> QED BY <1>1, <1>5, <1>6, <1>7, <1>8, <1>9, <1>10, <1>11, <1>12 DEF Handler

\* Every step of the system keeps the writers guarded.
LEMMA GuardStep ==
  ASSUME TokenInv, PFSInv, [PFSNext]_pfsVars
  PROVE  WritersGuarded'
<1>1. \A c \in Clients : LinkFor(c)
  BY DEF PFSInv, Link, AnswerExpected, LinkFor
<1>2. ASSUME NEW c \in Clients, Start(c) \/ Continue(c) \/ Die(c) PROVE WritersGuarded'
  BY <1>1, <1>2, LibraryGuards DEF PFSInv
<1>3. ASSUME NEW c \in Clients, Serve(c) PROVE WritersGuarded'
  BY <1>1, <1>3, HandlerGuards DEF PFSInv
<1>4. CASE UNCHANGED pfsVars
  BY <1>4 DEF PFSInv, pfsVars, libraryVars, tokenVars, serverVars, streamVars,
     WritersGuarded, Sound, Splitting, Guarded, Hung, Holds, Owns, In
<1>5. CASE Unasked
  BY <1>5, UnaskedIsQuiet DEF PFSInv, libraryVars, tokenVars, serverVars, streamVars,
     WritersGuarded, Sound, Splitting, Guarded, Hung, Holds, Owns, In
<1> QED BY <1>2, <1>3, <1>4, <1>5 DEF PFSNext

-----------------------------------------------------------------------------
(* The invariant, and what follows from it.                                 *)

\* Only a pfs_delete has DeleteFile test the tokens of a file.
LEMMA OnlyDeleteTests ==
  ASSUME Shape, [PFSNext]_pfsVars
  PROVE  /\ file_metadata_map' = [f \in Files |-> file_metadata_map'[f]]
         /\ \A f \in Files : f \notin erasing /\ f \in erasing' =>
              \E c \in Clients : PfsDelete(c, f)
<1> DEFINE Goal == /\ file_metadata_map' = [f \in Files |-> file_metadata_map'[f]]
                   /\ \A f \in Files : f \notin erasing /\ f \in erasing' =>
                        \E c \in Clients : PfsDelete(c, f)
<1> HIDE DEF Goal
<1> SUFFICES Goal
  BY DEF Goal
<1>1. CASE UNCHANGED catalogVars
  BY <1>1 DEF Shape, Goal
<1>2. CASE DeleteErase
  BY <1>2 DEF DeleteErase, Shape, Goal
<1>3. ASSUME NEW f, NEW size, UpdateMetadata(f, size) PROVE Goal
  BY <1>3 DEF UpdateMetadata, Shape, Goal
<1>4. ASSUME NEW f, CreateFile(f) PROVE Goal
  BY <1>4 DEF CreateFile, Shape, Goal
<1>5. ASSUME NEW c \in Clients, NEW f \in Files, PfsDelete(c, f) PROVE Goal
  BY <1>5 DEF PfsDelete, DeleteTest, Shape, Goal
<1>6. ASSUME NEW c \in Clients, Start(c) PROVE Goal
  BY <1>1, <1>4, <1>5, <1>6, PingUnchanged, InitializeFailsUnchanged
     DEF Start, PfsInitialize, PfsFinish, PfsCreate, PfsOpen, PfsRead, PfsWrite, PfsClose
<1>7. ASSUME NEW c \in Clients, Continue(c) PROVE Goal
  BY <1>1, <1>2, <1>3, <1>7
     DEF Continue, LibraryRead, LibraryHangUp, ReadRefused, CloseReturns, WriteBlock,
         WriteBlockFails, WriteReturns, WriteOrphaned, DeleteUnlinks, DeleteFinds,
         DeleteRemoves, DeleteStops, DeleteFails, FinishReturns, PfsClose
<1>8. ASSUME NEW c \in Clients, Die(c) \/ Serve(c) PROVE Goal
  BY <1>1, <1>8 DEF Die, Serve
<1>9. CASE Unasked
  BY <1>1, <1>2, <1>3, <1>9
     DEF Unasked, UnlinkUnasked, LateHandler, LateWrite, LateRemove, LateUpdate
<1>10. CASE UNCHANGED pfsVars
  BY <1>1, <1>10 DEF pfsVars
<1> QED BY <1>6, <1>7, <1>8, <1>9, <1>10 DEF PFSNext

\* A DeleteFile that passes its test meets no writer: the vector is empty
\* and no split is under way, so nobody owns a token of the file.
LEMMA DeleteMeetsNoWriter ==
  ASSUME TokenInv, PFSInv, Sound, NEW c \in Clients, NEW f \in Files, PfsDelete(c, f)
  PROVE  \A d \in Clients : ~Writing(d, f)
<1>1. token_table[f] = <<>> /\ token_table_mutex = NoClient
  BY DEF PfsDelete, DeleteTest
<1>2. \A d \in Clients : pc[d] # "split"
  BY <1>1, NoClientAssumption DEF TokenInv, HandlerInv
<1>3. Guarded(f)
  BY <1>2, GuardedUnlessSplitting DEF TokenInv, PFSInv
<1>4. \A d \in Clients : ~Owns(d, f)
  BY <1>1, Len(<<>>) = 0 DEF Owns
<1>5. \A d \in Clients : ~Hung(d, f) /\ ~Holds(d, f)
  BY <1>3, <1>4 DEF Guarded
<1>6. ASSUME NEW d \in Clients, Writing(d, f) PROVE FALSE
  <2>1. /\ requests[d] = <<>> /\ pc[d] \in {"read", "await_ack"}
        /\ pc[d] = "await_ack" => request[d].filename = f
    <3>1. CASE In(d, "data")
      BY <1>6, <3>1 DEF Writing, PFSInv, Link, LinkOf
    <3>2. CASE In(d, "write") /\ call[d] = "answered"
      BY <1>6, <3>2 DEF Writing, PFSInv, Link, LinkOf, StreamLinkOf, Unserved
    <3> QED BY <1>6, <3>1, <3>2 DEF Writing
  <2>2. CASE pc[d] = "await_ack"
    BY <1>5, <2>1, <2>2 DEF Hung
  <2>3. CASE pc[d] = "read"
    BY <1>5, <1>6, <2>1, <2>3 DEF Holds, Writing
  <2> QED BY <2>1, <2>2, <2>3
<1> QED BY <1>6

\* The inductive invariant of the system, on top of that of the token service:
\* where each call of the library is and where it is in its stream (LinkOf,
\* StreamLinkOf, AnswerExpected), and that a writer's token stands between its
\* file and a pfs_delete (WritersGuarded).
THEOREM SystemInvariant == PFSSpec => []PFSInv
<1>1. PFSInit => PFSInv
  <2> SUFFICES ASSUME PFSInit PROVE PFSInv
    OBVIOUS
  <2>1. \A c \in Clients : api[c] = Down /\ call[c] = "none" /\ pc[c] = "read" /\ requests[c] = <<>>
    BY DEF PFSInit, TokenInit
  <2>2. Shape
    BY DEF PFSInit, Shape
  <2>3. \A c \in Clients, stage \in {"write", "data", "close", "closed"} : ~In(c, stage)
    BY <2>1 DEF In, Down
  <2>4. Link
    BY <2>1, <2>3, Len(<<>>) = 0 DEF Link, LinkOf, StreamLinkOf
  <2>5. AnswerExpected
    BY <2>1 DEF AnswerExpected, AnswerExpectedBy
  <2>6. WritersGuarded
    BY <2>1, <2>3 DEF WritersGuarded, Guarded, Hung, Holds
  <2> QED BY <2>2, <2>4, <2>5, <2>6 DEF PFSInv
<1>2. TokenInv /\ PFSInv /\ [PFSNext]_pfsVars => PFSInv'
  <2> SUFFICES ASSUME TokenInv, PFSInv, [PFSNext]_pfsVars PROVE PFSInv'
    OBVIOUS
  <2>1. Link' /\ AnswerExpected'
    BY LinkStep DEF PFSInv
  <2>2. WritersGuarded'
    BY GuardStep
  <2>3. Shape'
    <3>1. api' = [c \in Clients |-> api'[c]]
      <4>1. ASSUME NEW c \in Clients, Start(c) \/ Continue(c) \/ Die(c)
            PROVE  api' = [d \in Clients |-> api'[d]]
        BY <4>1, LibraryIsLocal DEF PFSInv, TokenInv
      <4>2. CASE UNCHANGED api
        BY <4>2 DEF Shape, PFSInv
      <4> QED BY <4>1, <4>2, UnaskedIsQuiet DEF PFSNext, Serve, pfsVars, libraryVars
    <3> QED BY <3>1, OnlyDeleteTests DEF Shape, PFSInv
  <2> QED BY <2>1, <2>2, <2>3 DEF PFSInv
<1> QED BY <1>1, <1>2, TokenInvariantInSystem, PTL DEF PFSSpec

\* No call of the library takes the branch that aborts it (pfs_api.cpp:524-533,
\* 637-646): the first message on its stream is the one it waits for.
THEOREM AnswersExpected == PFSSpec => []AnswerExpected
<1>1. PFSInv => AnswerExpected
  BY DEF PFSInv
<1> QED BY <1>1, SystemInvariant, PTL

\* DeleteFile finds the vector of a file empty only while nobody who was granted
\* a token is writing to the file (DeleteFile, pfs_metaserver.cpp:315-322).
THEOREM NoDeletion == PFSSpec => NoWriterAtDeleteTest
<1>1. TokenInv /\ PFSInv /\ [PFSNext]_pfsVars => DeleteTestStep
  <2> SUFFICES ASSUME TokenInv, PFSInv, [PFSNext]_pfsVars, Sound,
                      NEW f \in Files, f \notin erasing, f \in erasing'
               PROVE  \A d \in Clients : ~Writing(d, f)
    BY DEF DeleteTestStep
  <2>1. PICK c \in Clients : PfsDelete(c, f)
    BY OnlyDeleteTests DEF PFSInv
  <2> QED BY <2>1, DeleteMeetsNoWriter
<1> QED BY <1>1, SystemInvariant, TokenInvariantInSystem, PTL
        DEF PFSSpec, NoWriterAtDeleteTest

=============================================================================
