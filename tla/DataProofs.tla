------------------------------ MODULE DataProofs ------------------------------
(***************************************************************************)
(* What is written: writers that were granted their tokens write different *)
(* bytes, what a pfs_write reported stays, and a pfs_delete that succeeds  *)
(* leaves nothing.  For any number of clients, files, servers, blocks,     *)
(* bytes and stubs, and although clients die, calls fail and the handlers  *)
(* of such calls run on.  A call is promised nothing that began while the  *)
(* handler of an earlier one could still write to its bytes.               *)
(***************************************************************************)
EXTENDS PFSTypeProofs

USE DEF catalogVars, storeVars

-----------------------------------------------------------------------------
(* Tokens over the bytes of a client.                                       *)

\* The token is a WRITE of c over the bytes from first to last.
Covers(t, c, first, last) ==
  /\ t.client_id = c /\ t.token_type = "WRITE"
  /\ t.start_byte <= first /\ last <= t.end_byte

CoveredBy(tokens, c, first, last) ==
  \E k \in 1..Len(tokens) : Covers(tokens[k], c, first, last)

\* A token that consolidate_token_ranges widens covers what it covered.
LEMMA HullCovers ==
  ASSUME NEW t \in Token, NEW requested \in Token, NEW c, NEW first \in Int, NEW last \in Int,
         Covers(t, c, first, last)
  PROVE  Covers(Hull(t, requested), c, first, last)
BY DEF Covers, Hull, Part, Token

LEMMA AppendCovers ==
  ASSUME NEW tokens \in Seq(Token), NEW t \in Token, NEW c, NEW first, NEW last
  PROVE  /\ CoveredBy(tokens, c, first, last) => CoveredBy(Append(tokens, t), c, first, last)
         /\ Covers(t, c, first, last) => CoveredBy(Append(tokens, t), c, first, last)
<1> DEFINE new == Append(tokens, t)
<1>1. /\ Len(new) = Len(tokens) + 1 /\ new[Len(tokens) + 1] = t
      /\ \A k \in 1..Len(tokens) : new[k] = tokens[k] /\ k \in 1..Len(new)
      /\ Len(tokens) + 1 \in 1..Len(new)
  OBVIOUS
<1> HIDE DEF new
<1>2. /\ CoveredBy(tokens, c, first, last) => CoveredBy(new, c, first, last)
      /\ Covers(t, c, first, last) => CoveredBy(new, c, first, last)
  BY <1>1 DEF CoveredBy
<1> QED BY <1>2 DEF new

LEMMA WidenCovers ==
  ASSUME NEW tokens \in Seq(Token), NEW i \in 1..Len(tokens), NEW requested \in Token,
         NEW c, NEW first \in Int, NEW last \in Int, CoveredBy(tokens, c, first, last)
  PROVE  CoveredBy([tokens EXCEPT ![i] = Hull(tokens[i], requested)], c, first, last)
<1> DEFINE new == [tokens EXCEPT ![i] = Hull(tokens[i], requested)]
<1>1. PICK k \in 1..Len(tokens) : Covers(tokens[k], c, first, last)
  BY DEF CoveredBy
<1>2. Len(new) = Len(tokens) /\ new[k] = IF k = i THEN Hull(tokens[i], requested) ELSE tokens[k]
  OBVIOUS
<1>3. tokens[k] \in Token
  OBVIOUS
<1>4. Covers(new[k], c, first, last)
  BY <1>1, <1>2, <1>3, HullCovers
<1> HIDE DEF new
<1>5. CoveredBy(new, c, first, last)
  BY <1>2, <1>4 DEF CoveredBy
<1> QED BY <1>5 DEF new

LEMMA RemoveCovers ==
  ASSUME NEW tokens \in Seq(Token), NEW i \in 1..Len(tokens), NEW c, NEW first, NEW last,
         CoveredBy(tokens, c, first, last), tokens[i].client_id # c
  PROVE  CoveredBy(RemoveAt(tokens, i), c, first, last)
<1> DEFINE new == RemoveAt(tokens, i)
<1>1. PICK k \in 1..Len(tokens) : Covers(tokens[k], c, first, last)
  BY DEF CoveredBy
<1>2. k # i
  BY <1>1 DEF Covers
<1>3. Len(new) = Len(tokens) - 1
  BY RemoveAtFacts, Zenon
<1>4. \A j \in 1..Len(tokens) - 1 : new[j] = IF j < i THEN tokens[j] ELSE tokens[j + 1]
  BY RemoveAtFacts, Zenon
<1> HIDE DEF new
<1>5. Len(tokens) \in Nat
  OBVIOUS
<1>6. \E j \in 1..Len(new) : new[j] = tokens[k]
  <2>1. CASE k < i
    BY <1>3, <1>4, <1>5, <2>1
  <2>2. CASE k > i
    <3>1. k - 1 \in 1..Len(tokens) - 1 /\ ~(k - 1 < i) /\ k - 1 + 1 = k
      BY <1>5, <2>2
    <3> QED BY <1>3, <1>4, <3>1
  <2> QED BY <1>2, <2>1, <2>2
<1>7. CoveredBy(new, c, first, last)
  BY <1>1, <1>6 DEF CoveredBy
<1> QED BY <1>7 DEF new

-----------------------------------------------------------------------------
(* A client keeps its token until its file is contested or it closes it.    *)

\* Every step of the system is one of the token service.
LEMMA TokenStepOf ==
  ASSUME NEW c \in Clients, Step(c)
  PROVE  [Next]_tokenVars
<1>1. CASE Start(c)
  BY <1>1, StartIsTokenStep DEF Next, Client
<1>2. CASE Continue(c)
  BY <1>2, ContinueIsTokenStep DEF Next
<1>3. CASE Die(c) \/ Serve(c)
  BY <1>3 DEF Die, Serve, Next, Client
<1> QED BY <1>1, <1>2, <1>3 DEF Step

\* What a handler's step does to the vector of a file.
LEMMA TableMoves ==
  ASSUME TokenInv, NEW e \in Clients, Handler(e), NEW f \in Files
  PROVE  \/ token_table'[f] = token_table[f]
         \/ /\ pc[e] \in {"split", "release"} /\ request[e].filename = f
            /\ \/ SplitErase(e)
               \/ \E k \in 1..Len(token_table[f]) :
                    token_table'[f] = [token_table[f] EXCEPT
                                         ![k] = Hull(token_table[f][k], RequestedToken(e))]
               \/ token_table'[f] = Append(token_table[f], RequestedToken(e))
               \/ \E k \in 1..Len(token_table[f]) :
                    /\ token_table[f][k].client_id = e
                    /\ token_table'[f] = RemoveAt(token_table[f], k)
<1>1. token_table \in [Files -> Seq(Token)] /\ it[e] \in Nat \ {0}
  BY DEF TokenInv, TypeOK
<1>2. CASE ReadRequest(e) \/ ScanKeep(e) \/ ReleaseKeep(e) \/ ReleaseDone(e) \/ AwaitAck(e)
           \/ HandlerReturn(e)
  BY <1>2 DEF ReadRequest, ScanKeep, ReleaseKeep, ReleaseDone, AwaitAck, HandlerReturn, serverVars
<1>3. CASE SplitErase(e)
  <2>1. pc[e] = "split" /\ \E new : token_table' = [token_table EXCEPT ![request[e].filename] = new]
    BY <1>3 DEF SplitErase, At
  <2> QED BY <1>1, <1>3, <2>1
<1>4. CASE GrantMerge(e)
  <2>1. /\ pc[e] = "split"
        /\ \E k \in 1..Len(Table(e)) : token_table' = [token_table EXCEPT
             ![request[e].filename][k] = Hull(Table(e)[k], RequestedToken(e))]
    BY <1>4 DEF GrantMerge, SplitOver
  <2> QED BY <1>1, <2>1 DEF Table
<1>5. CASE GrantNew(e)
  <2>1. /\ pc[e] = "split"
        /\ token_table' = [token_table EXCEPT ![request[e].filename] = Append(@, RequestedToken(e))]
    BY <1>5 DEF GrantNew, SplitOver
  <2> QED BY <1>1, <2>1
<1>6. CASE ReleaseErase(e)
  <2>1. /\ pc[e] = "release" /\ Table(e)[it[e]].client_id = e /\ it[e] <= Len(Table(e))
        /\ token_table' = [token_table EXCEPT ![request[e].filename] = RemoveAt(@, it[e])]
    BY <1>6 DEF ReleaseErase, At
  <2>2. CASE request[e].filename = f
    <3>1. Len(token_table[f]) \in Nat
      BY <1>1
    <3>2. it[e] \in 1..Len(token_table[f])
      BY <1>1, <2>1, <2>2, <3>1 DEF Table
    <3> QED BY <1>1, <2>1, <2>2, <3>2 DEF Table
  <2>3. CASE request[e].filename # f
    BY <1>1, <2>1, <2>3
  <2> QED BY <2>2, <2>3
<1> QED BY <1>2, <1>3, <1>4, <1>5, <1>6 DEF Handler

LEMMA CoverKept ==
  ASSUME TokenInv, NEW e \in Clients, Handler(e), NEW f \in Files, NEW c,
         NEW first \in Int, NEW last \in Int,
         CoveredBy(token_table[f], c, first, last), e # c,
         ~(SplitErase(e) /\ request[e].filename = f)
  PROVE  CoveredBy(token_table'[f], c, first, last)
<1>1. token_table[f] \in Seq(Token)
  BY DEF TokenInv, TypeOK
<1>2. pc[e] \in {"split", "release"} => RequestedToken(e) \in Token
  BY RequestedTokenType DEF TokenInv
<1>3. CASE token_table'[f] = token_table[f]
  BY <1>3
<1>4. ASSUME NEW k \in 1..Len(token_table[f]), pc[e] \in {"split", "release"},
             token_table'[f] = [token_table[f] EXCEPT
                                  ![k] = Hull(token_table[f][k], RequestedToken(e))]
      PROVE  CoveredBy(token_table'[f], c, first, last)
  BY <1>1, <1>2, <1>4, WidenCovers
<1>5. ASSUME pc[e] \in {"split", "release"},
             token_table'[f] = Append(token_table[f], RequestedToken(e))
      PROVE  CoveredBy(token_table'[f], c, first, last)
  BY <1>1, <1>2, <1>5, AppendCovers
<1>6. ASSUME NEW k \in 1..Len(token_table[f]), token_table[f][k].client_id = e,
             token_table'[f] = RemoveAt(token_table[f], k)
      PROVE  CoveredBy(token_table'[f], c, first, last)
  BY <1>1, <1>6, RemoveCovers
<1>7. \/ token_table'[f] = token_table[f]
      \/ /\ pc[e] \in {"split", "release"}
         /\ \/ \E k \in 1..Len(token_table[f]) :
                 token_table'[f] = [token_table[f] EXCEPT
                                      ![k] = Hull(token_table[f][k], RequestedToken(e))]
            \/ token_table'[f] = Append(token_table[f], RequestedToken(e))
            \/ \E k \in 1..Len(token_table[f]) :
                 /\ token_table[f][k].client_id = e
                 /\ token_table'[f] = RemoveAt(token_table[f], k)
  BY TableMoves
<1> QED BY <1>3, <1>4, <1>5, <1>6, <1>7, Zenon

-----------------------------------------------------------------------------
(* Which steps leave a client in a pfs_write.                               *)

\* While a client writes its blocks, only a WriteFile moves its call.
LEMMA WritingSteps ==
  ASSUME TypeInv, NEW c \in Clients, Step(c), In(c, "data")'
  PROVE  \/ /\ LibraryHangUp(c) /\ In(c, "write")
            /\ api'[c] = DataCall(api[c].file, api[c].first, api[c].last, api[c].next,
                                  Value(c, api[c].file, api[c].first .. api[c].last))
         \/ /\ WriteBlock(c) /\ In(c, "data")
            /\ api'[c] = DataCall(api[c].file, api[c].first, api[c].last,
                                  ChunkEnd(api[c].next, api[c].last) + 1, api[c].value)
         \/ UNCHANGED api /\ Serve(c) /\ In(c, "data")
<1>1. api \in [Clients -> Calls] /\ api[c] \in Calls
  BY DEF TypeInv, PFSTypeOK
<1>0. ASSUME NEW e, GoTo(c, e) PROVE api'[c] = e
  BY <1>0, <1>1 DEF GoTo
<1>2. ASSUME NEW e, GoTo(c, e), e.stage # "data" PROVE FALSE
  BY <1>0, <1>2 DEF In
<1>3. CASE \/ PfsInitialize(c) \/ PfsFinish(c) \/ FinishReturns(c) \/ ReadRefused(c)
           \/ WriteBlockFails(c) \/ WriteReturns(c) \/ WriteOrphaned(c)
           \/ DeleteStops(c) \/ DeleteFails(c) \/ Die(c)
  <2>1. \E e \in {Idle, Down, Dead, [stage |-> "finish"]} : GoTo(c, e)
    BY <1>3 DEF PfsInitialize, PfsFinish, FinishReturns, ReadRefused, WriteBlockFails,
       WriteReturns, WriteOrphaned, DeleteStops, DeleteFails, Die, Return
  <2>2. \A e \in {Idle, Down, Dead, [stage |-> "finish"]} : e.stage # "data"
    BY DEF Idle, Down, Dead
  <2> QED BY <1>2, <2>1, <2>2
<1>4. ASSUME NEW f \in Files,
             \/ PfsDelete(c, f) \/ PfsClose(c, f)
             \/ \E offset \in Offsets : PfsRead(c, f, offset)
             \/ \E r \in WriteRanges : PfsWrite(c, f, r)
      PROVE  FALSE
  BY <1>2, <1>4 DEF PfsDelete, PfsClose, PfsRead, PfsWrite, DeleteCall
<1>5. CASE LibraryHangUp(c)
  <2>1. CASE In(c, "write")
    <3>1. GoTo(c, DataCall(api[c].file, api[c].first, api[c].last, api[c].next,
                           Value(c, api[c].file, api[c].first .. api[c].last)))
      BY <1>5, <2>1 DEF LibraryHangUp, In
    <3> QED BY <1>0, <1>5, <2>1, <3>1
  <2>2. CASE ~In(c, "write")
    BY <1>2, <1>5, <2>2 DEF LibraryHangUp
  <2> QED BY <2>1, <2>2
<1>6. CASE WriteBlock(c)
  <2>1. In(c, "data") /\ GoTo(c, DataCall(api[c].file, api[c].first, api[c].last,
                                   ChunkEnd(api[c].next, api[c].last) + 1, api[c].value))
    BY <1>6 DEF WriteBlock, Resumed
  <2> QED BY <1>0, <1>6, <2>1
<1>7. CASE DeleteUnlinks(c) \/ DeleteFinds(c) \/ DeleteRemoves(c)
  BY <1>2, <1>7 DEF DeleteUnlinks, DeleteFinds, DeleteRemoves, DeleteCall, Return, Idle
<1>8. CASE CloseReturns(c)
  <2>1. GoTo(c, api[c].after) /\ api[c].after \in {Idle, [stage |-> "finish"]}
    BY <1>1, <1>8, CallParts DEF CloseReturns, Resumed
  <2> QED BY <1>2, <2>1 DEF Idle
<1>9. CASE UNCHANGED api
  <2>1. In(c, "data")
    BY <1>9 DEF In
  <2>2. ~Start(c)
    BY <2>1 DEF Start, PfsInitialize, PfsInitializeFails, Ping, PfsFinish, PfsCreate, PfsDelete,
       PfsOpen, PfsRead, PfsWrite, In
  <2>3. ~Die(c)
    <3>1. Die(c) => GoTo(c, Dead) /\ Dead.stage # "data"
      BY DEF Die, Dead
    <3> QED BY <1>2, <3>1
  <2>4. ~LibraryRead(c)
    <3>1. call[c] \in {"none", "done"}
      BY <2>1 DEF TypeInv, PFSInv, Link, LinkOf
    <3> QED BY <3>1 DEF LibraryRead
  <2>5. Continue(c) => LibraryHangUp(c) \/ WriteBlock(c) \/ WriteBlockFails(c)
                       \/ WriteReturns(c) \/ WriteOrphaned(c)
    BY <2>1, <2>4 DEF Continue, ReadRefused, CloseReturns,
       DeleteUnlinks, DeleteFinds, DeleteRemoves, DeleteStops, DeleteFails, GiveUpRemove,
       FinishReturns, Resumed, In
  <2> QED BY <1>3, <1>5, <1>6, <1>9, <2>1, <2>2, <2>3, <2>5 DEF Step
<1> QED BY <1>3, <1>4, <1>5, <1>6, <1>7, <1>8, <1>9, CallSteps

-----------------------------------------------------------------------------
(* Who was granted a WRITE owns a token over what it writes.                *)

\* A handler that waits for acknowledgements met a conflict.
LEMMA WaitingStep ==
  ASSUME TokenInv, WaitingMetConflict, NEW e \in Clients, Step(e), PFSInv
  PROVE  WaitingMetConflict'
<1>1. /\ pc \in [Clients -> {"read", "split", "release", "await_ack"}]
      /\ conflicting \in [Clients -> Seq(Token)]
  BY DEF TokenInv, TypeOK
<1>2. ASSUME UNCHANGED <<pc, conflicting>> PROVE WaitingMetConflict'
  BY <1>2 DEF WaitingMetConflict
<1>3. CASE Start(e) \/ Continue(e) \/ Die(e)
  <2>1. UNCHANGED serverVars
    BY <1>3, LibraryIsLocal DEF TokenInv, PFSInv
  <2> QED BY <1>2, <2>1 DEF serverVars
<1>4. CASE ReadRequest(e)
  <2>1. conflicting' = conflicting /\ pc'[e] # "await_ack" /\ \A d \in Clients : d # e => pc'[d] = pc[d]
    BY <1>1, <1>4 DEF ReadRequest
  <2> QED BY <2>1 DEF WaitingMetConflict
<1>5. CASE SplitErase(e)
  <2>1. pc' = pc /\ pc[e] = "split" /\ \A d \in Clients : d # e => conflicting'[d] = conflicting[d]
    BY <1>1, <1>5 DEF SplitErase, At
  <2> QED BY <2>1 DEF WaitingMetConflict
<1>6. CASE GrantMerge(e) \/ GrantNew(e)
  <2>1. /\ conflicting' = conflicting /\ \A d \in Clients : d # e => pc'[d] = pc[d]
        /\ pc'[e] = "await_ack" => conflicting[e] # <<>>
    BY <1>1, <1>6 DEF GrantMerge, GrantNew, GrantRevoke
  <2> QED BY <2>1 DEF WaitingMetConflict
<1>7. CASE ReleaseDone(e)
  <2>1. conflicting' = conflicting /\ pc'[e] = "read" /\ \A d \in Clients : d # e => pc'[d] = pc[d]
    BY <1>1, <1>7 DEF ReleaseDone
  <2> QED BY <2>1 DEF WaitingMetConflict
<1>8. CASE ScanKeep(e) \/ ReleaseErase(e) \/ ReleaseKeep(e) \/ AwaitAck(e) \/ HandlerReturn(e)
  BY <1>2, <1>8 DEF ScanKeep, ReleaseErase, ReleaseKeep, AwaitAck, HandlerReturn, serverVars
<1> QED BY <1>3, <1>4, <1>5, <1>6, <1>7, <1>8 DEF Step, Serve, Handler

\* What a client that holds a grant has asked for.
LEMMA CoveredIs ==
  ASSUME NEW c, NEW f
  PROVE  Covered(c, f) <=> CoveredBy(token_table[f], c, api[c].first, api[c].last)
BY DEF Covered, CoveredBy, Covers

\* A client that gets its grant without a conflict gets a token of its own.
LEMMA GrantCovers ==
  ASSUME TokenInv, TypeInv, NEW c \in Clients, NEW f \in Files, Serve(c), ~Contested(f)',
         Holds(c, f)', ~Holds(c, f)
  PROVE  Covered(c, f)'
<1>1. /\ UNCHANGED api /\ Handler(c) /\ LinkOf(c) /\ StreamLinkOf(c) /\ AsksForItsBytes(c)
      /\ TypeOK /\ HandlerInv
  BY DEF Serve, libraryVars, TypeInv, PFSInv, Link, CallsInv, TokenInv
<1>2. In(c, "write") \/ In(c, "data")
  BY <1>1 DEF Holds, In
<1>3. api[c].file = f /\ pc'[c] = "read" /\ requests'[c] = <<>>
  BY <1>1 DEF Holds, In
<1>4. pc[c] # "read" \/ requests[c] # <<>>
  BY <1>1, <1>2, <1>3 DEF Holds
<1>5. pc[c] # "release"
  BY <1>1, <1>2 DEF LinkOf, Unserved
<1>6. CASE ReadRequest(c) \/ ScanKeep(c) \/ SplitErase(c) \/ AwaitAck(c) \/ HandlerReturn(c)
  <2>1. ReadRequest(c) => pc'[c] # "read"
    BY <1>1 DEF ReadRequest, TypeOK
  <2>2. ScanKeep(c) \/ SplitErase(c) \/ AwaitAck(c) => pc'[c] # "read"
    BY DEF ScanKeep, SplitErase, AwaitAck, At, serverVars
  <2>3. HandlerReturn(c) => pc[c] = "read" /\ requests[c] = <<>>
    BY DEF HandlerReturn
  <2> QED BY <1>3, <1>4, <1>6, <2>1, <2>2, <2>3
<1>7. CASE ReleaseErase(c) \/ ReleaseKeep(c) \/ ReleaseDone(c)
  BY <1>5, <1>7 DEF ReleaseErase, ReleaseKeep, ReleaseDone, At
<1>8. CASE GrantMerge(c) \/ GrantNew(c)
  <2>1. pc[c] = "split" /\ SplitOver(c)
    BY <1>8 DEF GrantMerge, GrantNew, SplitOver
  <2>2. In(c, "write") /\ request[c].filename = f
    BY <1>1, <1>2, <1>3, <2>1 DEF LinkOf, Unserved
  <2>3. request[c].token_type = "WRITE"
    BY <1>1, <2>1 DEF StreamLinkOf
  <2>4. conflicting[c] = <<>>
    <3>1. conflicting' = conflicting
      BY <1>8 DEF GrantMerge, GrantNew, GrantRevoke
    <3>2. conflicting[c] # <<>> => pc'[c] = "await_ack"
      BY <1>1, <1>8 DEF GrantMerge, GrantNew, GrantRevoke, TypeOK
    <3> QED BY <1>3, <3>1, <3>2
  <2>5. ~GrantMerge(c)
    BY <2>1, <2>3, <2>4, WriteNeverMerges DEF GrantMerge, NeverDangled
  <2>6. token_table'[f] = Append(token_table[f], RequestedToken(c))
    BY <1>1, <1>8, <2>2, <2>5 DEF GrantNew, TypeOK
  <2>7. RequestedToken(c) \in Token
    BY <1>1, <2>1, RequestedTokenType
  <2>8. request[c].start_byte = api[c].first /\ request[c].end_byte = api[c].last
    BY <1>1, <2>1, <2>2 DEF AsksForItsBytes
  <2>9. Covers(RequestedToken(c), c, api[c].first, api[c].last)
    <3>1. /\ RequestedToken(c).client_id = c /\ RequestedToken(c).token_type = "WRITE"
          /\ RequestedToken(c).start_byte = api[c].first
          /\ RequestedToken(c).end_byte = api[c].last
      BY <2>3, <2>8 DEF RequestedToken
    <3>2. api[c].first \in Int /\ api[c].last \in Int
      BY <2>7, <3>1 DEF Token
    <3> QED BY <3>1, <3>2 DEF Covers
  <2>10. CoveredBy(token_table'[f], c, api[c].first, api[c].last)
    BY <1>1, <2>6, <2>7, <2>9, AppendCovers DEF TypeOK
  <2>11. CoveredBy(token_table'[f], c, api'[c].first, api'[c].last)
    BY <1>1, <2>10
  <2> QED BY <2>11 DEF Covered, CoveredBy, Covers
<1> QED BY <1>1, <1>6, <1>7, <1>8 DEF Handler

\* A client that held its grant before a handler's step still owns its token.
LEMMA CoveredStays ==
  ASSUME TokenInv, TypeInv, NEW e \in Clients, Serve(e), NEW f \in Files, NEW c \in Clients,
         ~Contested(f)', Holds(c, f), Covered(c, f)
  PROVE  Covered(c, f)'
<1>1. /\ UNCHANGED api /\ Handler(e) /\ TypeOK /\ HandlerInv /\ api[c] \in Calls
  BY DEF Serve, libraryVars, TokenInv, TypeInv, PFSTypeOK
<1>2. /\ In(c, "write") \/ In(c, "data")
      /\ pc[c] = "read" /\ requests[c] = <<>>
  BY DEF Holds
<1>3. api[c].first \in Int /\ api[c].last \in Int
  <2>1. api[c].first \in Bytes /\ api[c].last \in Bytes
    BY <1>1, <1>2, CallParts
  <2> QED BY <2>1, WriteRangeBytes
<1>4. PICK first \in Int, last \in Int : first = api[c].first /\ last = api[c].last
  BY <1>3
<1>5. CoveredBy(token_table[f], c, first, last)
  BY <1>4, CoveredIs
<1>6. CoveredBy(token_table'[f], c, first, last)
  <2>1. CASE token_table'[f] = token_table[f]
    BY <1>5, <2>1
  <2>2. CASE token_table'[f] # token_table[f]
    <3>1. pc[e] \in {"split", "release"} /\ request[e].filename = f
      BY <1>1, <2>2, TableMoves
    <3>2. e # c
      BY <1>2, <3>1
    <3>3. ~SplitErase(e)
      <4>1. ASSUME SplitErase(e) PROVE FALSE
        <5>1. /\ request' = request
              /\ conflicting' = [conflicting EXCEPT ![e] = Append(@, Table(e)[it[e]])]
              /\ pc[e] = "split" /\ it[e] <= Len(Table(e))
          BY <4>1 DEF SplitErase, At
        <5>2. conflicting[e] \in Seq(Token) /\ Table(e) \in Seq(Token) /\ it[e] \in Nat \ {0}
          BY <1>1, <5>1, RequestedTokenType DEF TypeOK
        <5>3. Len(Table(e)) \in Nat
          BY <5>2
        <5>4. it[e] \in 1..Len(Table(e))
          BY <5>1, <5>2, <5>3
        <5>5. Table(e)[it[e]] \in Token
          BY <5>2, <5>4
        <5>6. Append(conflicting[e], Table(e)[it[e]]) # <<>>
          BY <5>2, <5>5, AppendNonEmpty
        <5>7. conflicting'[e] # <<>>
          BY <1>1, <5>1, <5>6 DEF TypeOK
        <5> QED BY <3>1, <5>1, <5>7 DEF Contested
      <4> QED BY <4>1
    <3> QED BY <1>1, <1>5, <3>2, <3>3, CoverKept
  <2> QED BY <2>1, <2>2
<1>7. first = api'[c].first /\ last = api'[c].last
  BY <1>1, <1>4
<1> QED BY <1>6, <1>7 DEF Covered, CoveredBy, Covers

\* A step of the library leaves a client that holds its grant with the bytes it
\* asked for.
LEMMA LibraryHolds ==
  ASSUME TokenInv, TypeInv, NEW e \in Clients, Start(e) \/ Continue(e) \/ Die(e),
         NEW f, NEW c \in Clients, Holds(c, f)'
  PROVE  Holds(c, f) /\ api'[c].first = api[c].first /\ api'[c].last = api[c].last
<1>1. /\ UNCHANGED serverVars
      /\ \A d \in Clients : d # e => SameFor(d)
      /\ Step(e)
  BY LibraryIsLocal DEF TokenInv, TypeInv, PFSInv, Step
<1>2. CASE c # e
  <2>1. SameFor(c)
    BY <1>1, <1>2
  <2> QED BY <2>1 DEF SameFor, Holds, In
<1>3. CASE c = e /\ In(c, "write")'
  <2>1. ASSUME NEW g \in Files, NEW r \in WriteRanges, PfsWrite(c, g, r) PROVE FALSE
    <3>1. requests'[c] = <<WriteRequest(g, r)>>
      BY <2>1, FreshStream DEF PfsWrite
    <3> QED BY <3>1 DEF Holds
  <2>2. CASE UNCHANGED api /\ LibraryRead(c)
    <3>1. LinkFor(c)
      BY DEF TypeInv, PFSInv, Link, AnswerExpected, LinkFor
    <3>2. UNCHANGED requests
      BY <2>2, <3>1, ReadLink
    <3> QED BY <1>1, <2>2, <3>2 DEF Holds, In, serverVars
  <2>3. CASE UNCHANGED api /\ ~LibraryRead(c)
    <3>1. In(c, "write")
      BY <1>3, <2>3 DEF In
    <3>2. ~Start(c)
      BY <3>1 DEF Start, PfsInitialize, PfsInitializeFails, Ping, PfsFinish, PfsCreate,
         PfsDelete, PfsOpen, PfsRead, PfsWrite, In
    <3>3. ~Die(c)
      <4>1. Die(c) => api'[c] = Dead
        BY DEF Die, GoTo, TypeInv, PFSTypeOK
      <4> QED BY <1>3, <4>1 DEF In, Dead
    <3>4. ~Continue(c)
      <4>1. LibraryHangUp(c) => ~In(c, "write")'
        <5>1. LibraryHangUp(c) =>
                GoTo(c, DataCall(api[c].file, api[c].first, api[c].last, api[c].next,
                                 Value(c, api[c].file, api[c].first .. api[c].last)))
          BY <3>1 DEF LibraryHangUp, In
        <5>2. LibraryHangUp(c) =>
                api'[c] = DataCall(api[c].file, api[c].first, api[c].last, api[c].next,
                                   Value(c, api[c].file, api[c].first .. api[c].last))
          BY <5>1 DEF GoTo, TypeInv, PFSTypeOK
        <5> QED BY <5>2 DEF In, DataCall
      <4> QED BY <1>3, <2>3, <3>1, <4>1 DEF Continue, ReadRefused, CloseReturns, WriteBlock,
              WriteBlockFails, WriteReturns, WriteOrphaned, DeleteUnlinks, DeleteFinds,
              DeleteRemoves, DeleteStops, DeleteFails, GiveUpWrite, GiveUpRemove,
              FinishReturns, Resumed, In
    <3> QED BY <1>3, <3>2, <3>3, <3>4
  <2>4. UNCHANGED api \/ \E g \in Files, r \in WriteRanges : PfsWrite(c, g, r)
    BY <1>1, <1>3, AskingSteps
  <2> QED BY <2>1, <2>2, <2>3, <2>4
<1>4. CASE c = e /\ In(c, "data")'
  <2>1. CASE LibraryHangUp(c) /\ In(c, "write")
             /\ api'[c] = DataCall(api[c].file, api[c].first, api[c].last, api[c].next,
                                   Value(c, api[c].file, api[c].first .. api[c].last))
    <3>1. UNCHANGED requests
      BY <2>1 DEF LibraryHangUp, ClientDone
    <3> QED BY <1>1, <2>1, <3>1 DEF Holds, In, serverVars, DataCall
  <2>2. CASE WriteBlock(c) /\ In(c, "data")
             /\ api'[c] = DataCall(api[c].file, api[c].first, api[c].last,
                                   ChunkEnd(api[c].next, api[c].last) + 1, api[c].value)
    <3>1. UNCHANGED tokenVars
      BY <2>2 DEF WriteBlock
    <3> QED BY <2>2, <3>1 DEF Holds, In, tokenVars, serverVars, streamVars, DataCall
  <2>3. CASE UNCHANGED api /\ In(c, "data")
    <3>1. ~Start(c)
      BY <2>3 DEF Start, PfsInitialize, PfsInitializeFails, Ping, PfsFinish, PfsCreate,
         PfsDelete, PfsOpen, PfsRead, PfsWrite, In
    <3>2. requests'[c] = requests[c]
      <4>1. call[c] \in {"none", "done"} /\ requests[c] = <<>>
        BY <2>3 DEF TypeInv, PFSInv, Link, LinkOf
      <4> QED BY <4>1 DEF Holds
    <3> QED BY <1>1, <2>3, <3>2 DEF Holds, In, serverVars
  <2> QED BY <1>1, <1>4, <2>1, <2>2, <2>3, WritingSteps
<1> QED BY <1>2, <1>3, <1>4 DEF Holds

LEMMA HoldersStep ==
  ASSUME TokenInv, TypeInv, HoldersCovered, NEW e \in Clients, Step(e)
  PROVE  HoldersCovered'
<1> SUFFICES ASSUME NEW f \in Files, ~Contested(f)', NEW c \in Clients, Holds(c, f)'
             PROVE  Covered(c, f)'
  BY DEF HoldersCovered
<1>1. ~Contested(f)
  BY TokenStepOf, ContestedStays DEF TokenInv
<1>2. Holds(c, f) => Covered(c, f)
  BY <1>1 DEF HoldersCovered
<1>3. CASE Start(e) \/ Continue(e) \/ Die(e)
  <2>1. /\ Holds(c, f) /\ api'[c].first = api[c].first /\ api'[c].last = api[c].last
        /\ UNCHANGED token_table
    BY <1>3, LibraryHolds, LibraryIsLocal DEF serverVars, TokenInv, TypeInv, PFSInv
  <2>2. Covered(c, f)
    BY <1>2, <2>1
  <2> QED BY <2>1, <2>2 DEF Covered
<1>4. CASE Serve(e)
  <2>1. CASE Holds(c, f)
    BY <1>2, <1>4, <2>1, CoveredStays
  <2>2. CASE ~Holds(c, f)
    <3>1. c = e
      <4>1. c # e => SameFor(c)
        BY <1>4, HandlerIsLocal DEF TokenInv, TypeInv, PFSInv
      <4> QED BY <2>2, <4>1 DEF SameFor, Holds, In
    <3> QED BY <1>4, <2>2, <3>1, GrantCovers
  <2> QED BY <2>1, <2>2
<1> QED BY <1>3, <1>4 DEF Step

\* Clients that were granted their tokens on a file that is not contested write
\* different bytes.
LEMMA HoldersApart ==
  ASSUME TokenInv, TypeInv, HoldersCovered, NEW f \in Files, ~Contested(f),
         NEW c \in Clients, NEW d \in Clients, c # d, Holds(c, f), Holds(d, f)
  PROVE  api[c].last < api[d].first \/ api[d].last < api[c].first
<1>1. Covered(c, f) /\ Covered(d, f)
  BY DEF HoldersCovered
<1>2. PICK i \in 1..Len(token_table[f]) :
        Covers(token_table[f][i], c, api[c].first, api[c].last)
  BY <1>1 DEF Covered, Covers
<1>3. PICK j \in 1..Len(token_table[f]) :
        Covers(token_table[f][j], d, api[d].first, api[d].last)
  BY <1>1 DEF Covered, Covers
<1>4. i # j
  BY <1>2, <1>3 DEF Covers
<1>5. Compatible(token_table[f][i], token_table[f][j])
  BY <1>4 DEF TokenInv, ExclusiveUntilContested, Exclusive
<1>6. Apart(token_table[f][i], token_table[f][j])
  BY <1>2, <1>3, <1>5 DEF Compatible, Covers
<1>7. token_table[f][i] \in Token /\ token_table[f][j] \in Token
  BY DEF TokenInv, TypeOK
<1>8. /\ api[c].first \in Int /\ api[c].last \in Int
      /\ api[d].first \in Int /\ api[d].last \in Int
  <2>1. api[c] \in Calls /\ api[d] \in Calls
    BY DEF TypeInv, PFSTypeOK
  <2>2. /\ api[c].first \in Bytes /\ api[c].last \in Bytes
        /\ api[d].first \in Bytes /\ api[d].last \in Bytes
    BY <2>1, CallParts DEF Holds
  <2> QED BY <2>2, WriteRangeBytes
<1> QED BY <1>2, <1>3, <1>6, <1>7, <1>8 DEF Covers, Apart, Token

\* A client that writes its blocks to a file that is not contested was granted
\* its token without a conflict.
LEMMA WritersHold ==
  ASSUME TokenInv, TypeInv, WaitingMetConflict, NEW f, ~Contested(f),
         NEW c \in Clients, In(c, "data"), api[c].file = f
  PROVE  Holds(c, f)
<1>1. LinkOf(c)
  BY DEF TypeInv, PFSInv, Link
<1>2. pc[c] # "await_ack"
  BY <1>1 DEF LinkOf, WaitingMetConflict, Contested
<1> QED BY <1>1, <1>2 DEF LinkOf, Holds

LEMMA ExcludeHolds ==
  ASSUME TokenInv, TypeInv, WaitingMetConflict, HoldersCovered
  PROVE  WritersExcludeUntilContested
<1> SUFFICES ASSUME NEW f \in Files, ~Contested(f), NEW c \in Clients, NEW d \in Clients, c # d,
                    In(c, "data"), api[c].file = f, In(d, "data"), api[d].file = f
             PROVE  api[c].last < api[d].first \/ api[d].last < api[c].first
  BY DEF WritersExcludeUntilContested, WritersExclude, Resumed
<1>1. Holds(c, f) /\ Holds(d, f)
  BY WritersHold
<1> QED BY <1>1, HoldersApart

-----------------------------------------------------------------------------
(* Where a byte is.                                                         *)

\* Clients whose lists are in order agree on the server of a block, although
\* their lists need not be equally long.
LEMMA StripeServer ==
  ASSUME NEW n \in Nat \ {0}, n % NumServers = 0, NEW offset \in Int
  PROVE  StripeOf(Listed(n), offset) = (offset \div BlockSize) % NumServers
<1> DEFINE q == offset \div BlockSize
           k == q % n
<1>1. NumServers \in Nat \ {0} /\ q \in Int
  BY NumServersAssumption, BlockSizeAssumption, Division
<1>2. /\ Len(Listed(n)) = n
      /\ \A i \in 1..n : Listed(n)[i] = (i - 1) % NumServers
  BY ListedFacts
<1>3. StripeOf(Listed(n), offset) = Listed(n)[k + 1]
  BY <1>2 DEF StripeOf
<1> HIDE DEF q
<1>4. k \in 0..n - 1
  BY <1>1, Division
<1>5. k % NumServers = q % NumServers
  BY <1>1, StripeOfMultiple
<1> HIDE DEF k
<1>6. k + 1 \in 1..n /\ k + 1 - 1 = k
  BY <1>4
<1>7. PICK i \in 1..n : i = k + 1 /\ i - 1 = k
  BY <1>4, <1>6
<1>8. Listed(n)[i] = (i - 1) % NumServers
  BY <1>2
<1> QED BY <1>3, <1>5, <1>7, <1>8 DEF q

LEMMA StripeIsServer ==
  ASSUME NEW offset \in Int
  PROVE  StripeOf(Listed(NumServers), offset) \in ServerIds
<1> DEFINE q == offset \div BlockSize
<1>1. NumServers \in Nat \ {0} /\ NumServers % NumServers = 0 /\ q \in Int
  BY NumServersAssumption, BlockSizeAssumption, Division
<1>2. StripeOf(Listed(NumServers), offset) = q % NumServers
  BY <1>1, StripeServer
<1> HIDE DEF q
<1>3. q % NumServers \in 0..NumServers - 1
  BY <1>1, Division
<1> QED BY <1>2, <1>3 DEF ServerIds

\* A WriteFile stays within the bytes asked for, and goes to the server a
\* reader would ask for them.
LEMMA ChunkFacts ==
  ASSUME TypeInv, NEW c \in Clients, In(c, "data"), api[c].next <= api[c].last,
         NEW b \in Chunk(c)
  PROVE  /\ b \in Int /\ api[c].next <= b
         /\ api[c].first <= b /\ b <= api[c].last
         /\ Aligned(c) => ServerOf(c, api[c].next) = StripeOf(Listed(NumServers), b)
<1>1. /\ api[c].first \in Bytes /\ api[c].last \in Bytes /\ api[c].next \in Int
      /\ LoopInBounds(c) /\ Connected(c)
  BY CallParts DEF TypeInv, PFSTypeOK, CallsInv
<1>2. api[c].first \in Int /\ api[c].last \in Int
  BY <1>1, WriteRangeBytes
<1>3. PICK from \in Int, last \in Int : from = api[c].next /\ last = api[c].last
  BY <1>1, <1>2
<1>4. /\ ChunkEnd(from, last) \in Int /\ from <= ChunkEnd(from, last)
      /\ ChunkEnd(from, last) <= last /\ ChunkEnd(from, last) <= BlockEnd(from)
  BY <1>3, ChunkBounds
<1>5. b \in from .. ChunkEnd(from, last)
  BY <1>3 DEF Chunk
<1>6. BlockEnd(from) \in Int
  <2>1. from % BlockSize \in Int
    BY BlockSizeAssumption, Division
  <2> QED BY <2>1, BlockSizeAssumption DEF BlockEnd
<1>7. b \in Int /\ from <= b /\ b <= last /\ b <= BlockEnd(from)
  BY <1>4, <1>5, <1>6
<1>8. api[c].first <= from
  BY <1>1, <1>2, <1>3 DEF LoopInBounds
<1>9. ASSUME Aligned(c) PROVE ServerOf(c, from) = StripeOf(Listed(NumServers), b)
  <2> DEFINE len == Len(file_server_stubs[c])
  <2>1. Initialized(c)
    BY DEF Initialized, In
  <2>2. len \in Nat \ {0} /\ len % NumServers = 0
    BY <1>1, <1>9, <2>1, ReachedServers DEF Connected
  <2>3. ServerOf(c, from) = StripeOf(Listed(len), from)
    BY <1>9 DEF ServerOf, Aligned
  <2> HIDE DEF len
  <2>4. StripeOf(Listed(len), from) = (from \div BlockSize) % NumServers
    BY <2>2, StripeServer
  <2>5. NumServers \in Nat \ {0} /\ NumServers % NumServers = 0
    BY NumServersAssumption
  <2>6. StripeOf(Listed(NumServers), b) = (b \div BlockSize) % NumServers
    BY <1>7, <2>5, StripeServer
  <2>7. b \div BlockSize = from \div BlockSize
    BY <1>7, SameBlock
  <2> QED BY <2>3, <2>4, <2>6, <2>7
<1> QED BY <1>2, <1>3, <1>7, <1>8, <1>9

-----------------------------------------------------------------------------
-----------------------------------------------------------------------------
(* What a step does to one file.                                            *)

\* An UpdateMetadata never makes a file smaller, and begins no epoch.
LEMMA UpdateFacts ==
  ASSUME TypeInv, NEW g \in Files, NEW size \in Int, UpdateMetadata(g, size), UNCHANGED births,
         NEW f \in Files
  PROVE  /\ InCatalog(f)' <=> InCatalog(f)
         /\ Epoch(f)' = Epoch(f)
         /\ InCatalog(f) =>
              /\ file_metadata_map[f].filesize \in Int
              /\ file_metadata_map'[f].filesize \in Int
              /\ file_metadata_map[f].filesize <= file_metadata_map'[f].filesize
              /\ g = f => size <= file_metadata_map'[f].filesize
<1>1. /\ file_metadata_map \in [Files -> Metadata \union {NoFile}]
      /\ erasing' = erasing /\ births' = births /\ InCatalog(g)
  BY DEF TypeInv, PFSTypeOK, UpdateMetadata
<1>2. InCatalog(f) => file_metadata_map[f].filesize \in Int
  BY <1>1 DEF InCatalog, Metadata
<1>3. CASE f # g
  <2>1. file_metadata_map'[f] = file_metadata_map[f]
    BY <1>1, <1>3 DEF UpdateMetadata
  <2> QED BY <1>1, <1>2, <1>3, <2>1 DEF InCatalog, Epoch
<1>4. CASE f = g
  <2>1. file_metadata_map'[f] = IF file_metadata_map[f].filesize < size
                                THEN [filesize |-> size] ELSE file_metadata_map[f]
    BY <1>1, <1>4 DEF UpdateMetadata
  <2>2. [filesize |-> size] \in Metadata /\ [filesize |-> size].filesize = size
    BY DEF Metadata
  <2>3. file_metadata_map'[f] \in Metadata
    BY <1>1, <1>4, <2>1, <2>2 DEF InCatalog
  <2>4. InCatalog(f) /\ InCatalog(f)'
    BY <1>1, <1>4, <2>3, NoFileAssumption DEF InCatalog
  <2>5. Epoch(f)' = Epoch(f)
    BY <1>1, <2>4 DEF Epoch
  <2>6. /\ file_metadata_map'[f].filesize \in Int
        /\ file_metadata_map[f].filesize <= file_metadata_map'[f].filesize
        /\ size <= file_metadata_map'[f].filesize
    <3>1. CASE file_metadata_map[f].filesize < size
      BY <1>2, <2>1, <2>2, <2>4, <3>1
    <3>2. CASE ~(file_metadata_map[f].filesize < size)
      BY <1>2, <2>1, <2>4, <3>2
    <3> QED BY <3>1, <3>2
  <2> QED BY <1>2, <2>4, <2>5, <2>6
<1> QED BY <1>3, <1>4

\* The erasure that DeleteFile ends with takes its own file out, and no other.
LEMMA EraseFacts ==
  ASSUME TypeInv, DeleteErase, UNCHANGED births, NEW f \in Files
  PROVE  \/ erasing = {f} /\ ~InCatalog(f)'
         \/ /\ file_metadata_map'[f] = file_metadata_map[f]
            /\ Epoch(f)' = Epoch(f)
<1>1. PICK g \in erasing : /\ file_metadata_map' = [file_metadata_map EXCEPT ![g] = NoFile]
                           /\ erasing' = {}
  BY DEF DeleteErase
<1>2. erasing = {g} /\ file_metadata_map \in [Files -> Metadata \union {NoFile}]
  BY DEF TypeInv, CallsInv, PFSTypeOK
<1>3. CASE f = g
  BY <1>1, <1>2, <1>3 DEF InCatalog
<1>4. CASE f # g
  <2>1. file_metadata_map'[f] = file_metadata_map[f] /\ f \notin erasing /\ f \notin erasing'
    BY <1>1, <1>2, <1>4
  <2> QED BY <2>1 DEF Epoch, InCatalog
<1> QED BY <1>3, <1>4

\* Its entry in the catalogue, and so its epoch and its size.
LEMMA CatalogueOf ==
  ASSUME TypeInv, NEW e \in Clients, Step(e), NEW f \in Files
  PROVE  \/ PfsCreate(e, f)
         \/ DeleteUnlinks(e) /\ erasing = {f} /\ ~InCatalog(f)'
         \/ /\ InCatalog(f)' <=> InCatalog(f)
            /\ PfsDelete(e, f) \/ Epoch(f)' = Epoch(f)
            /\ InCatalog(f) =>
                 /\ file_metadata_map[f].filesize \in Int
                 /\ file_metadata_map'[f].filesize \in Int
                 /\ file_metadata_map[f].filesize <= file_metadata_map'[f].filesize
                 /\ WriteReturns(e) /\ api[e].file = f =>
                      api[e].last < file_metadata_map'[f].filesize
<1> DEFINE Goal == /\ InCatalog(f)' <=> InCatalog(f)
                   /\ PfsDelete(e, f) \/ Epoch(f)' = Epoch(f)
                   /\ InCatalog(f) =>
                        /\ file_metadata_map[f].filesize \in Int
                        /\ file_metadata_map'[f].filesize \in Int
                        /\ file_metadata_map[f].filesize <= file_metadata_map'[f].filesize
                        /\ WriteReturns(e) /\ api[e].file = f =>
                             api[e].last < file_metadata_map'[f].filesize
<1>1. /\ file_metadata_map \in [Files -> Metadata \union {NoFile}]
      /\ births \in [Files -> Nat] /\ api[e] \in Calls
  BY DEF TypeInv, PFSTypeOK
<1>2. InCatalog(f) => file_metadata_map[f].filesize \in Int
  BY <1>1 DEF InCatalog, Metadata
<1>3. ASSUME file_metadata_map'[f] = file_metadata_map[f],
             PfsDelete(e, f) \/ Epoch(f)' = Epoch(f),
             ~WriteReturns(e)
      PROVE  Goal
  <2>1. InCatalog(f)' <=> InCatalog(f)
    BY <1>3 DEF InCatalog
  <2> QED BY <1>2, <1>3, <2>1
<1>4. ASSUME NEW g \in Files, g # f, PfsCreate(e, g) PROVE Goal
  <2>1. ~WriteReturns(e)
    BY <1>4 DEF PfsCreate, WriteReturns, Resumed, In
  <2>2. file_metadata_map'[f] = file_metadata_map[f] /\ births'[f] = births[f] /\ erasing' = erasing
    BY <1>1, <1>4 DEF PfsCreate, CreateFile
  <2>3. Epoch(f)' = Epoch(f)
    BY <2>2 DEF Epoch, InCatalog
  <2> QED BY <1>3, <2>1, <2>2, <2>3
<1>5. ASSUME NEW g \in Files, PfsDelete(e, g) PROVE Goal
  <2>1. ~WriteReturns(e)
    BY <1>5 DEF PfsDelete, WriteReturns, Resumed, In
  <2>2. /\ file_metadata_map' = file_metadata_map /\ births' = births
        /\ erasing = {} /\ erasing' = {g}
    BY <1>5 DEF PfsDelete, DeleteTest, Unlocked, historyVars
  <2>3. g # f => Epoch(f)' = Epoch(f)
    BY <2>2 DEF Epoch, InCatalog
  <2> QED BY <1>3, <1>5, <2>1, <2>2, <2>3
<1>6. ASSUME WriteReturns(e) PROVE Goal
  <2>1. In(e, "data") /\ births' = births /\ UpdateMetadata(api[e].file, api[e].last + 1)
    BY <1>6 DEF WriteReturns, Resumed
  <2>2. api[e].file \in Files /\ api[e].last \in Int
    BY <1>1, <2>1, CallParts, WriteRangeBytes
  <2>3. PICK g \in Files, size \in Int : g = api[e].file /\ size = api[e].last + 1
    BY <2>2
  <2>4. UpdateMetadata(g, size)
    BY <2>1, <2>3
  <2>5. /\ InCatalog(f)' <=> InCatalog(f)
        /\ Epoch(f)' = Epoch(f)
        /\ InCatalog(f) =>
             /\ file_metadata_map[f].filesize \in Int
             /\ file_metadata_map'[f].filesize \in Int
             /\ file_metadata_map[f].filesize <= file_metadata_map'[f].filesize
             /\ g = f => size <= file_metadata_map'[f].filesize
    BY <2>1, <2>4, UpdateFacts
  <2>6. ASSUME InCatalog(f), g = f PROVE api[e].last < file_metadata_map'[f].filesize
    BY <2>2, <2>3, <2>5, <2>6
  <2> QED BY <2>3, <2>5, <2>6
<1>7. ASSUME DeleteUnlinks(e) PROVE (erasing = {f} /\ ~InCatalog(f)') \/ Goal
  <2>1. DeleteErase /\ UNCHANGED births /\ ~WriteReturns(e)
    BY <1>7 DEF DeleteUnlinks, historyVars, WriteReturns, Resumed, In
  <2> HIDE DEF Goal
  <2> QED BY <1>3, <2>1, EraseFacts
<1>8. ASSUME UNCHANGED <<catalogVars, births>>, ~WriteReturns(e) PROVE Goal
  BY <1>3, <1>8 DEF Epoch, InCatalog
<1>9. PfsCreate(e, f) \/ (DeleteUnlinks(e) /\ erasing = {f} /\ ~InCatalog(f)') \/ Goal
  <2> HIDE DEF Goal
  <2>1. ASSUME NEW g \in Files, PfsCreate(e, g) \/ PfsDelete(e, g)
        PROVE  PfsCreate(e, f) \/ Goal
    BY <1>4, <1>5, <2>1
  <2> QED BY <1>6, <1>7, <1>8, <2>1, CatalogueSteps
<1> QED BY <1>9

\* A deletion ends the epoch of its file when it tests the tokens.
LEMMA DeletionEndsEpoch ==
  ASSUME TypeInv, NEW e \in Clients, NEW f \in Files, PfsDelete(e, f)
  PROVE  Epoch(f)' = Epoch(f) + 1
<1>1. /\ InCatalog(f) /\ InCatalog(f)' /\ births' = births
      /\ f \notin erasing /\ f \in erasing' /\ births[f] \in Nat
  BY DEF PfsDelete, DeleteTest, Unlocked, InCatalog, historyVars, TypeInv, PFSTypeOK
<1> QED BY <1>1 DEF Epoch

\* Its deletions.
InDelete(c) == In(c, "unlink") \/ In(c, "delete") \/ In(c, "remove")

LEMMA DeletingSteps ==
  ASSUME TypeInv, NEW c \in Clients, Step(c), InDelete(c)'
  PROVE  \/ \E f \in Files :
              /\ PfsDelete(c, f)
              /\ api'[c] = DeleteCall("unlink", f, 0, Epoch(f), Alone(f, Int))
         \/ /\ InDelete(c)
            /\ api'[c].file = api[c].file /\ api'[c].epoch = api[c].epoch
            /\ api'[c].alone = api[c].alone
            /\ \/ api'[c].next = api[c].next /\ (In(c, "unlink")' <=> In(c, "unlink"))
               \/ DeleteUnlinks(c) /\ api'[c].next = 0
               \/ DeleteRemoves(c) /\ api'[c].next = api[c].next + 1
<1>1. api \in [Clients -> Calls] /\ api[c] \in Calls
  BY DEF TypeInv, PFSTypeOK
<1>0. ASSUME NEW e, GoTo(c, e) PROVE api'[c] = e
  BY <1>0, <1>1 DEF GoTo
<1>2. ASSUME NEW e, GoTo(c, e), e.stage \notin {"unlink", "delete", "remove"} PROVE FALSE
  BY <1>0, <1>2 DEF In, InDelete
<1>3. CASE \/ PfsInitialize(c) \/ PfsFinish(c) \/ FinishReturns(c) \/ ReadRefused(c)
           \/ WriteBlockFails(c) \/ WriteReturns(c) \/ WriteOrphaned(c)
           \/ DeleteStops(c) \/ DeleteFails(c) \/ Die(c)
  <2>1. \E e \in {Idle, Down, Dead, [stage |-> "finish"]} : GoTo(c, e)
    BY <1>3 DEF PfsInitialize, PfsFinish, FinishReturns, ReadRefused, WriteBlockFails,
       WriteReturns, WriteOrphaned, DeleteStops, DeleteFails, Die, Return
  <2>2. \A e \in {Idle, Down, Dead, [stage |-> "finish"]} :
          e.stage \notin {"unlink", "delete", "remove"}
    BY DEF Idle, Down, Dead
  <2> QED BY <1>2, <2>1, <2>2
<1>4. ASSUME NEW f \in Files,
             \/ PfsClose(c, f)
             \/ \E offset \in Offsets : PfsRead(c, f, offset)
             \/ \E r \in WriteRanges : PfsWrite(c, f, r)
      PROVE  FALSE
  BY <1>2, <1>4 DEF PfsClose, PfsRead, PfsWrite
<1>5. CASE LibraryHangUp(c) \/ WriteBlock(c)
  BY <1>2, <1>5 DEF LibraryHangUp, WriteBlock, DataCall
<1>6. CASE CloseReturns(c)
  <2>1. GoTo(c, api[c].after) /\ api[c].after \in {Idle, [stage |-> "finish"]}
    BY <1>1, <1>6, CallParts DEF CloseReturns, Resumed
  <2> QED BY <1>2, <2>1 DEF Idle
<1>7. ASSUME NEW f \in Files, PfsDelete(c, f)
      PROVE  api'[c] = DeleteCall("unlink", f, 0, Epoch(f), Alone(f, Int))
  BY <1>0, <1>7 DEF PfsDelete
<1>8. CASE DeleteFinds(c)
  <2>1. /\ In(c, "delete")
        /\ api'[c] = DeleteCall("remove", api[c].file, api[c].next, api[c].epoch, api[c].alone)
    BY <1>0, <1>8 DEF DeleteFinds
  <2> QED BY <2>1 DEF DeleteCall, InDelete, In
<1>9. CASE DeleteRemoves(c)
  <2>1. In(c, "remove")
    BY <1>9 DEF DeleteRemoves
  <2>2. CASE DeleteSucceeds(c)
    BY <1>2, <1>9, <2>2 DEF DeleteRemoves, Return, Idle
  <2>3. CASE ~DeleteSucceeds(c)
    <3>1. api'[c] = DeleteCall("delete", api[c].file, api[c].next + 1, api[c].epoch, api[c].alone)
      BY <1>0, <1>9, <2>3 DEF DeleteRemoves
    <3> QED BY <1>9, <2>1, <3>1 DEF DeleteCall, InDelete
  <2> QED BY <2>2, <2>3
<1>10. CASE DeleteUnlinks(c)
  <2>1. /\ In(c, "unlink")
        /\ api'[c] = DeleteCall("delete", api[c].file, 0, api[c].epoch, api[c].alone)
    BY <1>0, <1>10 DEF DeleteUnlinks
  <2> QED BY <1>10, <2>1 DEF DeleteCall, InDelete
<1>11. CASE UNCHANGED api
  BY <1>11 DEF In, InDelete
<1> QED BY <1>3, <1>4, <1>5, <1>6, <1>7, <1>8, <1>9, <1>10, <1>11, CallSteps

\* The handlers that run on: a step of a client adds that of the call it gives
\* up, and only what it is doing itself.
LEMMA LateOf ==
  ASSUME TypeInv, NEW e \in Clients, Step(e), NEW k \in 1..Len(late')
  PROVE  \/ k \in 1..Len(late) /\ late'[k] = late[k]
         \/ /\ late'[k].op = "write" /\ (WriteBlockFails(e) \/ Die(e))
            /\ In(e, "data") /\ late'[k].file = api[e].file /\ late'[k].value = api[e].value
            /\ late'[k].bytes = Chunk(e) /\ api[e].next <= api[e].last
            /\ Settle(api[e].file, Chunk(e), Hole)
         \/ /\ late'[k].op = "remove" /\ late'[k].file = api[e].file
            /\ In(e, "delete") \/ In(e, "remove")
         \/ late'[k].op = "update"
<1>1. late \in Seq(LateCalls)
  BY DEF TypeInv, PFSTypeOK
<1>2. ASSUME NEW h \in LateCalls, late' = Append(late, h)
      PROVE  (k \in 1..Len(late) /\ late'[k] = late[k]) \/ late'[k] = h
  <2>1. /\ Len(late') = Len(late) + 1 /\ late'[Len(late) + 1] = h
        /\ \A j \in 1..Len(late) : late'[j] = late[j]
    BY <1>1, <1>2
  <2>2. k \in 1..Len(late) \/ k = Len(late) + 1
    BY <1>1, <2>1
  <2> QED BY <2>1, <2>2
<1>3. CASE UNCHANGED late
  BY <1>3
<1> QED BY <1>2, <1>3, LateMoves

\* A handler that ends leaves the others.
LEMMA LateOfHandler ==
  ASSUME TypeInv, NEW i \in 1..Len(late), late' = RemoveAt(late, i), NEW k \in 1..Len(late')
  PROVE  \E j \in 1..Len(late) : late'[k] = late[j]
<1>1. late \in Seq(LateCalls) /\ Len(late) \in Nat
  BY DEF TypeInv, PFSTypeOK
<1>2. Len(late') = Len(late) - 1
  BY <1>1, RemoveAtFacts, Zenon
<1>3. \A j \in 1..Len(late) - 1 : late'[j] = IF j < i THEN late[j] ELSE late[j + 1]
  BY <1>1, RemoveAtFacts, Zenon
<1>4. k \in 1..Len(late) /\ k + 1 \in 1..Len(late) /\ k \in 1..Len(late) - 1
  BY <1>1, <1>2
<1>5. CASE k < i
  BY <1>3, <1>4, <1>5
<1>6. CASE ~(k < i)
  <2>1. late'[k] = late[k + 1]
    BY <1>3, <1>4, <1>6
  <2> QED BY <1>4, <2>1
<1> QED BY <1>5, <1>6

LEMMA DeletionBegins ==
  ASSUME TypeInv, NEW e \in Clients, Step(e), NEW f \in Files, Deleting(f)', ~Deleting(f)
  PROVE  DeleteUnlinks(e) /\ api[e].file = f
<1>1. ASSUME NEW k \in 1..Len(late'), IsLate("remove", f, late'[k]) PROVE FALSE
  <2>1. late'[k].op = "remove" /\ late'[k].file = f
    BY <1>1 DEF IsLate
  <2>2. CASE k \in 1..Len(late) /\ late'[k] = late[k]
    BY <1>1, <2>2 DEF Deleting
  <2>3. CASE late'[k].file = api[e].file /\ (In(e, "delete") \/ In(e, "remove"))
    BY <2>1, <2>3 DEF Deleting
  <2> QED BY <2>1, <2>2, <2>3, LateOf
<1>2. PICK c \in Clients : (In(c, "delete") \/ In(c, "remove"))' /\ api'[c].file = f
  BY <1>1 DEF Deleting
<1>3. c = e
  <2>1. c # e => api'[c] = api[c]
    BY StepIsLocal DEF SameFor
  <2> QED BY <1>2, <2>1 DEF Deleting, In
<1>4. ASSUME NEW g \in Files, api'[c] = DeleteCall("unlink", g, 0, Epoch(g), Alone(g, Int))
      PROVE  FALSE
  BY <1>2, <1>4 DEF DeleteCall, In
<1>5. /\ InDelete(c) /\ api'[c].file = api[c].file
      /\ \/ In(c, "unlink")' <=> In(c, "unlink")
         \/ DeleteUnlinks(c) \/ DeleteRemoves(c)
  <2>1. InDelete(c)'
    BY <1>2 DEF InDelete
  <2> QED BY <1>3, <1>4, <2>1, DeletingSteps
<1>6. ~In(c, "delete") /\ ~In(c, "remove") /\ ~In(c, "unlink")'
  BY <1>2, <1>5 DEF Deleting, In
<1> QED BY <1>2, <1>3, <1>5, <1>6 DEF InDelete, DeleteRemoves

\* Its bytes change in the block that a client is writing, or when a deletion
\* removes them.
LEMMA ByteMoves ==
  ASSUME TypeInv, NEW e \in Clients, Step(e),
         NEW s \in ServerIds, NEW f \in Files, NEW b \in Bytes
  PROVE  \/ ByteAt(s, f, b)' = ByteAt(s, f, b)
         \/ ByteAt(s, f, b)' = Hole /\ Deleting(f)
         \/ /\ WriteBlock(e) /\ In(e, "data") /\ api[e].file = f /\ api[e].next <= api[e].last
            /\ b \in Chunk(e) /\ ByteAt(s, f, b)' = api[e].value
<1>1. storage \in [ServerIds -> [Files -> Bytewise \union {Missing}]]
  BY DEF TypeInv, PFSTypeOK
<1>2. CASE UNCHANGED storage
  BY <1>2 DEF ByteAt, Stored
<1>3. CASE /\ WriteBlock(e)
           /\ In(e, "data") /\ api[e].file \in Files /\ api[e].value \in Values
           /\ api[e].next \in Int /\ ServerOf(e, api[e].next) \in ServerIds
           /\ WriteFile(ServerOf(e, api[e].next), api[e].file, Chunk(e), api[e].value)
  <2>1. api[e].next <= api[e].last
    BY <1>3 DEF WriteBlock
  <2>2. ByteAt(s, f, b)' = IF s = ServerOf(e, api[e].next) /\ f = api[e].file /\ b \in Chunk(e)
                           THEN api[e].value ELSE ByteAt(s, f, b)
    BY <1>1, <1>3, WriteFileFacts
  <2> QED BY <1>3, <2>1, <2>2
<1>4. CASE /\ DeleteRemoves(e)
           /\ In(e, "remove") /\ api[e].file \in Files /\ Target(e) \in ServerIds
           /\ RemoveFile(Target(e), api[e].file)
  <2>1. ByteAt(s, f, b)' = IF s = Target(e) /\ f = api[e].file THEN Hole ELSE ByteAt(s, f, b)
    BY <1>1, <1>4, RemoveFileFacts
  <2>2. f = api[e].file => Deleting(f)
    BY <1>4 DEF Deleting
  <2> QED BY <2>1, <2>2
<1> QED BY <1>2, <1>3, <1>4, StorageMoves

\* What is known of it: a WriteFile unsettles its block, and only a pfs_write
\* that returns settles bytes.
LEMMA SettledOf ==
  ASSUME TypeInv, NEW e \in Clients, Step(e), NEW f \in Files, ~PfsCreate(e, f),
         NEW b \in Bytes, settled'[f][b] # Hole
  PROVE  \/ /\ settled'[f][b] = settled[f][b]
            /\ WriteBlock(e) => ~(api[e].file = f /\ b \in Chunk(e))
         \/ /\ WriteReturns(e) /\ In(e, "data") /\ api[e].file = f
            /\ b \in api[e].first .. api[e].last
            /\ api[e].value.epoch = Epoch(f) /\ Aligned(e)
            /\ settled'[f][b] = api[e].value
<1>1. settled \in [Files -> Bytewise] /\ api[e] \in Calls
  BY DEF TypeInv, PFSTypeOK
<1>2. CASE In(e, "data") /\ api[e].file \in Files /\ Settle(api[e].file, Chunk(e), Hole)
  <2>1. settled'[f][b] = IF f = api[e].file /\ b \in Chunk(e) THEN Hole ELSE settled[f][b]
    BY <1>1, <1>2, SettleFacts
  <2> QED BY <2>1
<1>3. CASE /\ WriteReturns(e) /\ In(e, "data") /\ api[e].file \in Files /\ api[e].value \in Values
           /\ Settle(api[e].file, api[e].first .. api[e].last,
                     IF api[e].value.epoch = Epoch(api[e].file) /\ Aligned(e)
                     THEN api[e].value ELSE Hole)
  <2> DEFINE bytes == api[e].first .. api[e].last
             kept == api[e].value.epoch = Epoch(api[e].file) /\ Aligned(e)
             value == IF kept THEN api[e].value ELSE Hole
  <2>1. Settle(api[e].file, bytes, value) /\ value \in Values \union {Hole}
    BY <1>3
  <2>2. ~WriteBlock(e)
    <3>1. api[e].next \in Int /\ api[e].last \in Int
      BY <1>1, <1>3, CallParts, WriteRangeBytes
    <3> QED BY <1>3, <3>1 DEF WriteBlock, WriteReturns
  <2> HIDE DEF value, bytes
  <2>3. settled'[f][b] = IF f = api[e].file /\ b \in bytes THEN value ELSE settled[f][b]
    BY <1>1, <1>3, <2>1, SettleFacts
  <2>4. CASE f = api[e].file /\ b \in bytes
    <3>1. value # Hole
      BY <2>3, <2>4
    <3>2. kept /\ value = api[e].value
      BY <3>1 DEF value
    <3> QED BY <1>3, <2>3, <2>4, <3>2 DEF bytes
  <2>5. CASE ~(f = api[e].file /\ b \in bytes)
    BY <2>2, <2>3, <2>5
  <2> QED BY <2>4, <2>5
<1>4. CASE \E g \in Files : PfsCreate(e, g) /\ settled' = [settled EXCEPT ![g] = Nothing]
  <2>1. PICK g \in Files : PfsCreate(e, g) /\ settled' = [settled EXCEPT ![g] = Nothing]
    BY <1>4
  <2>2. settled'[f] = settled[f]
    BY <1>1, <2>1
  <2>3. ~WriteBlock(e)
    BY <2>1 DEF PfsCreate, WriteBlock, Resumed, In
  <2> QED BY <2>2, <2>3
<1>5. CASE settled' = settled
  <2>1. ASSUME WriteBlock(e), api[e].file = f, b \in Chunk(e) PROVE FALSE
    <3>1. In(e, "data") /\ Settle(api[e].file, Chunk(e), Hole)
      BY <2>1 DEF WriteBlock, Resumed
    <3>2. settled'[f][b] = Hole
      BY <1>1, <2>1, <3>1, SettleFacts
    <3> QED BY <3>2
  <2> QED BY <1>5, <2>1
<1> QED BY <1>2, <1>3, <1>4, <1>5, SettledMoves

-----------------------------------------------------------------------------
(* What was written stays.                                                  *)

\* A step that does not create f in a state in which the invariant says
\* something of f.
LEMMA KeptStep ==
  ASSUME TypeInv, NEW e \in Clients, Step(e), NEW f \in Files,
         InCatalog(f), InCatalog(f)', ~Deleting(f), Kept(f), Written(e, f), ~PfsCreate(e, f)
  PROVE  Kept(f)'
<1> SUFFICES ASSUME NEW b \in Bytes, settled'[f][b] # Hole, settled'[f][b].alone
             PROVE  /\ ByteAt(StripeOf(Listed(NumServers), b), f, b)' = settled'[f][b]
                    /\ b < file_metadata_map'[f].filesize
  BY DEF Kept, KeptByte, StripeOf, Listed
<1> DEFINE s == StripeOf(Listed(NumServers), b)
<1>1. b \in Int
  BY WriteRangeBytes
<1>2. s \in ServerIds
  BY <1>1, StripeIsServer
<1> HIDE DEF s
<1>3. /\ file_metadata_map[f].filesize \in Int
      /\ file_metadata_map'[f].filesize \in Int
      /\ file_metadata_map[f].filesize <= file_metadata_map'[f].filesize
      /\ WriteReturns(e) /\ api[e].file = f => api[e].last < file_metadata_map'[f].filesize
  BY CatalogueOf
<1>4. CASE /\ settled'[f][b] = settled[f][b]
           /\ WriteBlock(e) => ~(api[e].file = f /\ b \in Chunk(e))
  <2>1. ByteAt(s, f, b) = settled[f][b] /\ b < file_metadata_map[f].filesize
    BY <1>4 DEF Kept, KeptByte, s
  <2>2. ByteAt(s, f, b)' = ByteAt(s, f, b)
    BY <1>2, <1>4, ByteMoves
  <2>3. b < file_metadata_map'[f].filesize
    BY <1>1, <1>3, <2>1
  <2> QED BY <1>4, <2>1, <2>2, <2>3 DEF s
<1>5. CASE /\ WriteReturns(e) /\ In(e, "data") /\ api[e].file = f
           /\ b \in api[e].first .. api[e].last
           /\ api[e].value.epoch = Epoch(f) /\ Aligned(e)
           /\ settled'[f][b] = api[e].value
  <2>1. api[e].next > api[e].last /\ UNCHANGED storage
    BY <1>5 DEF WriteReturns
  <2>2. api[e].first \in Int /\ api[e].last \in Int /\ api[e].next \in Int
    <3>1. api[e].first \in Bytes /\ api[e].last \in Bytes /\ api[e].next \in Int
      BY <1>5, CallParts DEF TypeInv, PFSTypeOK
    <3> QED BY <3>1, WriteRangeBytes
  <2>3. api[e].first <= b /\ b < api[e].next /\ b <= api[e].last
    BY <1>1, <1>5, <2>1, <2>2
  <2>4. ByteAt(s, f, b) = api[e].value
    BY <1>5, <2>3 DEF Written, s
  <2>5. ByteAt(s, f, b)' = ByteAt(s, f, b)
    BY <2>1 DEF ByteAt, Stored
  <2>6. b < file_metadata_map'[f].filesize
    BY <1>1, <1>3, <1>5, <2>2, <2>3
  <2> QED BY <1>5, <2>4, <2>5, <2>6 DEF s
<1> QED BY <1>4, <1>5, SettledOf

\* The blocks that a client is done with.
LEMMA WrittenStep ==
  ASSUME TokenInv, TypeInv, WaitingMetConflict, HoldersCovered,
         NEW e \in Clients, Step(e), NEW f \in Files, ~Contested(f),
         InCatalog(f), InCatalog(f)', ~Deleting(f), NEW c \in Clients, Written(c, f),
         ~PfsCreate(e, f)
  PROVE  Written(c, f)'
<1> SUFFICES ASSUME In(c, "data")', api'[c].file = f, api'[c].value.epoch = Epoch(f)',
                    api'[c].value.alone, Aligned(c)',
                    NEW b \in Bytes, api'[c].first <= b, b < api'[c].next
             PROVE  ByteAt(StripeOf(Listed(NumServers), b), f, b)' = api'[c].value
  BY DEF Written, StripeOf, Listed
<1> DEFINE s == StripeOf(Listed(NumServers), b)
<1>1. b \in Int /\ api[c] \in Calls /\ LoopInBounds(c)
  BY WriteRangeBytes DEF TypeInv, PFSTypeOK
<1>2. s \in ServerIds
  BY <1>1, StripeIsServer
<1> HIDE DEF s
<1>3. ASSUME In(c, "data"), api[c].file = f, api'[c].value = api[c].value
      PROVE  Epoch(f)' = Epoch(f)
  <2>1. ASSUME PfsDelete(e, f) PROVE FALSE
    <3>1. Epoch(f)' = Epoch(f) + 1
      BY <2>1, DeletionEndsEpoch
    <3>2. api[c].value.epoch <= Epoch(f) /\ Epoch(f) \in Nat /\ api[c].value.epoch = Epoch(f)'
      BY <1>3, EpochType DEF TypeInv, CallsInv, EpochsOf, PFSTypeOK
    <3> QED BY <3>1, <3>2
  <2> QED BY <2>1, CatalogueOf
<1>4. ASSUME In(c, "data"), api[c].file = f, api'[c].value = api[c].value,
             file_server_stubs'[c] = file_server_stubs[c], api[c].first <= b, b < api[c].next
      PROVE  ByteAt(s, f, b) = api'[c].value
  <2>1. Aligned(c)
    BY <1>4 DEF Aligned, Listed
  <2>2. api[c].value.epoch = Epoch(f) /\ api[c].value.alone
    BY <1>3, <1>4
  <2> QED BY <1>4, <2>1, <2>2 DEF Written, s
<1>5. CASE c # e
  <2>1. api'[c] = api[c] /\ file_server_stubs'[c] = file_server_stubs[c]
    BY <1>5, StepIsLocal, ConnectedStep DEF SameFor
  <2>2. In(c, "data") /\ api[c].file = f /\ api[c].first <= b /\ b < api[c].next
    BY <2>1 DEF In
  <2>3. ByteAt(s, f, b) = api'[c].value
    BY <1>4, <2>1, <2>2
  <2>4. ASSUME In(e, "data"), api[e].file = f, api[e].next <= api[e].last, b \in Chunk(e)
        PROVE  FALSE
    <3>1. api[e].first <= b /\ b <= api[e].last
      BY <2>4, ChunkFacts
    <3>2. api[c].last < api[e].first \/ api[e].last < api[c].first
      BY <1>5, <2>2, <2>4, WritersHold, HoldersApart
    <3>3. /\ api[c].first \in Bytes /\ api[c].last \in Bytes /\ api[c].next \in Int
          /\ api[e].first \in Bytes /\ api[e].last \in Bytes
      BY <1>1, <2>2, <2>4, CallParts DEF TypeInv, PFSTypeOK
    <3>4. /\ api[c].first \in Int /\ api[c].last \in Int
          /\ api[e].first \in Int /\ api[e].last \in Int
      BY <3>3, WriteRangeBytes
    <3>5. api[c].next <= api[c].last + 1
      BY <1>1, <2>2, <3>4 DEF LoopInBounds
    <3> QED BY <1>1, <2>2, <3>1, <3>2, <3>3, <3>4, <3>5
  <2>5. ByteAt(s, f, b)' = ByteAt(s, f, b)
    BY <1>2, <2>4, ByteMoves
  <2> QED BY <2>3, <2>5 DEF s
<1>6. CASE /\ c = e /\ LibraryHangUp(c) /\ In(c, "write")
           /\ api'[c] = DataCall(api[c].file, api[c].first, api[c].last, api[c].next,
                                 Value(c, api[c].file, api[c].first .. api[c].last))
  <2>1. api[c].next = api[c].first
    BY <1>6 DEF TypeInv, CallsInv, AsksForItsBytes
  <2>2. api[c].first \in Int
    <3>1. api[c].first \in Bytes
      BY <1>1, <1>6, CallParts
    <3> QED BY <3>1, WriteRangeBytes
  <2>3. api'[c].first = api[c].first /\ api'[c].next = api[c].first
    BY <1>6, <2>1 DEF DataCall
  <2> QED BY <1>1, <2>2, <2>3
<1>7. CASE /\ c = e /\ WriteBlock(c) /\ In(c, "data")
           /\ api'[c] = DataCall(api[c].file, api[c].first, api[c].last,
                                 ChunkEnd(api[c].next, api[c].last) + 1, api[c].value)
  <2>1. /\ api'[c].file = api[c].file /\ api'[c].first = api[c].first
        /\ api'[c].next = ChunkEnd(api[c].next, api[c].last) + 1
        /\ api'[c].value = api[c].value
    BY <1>7 DEF DataCall
  <2>2. /\ file_server_stubs'[c] = file_server_stubs[c] /\ api[c].next <= api[c].last
        /\ WriteChunk(c)
    BY <1>7 DEF WriteBlock
  <2>3. /\ api[c].next \in Int /\ api[c].last \in Int /\ api[c].value \in Values
        /\ ServerOf(c, api[c].next) \in ServerIds
    <3>1. api[c].next \in Int /\ api[c].last \in Bytes /\ api[c].value \in Values
      BY <1>1, <1>7, CallParts
    <3>2. Initialized(c)
      BY <1>7 DEF Initialized, In
    <3> QED BY <3>1, <3>2, WriteRangeBytes, ReachedServers
  <2>4. ByteAt(s, f, b)' = IF s = ServerOf(c, api[c].next) /\ b \in Chunk(c)
                           THEN api[c].value ELSE ByteAt(s, f, b)
    <3>1. storage \in [ServerIds -> [Files -> Bytewise \union {Missing}]]
      BY DEF TypeInv, PFSTypeOK
    <3>2. WriteFile(ServerOf(c, api[c].next), f, Chunk(c), api[c].value)
      BY <2>1, <2>2 DEF WriteChunk
    <3> QED BY <1>2, <2>3, <3>1, <3>2, WriteFileFacts
  <2>5. CASE b \in Chunk(c)
    <3>1. Aligned(c)
      BY <2>2 DEF Aligned, Listed
    <3>2. ServerOf(c, api[c].next) = s
      BY <1>7, <2>2, <2>5, <3>1, ChunkFacts DEF s
    <3> QED BY <2>1, <2>4, <2>5, <3>2 DEF s
  <2>6. CASE b \notin Chunk(c)
    <3>1. ChunkEnd(api[c].next, api[c].last) \in Int
      BY <2>2, <2>3, ChunkBounds
    <3>2. b < api[c].next
      BY <1>1, <2>1, <2>3, <2>6, <3>1 DEF Chunk
    <3>3. ByteAt(s, f, b) = api'[c].value
      BY <1>4, <1>7, <2>1, <2>2, <3>2
    <3> QED BY <2>4, <2>6, <3>3 DEF s
  <2> QED BY <2>5, <2>6
<1>8. CASE c = e /\ UNCHANGED api /\ Serve(c) /\ In(c, "data")
  <2>1. UNCHANGED <<storage, file_server_stubs>>
    BY <1>8 DEF Serve, libraryVars
  <2>2. ByteAt(s, f, b)' = ByteAt(s, f, b)
    BY <2>1 DEF ByteAt, Stored
  <2>3. ByteAt(s, f, b) = api'[c].value
    BY <1>4, <1>8, <2>1
  <2> QED BY <2>2, <2>3 DEF s
<1> QED BY <1>5, <1>6, <1>7, <1>8, WritingSteps

\* A call that is given up unsettles its block, no other client is writing it,
\* and a pfs_write remembers whether it found its bytes alone.
LEMMA LateApartStep ==
  ASSUME TokenInv, TypeInv, WaitingMetConflict, HoldersCovered,
         NEW e \in Clients, Step(e), NEW f \in Files, ~Contested(f), LateApart(f)
  PROVE  LateApart(f)'
<1>1. settled \in [Files -> Bytewise] /\ api \in [Clients -> Calls]
  BY DEF TypeInv, PFSTypeOK
<1>2. ASSUME NEW b \in Bytes, settled'[f][b] # Hole, settled'[f][b].alone
      PROVE  Alone(f, {b})'
  <2>1. ASSUME NEW k \in 1..Len(late'), IsLate("write", f, late'[k]), b \in late'[k].bytes
        PROVE  FALSE
    <3>1. late'[k].op = "write" /\ late'[k].file = f
      BY <2>1 DEF IsLate
    <3>2. ASSUME k \in 1..Len(late), late'[k] = late[k] PROVE ~Alone(f, {b})
      BY <2>1, <3>2 DEF Alone
    <3>3. ASSUME late'[k].file = api[e].file, late'[k].bytes = Chunk(e),
                 Settle(api[e].file, Chunk(e), Hole)
          PROVE  FALSE
      <4>1. settled'[f][b] = Hole
        BY <1>1, <2>1, <3>1, <3>3, SettleFacts
      <4> QED BY <1>2, <4>1
    <3>4. k \in 1..Len(late) /\ late'[k] = late[k]
      BY <3>1, <3>3, LateOf
    <3>5. ~Alone(f, {b})
      BY <3>2, <3>4
    <3>6. ~PfsCreate(e, f)
      <4>1. PfsCreate(e, f) => settled'[f] = Nothing
        BY <1>1 DEF PfsCreate
      <4>2. Nothing[b] = Hole
        BY DEF Nothing
      <4> QED BY <1>2, <4>1, <4>2
    <3>7. CASE settled'[f][b] = settled[f][b]
      BY <1>2, <3>5, <3>7 DEF LateApart
    <3>8. CASE /\ In(e, "data") /\ api[e].file = f /\ b \in api[e].first .. api[e].last
               /\ settled'[f][b] = api[e].value
      <4>1. Alone(f, api[e].first .. api[e].last)
        BY <1>2, <3>8 DEF LateApart
      <4> QED BY <2>1, <3>4, <3>8, <4>1 DEF Alone
    <3> QED BY <1>2, <3>6, <3>7, <3>8, SettledOf
  <2> QED BY <2>1 DEF Alone, IsLate
<1>3. ASSUME NEW c \in Clients, In(c, "data")', api'[c].file = f, api'[c].value.alone
      PROVE  Alone(f, api[c].first .. api[c].last)'
  <2>1. CASE /\ c = e /\ LibraryHangUp(c) /\ In(c, "write")
             /\ api'[c] = DataCall(api[c].file, api[c].first, api[c].last, api[c].next,
                                   Value(c, api[c].file, api[c].first .. api[c].last))
    <3>1. /\ api[c].file = f /\ api'[c].first = api[c].first /\ api'[c].last = api[c].last
          /\ api'[c].value = Value(c, f, api[c].first .. api[c].last)
      BY <1>3, <2>1 DEF DataCall
    <3>2. Alone(f, api[c].first .. api[c].last)
      BY <1>3, <3>1 DEF Value
    <3>3. late' = late
      BY <2>1 DEF LibraryHangUp
    <3> QED BY <3>1, <3>2, <3>3 DEF Alone, DataCall
  <2>2. ASSUME In(c, "data"), api[c].file = f, api'[c].value = api[c].value,
               api'[c].first = api[c].first, api'[c].last = api[c].last
        PROVE  Alone(f, api[c].first .. api[c].last)'
    <3>1. Alone(f, api[c].first .. api[c].last)
      BY <1>3, <2>2 DEF LateApart
    <3>2. ASSUME NEW k \in 1..Len(late'), IsLate("write", f, late'[k]),
                 NEW b \in late'[k].bytes, b \in api[c].first .. api[c].last
          PROVE  FALSE
      <4>1. late'[k].op = "write" /\ late'[k].file = f
        BY <3>2 DEF IsLate
      <4>2. CASE k \in 1..Len(late) /\ late'[k] = late[k]
        BY <3>1, <3>2, <4>2 DEF Alone
      <4>3. CASE /\ WriteBlockFails(e) \/ Die(e)
                 /\ In(e, "data") /\ late'[k].file = api[e].file
                 /\ late'[k].bytes = Chunk(e) /\ api[e].next <= api[e].last
        <5>1. api'[e] = Idle \/ api'[e] = Dead
          BY <1>1, <4>3 DEF WriteBlockFails, Die, Return, GoTo
        <5>2. c # e
          BY <1>3, <5>1 DEF In, Idle, Dead
        <5>3. api[e].file = f
          BY <4>1, <4>3
        <5>4. api[c].last < api[e].first \/ api[e].last < api[c].first
          BY <2>2, <4>3, <5>2, <5>3, WritersHold, HoldersApart
        <5>5. b \in Int /\ api[e].first <= b /\ b <= api[e].last
          BY <3>2, <4>3, ChunkFacts
        <5>6. /\ api[c].first \in Int /\ api[c].last \in Int
              /\ api[e].first \in Int /\ api[e].last \in Int
          BY <1>1, <2>2, <4>3, CallParts, WriteRangeBytes
        <5> QED BY <3>2, <5>4, <5>5, <5>6
      <4> QED BY <4>1, <4>2, <4>3, LateOf
    <3>3. \A k \in 1..Len(late') : IsLate("write", f, late'[k]) =>
            late'[k].bytes \cap (api[c].first .. api[c].last) = {}
      BY <3>2
    <3> QED BY <2>2, <3>3 DEF Alone, IsLate
  <2>3. CASE c # e
    <3>1. api'[c] = api[c]
      BY <2>3, StepIsLocal DEF SameFor
    <3> QED BY <1>3, <2>2, <3>1 DEF In
  <2>4. CASE /\ c = e /\ In(c, "data")
             /\ api'[c] = DataCall(api[c].file, api[c].first, api[c].last,
                                   ChunkEnd(api[c].next, api[c].last) + 1, api[c].value)
    <3>1. /\ api'[c].file = api[c].file /\ api'[c].value = api[c].value
          /\ api'[c].first = api[c].first /\ api'[c].last = api[c].last
      BY <2>4 DEF DataCall
    <3> QED BY <1>3, <2>2, <2>4, <3>1
  <2>5. CASE c = e /\ UNCHANGED api /\ In(c, "data")
    BY <1>3, <2>2, <2>5
  <2> QED BY <1>3, <2>1, <2>3, <2>4, <2>5, WritingSteps
<1> QED BY <1>2, <1>3 DEF LateApart

\* A file that is created holds nothing yet, and nothing of it is being written.
LEMMA CreatedKept ==
  ASSUME TypeInv, NEW e \in Clients, Step(e), NEW f \in Files, PfsCreate(e, f), clean'[f]
  PROVE  ~Deleting(f)' /\ Kept(f)' /\ \A c \in Clients : Written(c, f)'
<1>1. /\ clean \in [Files -> BOOLEAN] /\ settled \in [Files -> Bytewise]
      /\ births \in [Files -> Nat]
      /\ file_metadata_map \in [Files -> Metadata \union {NoFile}]
  BY DEF TypeInv, PFSTypeOK
<1>2. /\ UNCHANGED <<api, late>> /\ ~InCatalog(f) /\ erasing' = {}
      /\ clean' = [clean EXCEPT ![f] = ~Deleting(f)]
      /\ settled' = [settled EXCEPT ![f] = Nothing]
      /\ births' = [births EXCEPT ![f] = @ + 1]
      /\ file_metadata_map' = [file_metadata_map EXCEPT ![f] = [filesize |-> 0]]
  BY DEF PfsCreate, CreateFile, Unlocked, libraryVars
<1>3. ~Deleting(f)'
  <2>1. clean'[f] = ~Deleting(f)
    BY <1>1, <1>2
  <2>2. ~Deleting(f)
    BY <2>1
  <2> QED BY <1>2, <2>2 DEF Deleting, In, IsLate
<1>4. Kept(f)'
  <2>1. settled'[f] = Nothing
    BY <1>1, <1>2
  <2>2. \A b \in Bytes : settled'[f][b] = Hole
    BY <2>1 DEF Nothing
  <2> QED BY <2>2 DEF Kept
<1>5. ASSUME NEW c \in Clients PROVE Written(c, f)'
  <2> SUFFICES ASSUME In(c, "data"), api[c].file = f, api[c].value.epoch = Epoch(f)' PROVE FALSE
    BY <1>2 DEF Written, In
  <2>1. api[c].value.epoch <= Epoch(f)
    BY DEF TypeInv, CallsInv, EpochsOf
  <2>2. births[f] \in Nat /\ births'[f] = births[f] + 1
    BY <1>1, <1>2
  <2>3. InCatalog(f)' /\ f \notin erasing'
    <3>1. file_metadata_map'[f] = [filesize |-> 0] /\ [filesize |-> 0] \in Metadata
      BY <1>1, <1>2 DEF Metadata
    <3> QED BY <1>2, <3>1, NoFileAssumption DEF InCatalog
  <2>4. Epoch(f) = 2 * births[f] /\ Epoch(f)' = 2 * (births[f] + 1) - 1
    BY <1>2, <2>2, <2>3 DEF Epoch
  <2> QED BY <2>1, <2>2, <2>4
<1> QED BY <1>3, <1>4, <1>5

LEMMA FilesKeptStep ==
  ASSUME TokenInv, TypeInv, WaitingMetConflict, HoldersCovered, FilesKept,
         NEW e \in Clients, Step(e)
  PROVE  FilesKept'
<1>1. ASSUME NEW f \in Files, ~Contested(f)' PROVE LateApart(f)' /\ ~Contested(f)
  <2>1. ~Contested(f)
    BY <1>1, TokenStepOf, ContestedStays DEF TokenInv
  <2> QED BY <2>1, LateApartStep DEF FilesKept
<1>2. ASSUME NEW f \in Files, InCatalog(f)', clean'[f]
      PROVE  /\ ~Deleting(f)'
             /\ ~Contested(f)' => Kept(f)' /\ \A c \in Clients : Written(c, f)'
  <2>1. CASE PfsCreate(e, f)
    BY <1>2, <2>1, CreatedKept
  <2>2. CASE ~PfsCreate(e, f)
    <3>1. InCatalog(f)
      BY <1>2, <2>2, CatalogueOf
    <3>2. clean[f]
      <4>1. ASSUME NEW g \in Files, PfsCreate(e, g), clean' = [clean EXCEPT ![g] = ~Deleting(g)]
            PROVE  clean'[f] = clean[f]
        <5>1. g # f /\ clean \in [Files -> BOOLEAN]
          BY <2>2, <4>1 DEF TypeInv, PFSTypeOK
        <5> QED BY <4>1, <5>1
      <4>2. clean'[f] = clean[f]
        BY <4>1, SettledMoves
      <4> QED BY <1>2, <4>2
    <3>3. ~Deleting(f) /\ (~Contested(f) => Kept(f) /\ \A c \in Clients : Written(c, f))
      BY <3>1, <3>2 DEF FilesKept
    <3>4. ~Deleting(f)'
      <4>1. ASSUME DeleteUnlinks(e), api[e].file = f PROVE FALSE
        <5>1. erasing = {f} /\ DeleteErase /\ UNCHANGED births
          BY <4>1 DEF DeleteUnlinks, historyVars, TypeInv, CallsInv, UnlinksAlone
        <5>2. PICK g \in erasing : file_metadata_map' = [file_metadata_map EXCEPT ![g] = NoFile]
          BY <5>1 DEF DeleteErase
        <5>3. g = f /\ file_metadata_map'[f] = NoFile
          BY <5>1, <5>2 DEF TypeInv, PFSTypeOK
        <5> QED BY <1>2, <5>3 DEF InCatalog
      <4> QED BY <3>3, <4>1, DeletionBegins
    <3>5. ASSUME ~Contested(f)' PROVE Kept(f)' /\ \A c \in Clients : Written(c, f)'
      <4>1. ~Contested(f)
        BY <1>1, <3>5
      <4>2. Kept(f)'
        BY <1>2, <2>2, <3>1, <3>3, <4>1, KeptStep
      <4>3. ASSUME NEW c \in Clients PROVE Written(c, f)'
        BY <1>2, <2>2, <3>1, <3>3, <4>1, WrittenStep
      <4> QED BY <4>2, <4>3
    <3> QED BY <3>4, <3>5
  <2> QED BY <2>1, <2>2
<1> QED BY <1>1, <1>2 DEF FilesKept

LEMMA FilesKeptDurable ==
  ASSUME FilesKept
  PROVE  Durable
BY DEF FilesKept, Durable

-----------------------------------------------------------------------------
(* What servers go on with unasked.                                         *)

\* It leaves the handlers that still run, and a file that stays in the
\* catalogue as it is there.
LEMMA UnaskedOf ==
  ASSUME TypeInv, Unasked
  PROVE  /\ \A k \in 1..Len(late') : \E j \in 1..Len(late) : late'[k] = late[j]
         /\ \A f \in Files : InCatalog(f)' =>
              /\ InCatalog(f) /\ Epoch(f)' = Epoch(f)
              /\ file_metadata_map[f].filesize \in Int
              /\ file_metadata_map'[f].filesize \in Int
              /\ file_metadata_map[f].filesize <= file_metadata_map'[f].filesize
<1>1. /\ UNCHANGED births
      /\ file_metadata_map \in [Files -> Metadata \union {NoFile}] /\ late \in Seq(LateCalls)
  BY UnaskedIsQuiet DEF historyVars, TypeInv, PFSTypeOK
<1>2. ASSUME NEW f \in Files, InCatalog(f)', file_metadata_map'[f] = file_metadata_map[f],
             Epoch(f)' = Epoch(f)
      PROVE  /\ InCatalog(f) /\ Epoch(f)' = Epoch(f)
             /\ file_metadata_map[f].filesize \in Int
             /\ file_metadata_map'[f].filesize \in Int
             /\ file_metadata_map[f].filesize <= file_metadata_map'[f].filesize
  BY <1>1, <1>2 DEF InCatalog, Metadata
<1>3. CASE UnlinkUnasked
  <2>1. DeleteErase /\ late' = late
    BY <1>3 DEF UnlinkUnasked
  <2>2. ASSUME NEW f \in Files, InCatalog(f)'
        PROVE  file_metadata_map'[f] = file_metadata_map[f] /\ Epoch(f)' = Epoch(f)
    BY <1>1, <2>1, <2>2, EraseFacts
  <2> QED BY <1>2, <2>1, <2>2
<1>4. ASSUME NEW i \in 1..Len(late), LateHandler(i)
      PROVE  /\ \A k \in 1..Len(late') : \E j \in 1..Len(late) : late'[k] = late[j]
             /\ \A f \in Files : InCatalog(f)' =>
                  /\ InCatalog(f) /\ Epoch(f)' = Epoch(f)
                  /\ file_metadata_map[f].filesize \in Int
                  /\ file_metadata_map'[f].filesize \in Int
                  /\ file_metadata_map[f].filesize <= file_metadata_map'[f].filesize
  <2>1. late' = RemoveAt(late, i)
    BY <1>4 DEF LateHandler
  <2>2. \A k \in 1..Len(late') : \E j \in 1..Len(late) : late'[k] = late[j]
    BY <2>1, LateOfHandler
  <2>3. ASSUME NEW f \in Files, InCatalog(f)'
        PROVE  /\ InCatalog(f) /\ Epoch(f)' = Epoch(f)
               /\ file_metadata_map[f].filesize \in Int
               /\ file_metadata_map'[f].filesize \in Int
               /\ file_metadata_map[f].filesize <= file_metadata_map'[f].filesize
    <3>1. CASE UNCHANGED catalogVars
      BY <1>1, <1>2, <2>3, <3>1 DEF Epoch, InCatalog
    <3>2. ASSUME late[i].op = "update", UpdateMetadata(late[i].file, late[i].filesize)
          PROVE  /\ InCatalog(f) /\ Epoch(f)' = Epoch(f)
                 /\ file_metadata_map[f].filesize \in Int
                 /\ file_metadata_map'[f].filesize \in Int
                 /\ file_metadata_map[f].filesize <= file_metadata_map'[f].filesize
      <4>1. late[i].file \in Files /\ late[i].filesize \in Int
        BY <1>1, <3>2, LateParts
      <4> QED BY <1>1, <2>3, <3>2, <4>1, UpdateFacts
    <3> QED BY <1>4, <3>1, <3>2 DEF LateHandler, LateWrite, LateRemove, LateUpdate
  <2> QED BY <2>2, <2>3
<1> QED BY <1>3, <1>4 DEF Unasked

\* It removes a file that is being deleted, or writes what a call given up wrote.
LEMMA UnaskedBytes ==
  ASSUME TypeInv, Unasked, NEW s \in ServerIds, NEW f \in Files, NEW b \in Bytes
  PROVE  \/ ByteAt(s, f, b)' = ByteAt(s, f, b)
         \/ ByteAt(s, f, b)' = Hole /\ Deleting(f)
         \/ \E k \in 1..Len(late) : /\ IsLate("write", f, late[k]) /\ b \in late[k].bytes
                                    /\ ByteAt(s, f, b)' = late[k].value
<1>1. storage \in [ServerIds -> [Files -> Bytewise \union {Missing}]]
  BY DEF TypeInv, PFSTypeOK
<1>2. CASE UNCHANGED storage
  BY <1>2 DEF ByteAt, Stored
<1>3. CASE UnlinkUnasked
  BY <1>2, <1>3 DEF UnlinkUnasked
<1>4. ASSUME NEW k \in 1..Len(late), late[k].op = "write", late[k].server \in ServerIds,
             late[k].file \in Files, late[k].value \in Values,
             NEW bytes \in {late[k].bytes, {}},
             WriteFile(late[k].server, late[k].file, bytes, late[k].value)
      PROVE  \/ ByteAt(s, f, b)' = ByteAt(s, f, b)
             \/ /\ IsLate("write", f, late[k]) /\ b \in late[k].bytes
                /\ ByteAt(s, f, b)' = late[k].value
  <2>1. ByteAt(s, f, b)' = IF s = late[k].server /\ f = late[k].file /\ b \in bytes
                           THEN late[k].value ELSE ByteAt(s, f, b)
    BY <1>1, <1>4, WriteFileFacts
  <2> QED BY <1>4, <2>1 DEF IsLate
<1>5. ASSUME NEW k \in 1..Len(late), late[k].op = "remove", late[k].server \in ServerIds,
             late[k].file \in Files, RemoveFile(late[k].server, late[k].file)
      PROVE  ByteAt(s, f, b)' = ByteAt(s, f, b) \/ (ByteAt(s, f, b)' = Hole /\ Deleting(f))
  <2>1. ByteAt(s, f, b)' = IF s = late[k].server /\ f = late[k].file THEN Hole
                           ELSE ByteAt(s, f, b)
    BY <1>1, <1>5, RemoveFileFacts
  <2>2. f = late[k].file => Deleting(f)
    BY <1>5 DEF Deleting, IsLate
  <2> QED BY <2>1, <2>2
<1> QED BY <1>2, <1>3, <1>4, <1>5, LateStorageMoves DEF Unasked

LEMMA FilesKeptUnasked ==
  ASSUME TypeInv, FilesKept, Unasked
  PROVE  FilesKept'
<1>1. /\ api' = api /\ file_server_stubs' = file_server_stubs /\ clean' = clean
      /\ settled' = settled /\ conflicting' = conflicting /\ request' = request
  BY UnaskedIsQuiet DEF libraryVars, historyVars, tokenVars, serverVars
<1>2. \A f \in Files : Contested(f)' <=> Contested(f)
  BY <1>1 DEF Contested
<1>3. ASSUME NEW f \in Files, NEW bytes, Alone(f, bytes) PROVE Alone(f, bytes)'
  BY <1>3, UnaskedOf DEF Alone, IsLate
<1>4. ASSUME NEW f \in Files, LateApart(f) PROVE LateApart(f)'
  <2>1. ASSUME NEW b \in Bytes, settled'[f][b] # Hole, settled'[f][b].alone
        PROVE  Alone(f, {b})'
    BY <1>1, <1>3, <1>4, <2>1 DEF LateApart
  <2>2. ASSUME NEW c \in Clients, In(c, "data")', api'[c].file = f, api'[c].value.alone
        PROVE  Alone(f, api[c].first .. api[c].last)'
    <3>1. Alone(f, api[c].first .. api[c].last)
      BY <1>1, <1>4, <2>2 DEF LateApart, In
    <3> QED BY <1>1, <3>1, UnaskedOf DEF Alone, IsLate
  <2> QED BY <2>1, <2>2 DEF LateApart
<1>5. ASSUME NEW f \in Files, InCatalog(f)', clean'[f] PROVE ~Deleting(f)'
  <2>1. ~Deleting(f)
    BY <1>1, <1>5, UnaskedOf DEF FilesKept
  <2> QED BY <1>1, <2>1, UnaskedOf DEF Deleting, In, IsLate
<1>6. ASSUME NEW f \in Files, InCatalog(f)', clean'[f], ~Contested(f)'
      PROVE  Kept(f)' /\ \A c \in Clients : Written(c, f)'
  <2>1. InCatalog(f) /\ Epoch(f)' = Epoch(f)
    BY <1>6, UnaskedOf
  <2>2. /\ ~Deleting(f) /\ Kept(f) /\ LateApart(f)
        /\ \A c \in Clients : Written(c, f)
    BY <1>1, <1>2, <1>6, <2>1 DEF FilesKept
  <2>3. ASSUME NEW b \in Bytes, NEW s \in ServerIds,
               NEW bytes, b \in bytes, Alone(f, bytes)
        PROVE  ByteAt(s, f, b)' = ByteAt(s, f, b)
    BY <2>2, <2>3, UnaskedBytes DEF Alone
  <2>4. ASSUME NEW b \in Bytes, settled'[f][b] # Hole, settled'[f][b].alone
        PROVE  KeptByte(f, b)'
    <3> DEFINE s == StripeOf(Listed(NumServers), b)
    <3>1. b \in Int /\ s \in ServerIds
      BY WriteRangeBytes, StripeIsServer
    <3> HIDE DEF s
    <3>2. ByteAt(s, f, b) = settled[f][b] /\ b < file_metadata_map[f].filesize
      BY <1>1, <2>2, <2>4 DEF Kept, KeptByte, s
    <3>3. Alone(f, {b})
      BY <1>1, <2>2, <2>4 DEF LateApart
    <3>4. ByteAt(s, f, b)' = ByteAt(s, f, b)
      BY <2>3, <3>1, <3>3
    <3>5. b < file_metadata_map'[f].filesize
      BY <1>6, <3>1, <3>2, UnaskedOf
    <3> QED BY <1>1, <3>2, <3>4, <3>5 DEF KeptByte, StripeOf, Listed, s
  <2>5. ASSUME NEW c \in Clients, In(c, "data"), api[c].file = f,
               api[c].value.epoch = Epoch(f), api[c].value.alone, Aligned(c),
               NEW b \in Bytes, api[c].first <= b, b < api[c].next
        PROVE  ByteAt(StripeOf(Listed(NumServers), b), f, b)' = api[c].value
    <3> DEFINE s == StripeOf(Listed(NumServers), b)
    <3>1. b \in Int /\ s \in ServerIds
      BY WriteRangeBytes, StripeIsServer
    <3> HIDE DEF s
    <3>2. ByteAt(s, f, b) = api[c].value
      BY <2>2, <2>5 DEF Written, s
    <3>3. Alone(f, api[c].first .. api[c].last)
      BY <2>2, <2>5 DEF LateApart
    <3>4. b \in api[c].first .. api[c].last
      <4>1. /\ api[c].first \in Int /\ api[c].last \in Int /\ api[c].next \in Int
            /\ LoopInBounds(c)
        BY <2>5, CallParts, WriteRangeBytes DEF TypeInv, PFSTypeOK
      <4>2. api[c].next <= api[c].last + 1
        BY <2>5, <4>1 DEF LoopInBounds
      <4> QED BY <2>5, <3>1, <4>1, <4>2
    <3>5. ByteAt(s, f, b)' = ByteAt(s, f, b)
      BY <2>3, <3>1, <3>3, <3>4
    <3> QED BY <3>2, <3>5 DEF s
  <2>6. Kept(f)'
    BY <2>4 DEF Kept
  <2>7. ASSUME NEW c \in Clients PROVE Written(c, f)'
    BY <1>1, <2>1, <2>5 DEF Written, In, Aligned, StripeOf, Listed
  <2> QED BY <2>6, <2>7
<1> QED BY <1>2, <1>4, <1>5, <1>6 DEF FilesKept

-----------------------------------------------------------------------------
(* What was deleted is gone.                                                *)

\* What pfs_delete removes is gone in that step.
LEMMA RemovedByte ==
  ASSUME TypeInv, NEW c \in Clients, DeleteRemoves(c), NEW s \in ServerIds, NEW f \in Files,
         s = Target(c), f = api[c].file, NEW b \in Bytes
  PROVE  ByteAt(s, f, b)' = Hole
<1>1. /\ storage \in [ServerIds -> [Files -> Bytewise \union {Missing}]]
      /\ RemoveFile(s, f)
  BY DEF DeleteRemoves, RemoveFile, TypeInv, PFSTypeOK
<1> QED BY <1>1, RemoveFileFacts

\* A deletion that has just begun: nobody writes to the file any more, and if it
\* has found the file alone no handler does either.
LEMMA ErasingBegins ==
  ASSUME TokenInv, TypeInv, Sound, NEW c \in Clients, Step(c), NEW f \in Files, PfsDelete(c, f),
         api'[c] = DeleteCall("unlink", f, 0, Epoch(f), Alone(f, Int))
  PROVE  Erasing(c)'
<1>1. \A d \in Clients : ~Writing(d, f)
  BY DeleteMeetsNoWriter DEF TypeInv
<1>2. /\ api'[c].file = f /\ api'[c].next = 0 /\ ~In(c, "data")'
      /\ api'[c].alone = Alone(f, Int)
  BY DEF DeleteCall, In
<1>3. \A d \in Clients : d # c => api'[d] = api[d]
  BY StepIsLocal DEF SameFor
<1>4. \A d \in Clients : ~(In(d, "data")' /\ api'[d].file = f)
  BY <1>1, <1>2, <1>3 DEF Writing, In
<1>5. ASSUME api'[c].alone, NEW k \in 1..Len(late), IsLate("write", f, late[k]) PROVE FALSE
  <2>1. late[k].bytes \in (SUBSET Int) \ {{}}
    BY <1>5, LateParts DEF IsLate, TypeInv, PFSTypeOK
  <2>2. late[k].bytes \cap Int = {}
    BY <1>2, <1>5 DEF Alone
  <2> QED BY <2>1, <2>2
<1>6. late' = late
  BY DEF PfsDelete
<1>7. 1..api'[c].next = {}
  BY <1>2
<1> QED BY <1>2, <1>4, <1>5, <1>6, <1>7 DEF Erasing, IsLate

LEMMA ErasingGoesOn ==
  ASSUME TokenInv, TypeInv, TypeInv', \A d \in Clients : Erasing(d),
         NEW e \in Clients, Step(e), NEW c \in Clients, InDelete(c), InDelete(c)',
         api'[c].file = api[c].file, api'[c].epoch = api[c].epoch,
         api'[c].alone = api[c].alone,
         \/ api'[c].next = api[c].next
         \/ DeleteUnlinks(c) /\ api'[c].next = 0
         \/ DeleteRemoves(c) /\ api'[c].next = api[c].next + 1
  PROVE  Erasing(c)'
<1>1. \A d \in Clients : api[d] \in Calls
  BY DEF TypeInv, PFSTypeOK
<1>2. PICK f \in Files, epoch \in Nat, next \in Nat :
        f = api[c].file /\ epoch = api[c].epoch /\ next = api[c].next
  BY <1>1, CallParts DEF InDelete
<1>3. \A d \in Clients : In(d, "data") /\ api[d].file = f => api[d].value.epoch > epoch
  BY <1>2 DEF Erasing, InDelete
<1>4. /\ file_server_stubs'[c] = file_server_stubs[c] /\ file_server_stubs[c] \in Seq(ServerIds)
      /\ api'[c].next \in Nat /\ api'[c].next < Len(file_server_stubs[c])
  <2>1. file_server_stubs'[c] = file_server_stubs[c]
    BY StepIsLocal, ConnectedStep DEF SameFor, In, InDelete
  <2>2. LoopInBounds(c)'
    BY DEF TypeInv, PFSTypeOK
  <2>3. api'[c].next < Len(file_server_stubs'[c])
    BY <2>2 DEF LoopInBounds, InDelete
  <2>4. api'[c].next \in Nat
    BY <1>2
  <2>5. file_server_stubs[c] \in Seq(ServerIds)
    BY DEF TypeInv, PFSTypeOK
  <2> QED BY <2>1, <2>3, <2>4, <2>5
<1>5. ASSUME NEW d \in Clients, In(d, "data")', api'[d].file = f
      PROVE  api'[d].value.epoch > epoch
  <2>1. CASE In(d, "data") /\ api[d].file = f /\ api'[d].value = api[d].value
    BY <1>3, <2>1
  <2>2. CASE d # e
    <3>1. api'[d] = api[d]
      BY <2>2, StepIsLocal DEF SameFor
    <3> QED BY <1>5, <2>1, <3>1 DEF In
  <2>3. CASE d = e /\ api'[d] = DataCall(api[d].file, api[d].first, api[d].last, api[d].next,
                                          Value(d, api[d].file, api[d].first .. api[d].last))
    <3>1. api[d].file = f /\ api'[d].value = Value(d, f, api[d].first .. api[d].last)
      BY <1>5, <2>3 DEF DataCall
    <3>2. EpochsOf(c)
      BY DEF TypeInv, CallsInv
    <3>3. epoch < Epoch(f)
      BY <1>2, <3>2 DEF EpochsOf, InDelete
    <3>4. Epoch(f) \in Nat
      BY EpochType DEF TypeInv, PFSTypeOK, CallsInv
    <3> QED BY <3>1, <3>3, <3>4 DEF Value
  <2>4. CASE d = e /\ In(d, "data")
             /\ api'[d] = DataCall(api[d].file, api[d].first, api[d].last,
                                   ChunkEnd(api[d].next, api[d].last) + 1, api[d].value)
    BY <1>5, <2>1, <2>4 DEF DataCall
  <2>5. CASE d = e /\ UNCHANGED api
    BY <1>5, <2>1, <2>5 DEF In
  <2> QED BY <1>5, <2>2, <2>3, <2>4, <2>5, WritingSteps
<1>6. ASSUME api[c].alone, NEW k \in 1..Len(late'), IsLate("write", f, late'[k])
      PROVE  late'[k].value.epoch > epoch
  <2>1. late'[k].op = "write" /\ late'[k].file = f
    BY <1>6 DEF IsLate
  <2>2. CASE k \in 1..Len(late) /\ late'[k] = late[k]
    BY <1>2, <1>6, <2>2 DEF Erasing, InDelete
  <2>3. CASE In(e, "data") /\ late'[k].file = api[e].file /\ late'[k].value = api[e].value
    BY <1>3, <2>1, <2>3
  <2> QED BY <2>1, <2>2, <2>3, LateOf
<1>7. ASSUME api[c].alone, NEW k \in 1..api'[c].next, NEW b \in Bytes, NEW s \in ServerIds,
             s = file_server_stubs[c][k], ByteAt(s, f, b)' # Hole
      PROVE  (ByteAt(s, f, b)').epoch > epoch
  <2>1. CASE In(e, "data") /\ api[e].file = f /\ ByteAt(s, f, b)' = api[e].value
    BY <1>3, <2>1
  <2>2. CASE ByteAt(s, f, b)' = ByteAt(s, f, b)
    <3>1. CASE k \in 1..next
      BY <1>2, <1>7, <2>2, <3>1 DEF Erasing, InDelete
    <3>2. CASE k \notin 1..next
      <4>1. DeleteRemoves(c) /\ k = next + 1
        BY <1>2, <1>4, <1>7, <3>2
      <4>2. s = Target(c)
        BY <1>2, <1>7, <4>1 DEF Target
      <4> QED BY <1>2, <1>7, <4>1, <4>2, RemovedByte
    <3> QED BY <3>1, <3>2
  <2> QED BY <1>7, <2>1, <2>2, ByteMoves
<1>8. ASSUME api[c].alone, NEW k \in 1..api'[c].next, NEW b \in Bytes
      PROVE  ByteAt(file_server_stubs[c][k], api[c].file, b)' # Hole =>
               (ByteAt(file_server_stubs[c][k], api[c].file, b)').epoch > epoch
  <2>1. PICK s \in ServerIds : s = file_server_stubs[c][k]
    BY <1>4
  <2>2. s = file_server_stubs'[c][k] /\ f = api'[c].file
    BY <1>2, <1>4, <2>1
  <2>3. ByteAt(s, f, b)' # Hole => (ByteAt(s, f, b)').epoch > epoch
    BY <1>7, <1>8, <2>1
  <2> QED BY <2>2, <2>3 DEF ByteAt, Stored
<1>9. api'[c].file = f /\ api'[c].epoch = epoch
  BY <1>2
<1>10. \A d \in Clients : In(d, "data")' /\ api'[d].file = api'[c].file =>
         api'[d].value.epoch > api'[c].epoch
  BY <1>5, <1>9
<1>11. api'[c].alone => \A k \in 1..Len(late') : IsLate("write", api'[c].file, late'[k]) =>
         late'[k].value.epoch > api'[c].epoch
  BY <1>6, <1>9
<1> QED BY <1>8, <1>9, <1>10, <1>11 DEF Erasing, IsLate

LEMMA DeletionsEraseStep ==
  ASSUME TokenInv, TypeInv, TypeInv', DeletionsErase, NEW e \in Clients, Step(e)
  PROVE  DeletionsErase'
<1> SUFFICES ASSUME Sound', NEW c \in Clients, InDelete(c)'
             PROVE  Erasing(c)'
  BY DEF DeletionsErase, Erasing, InDelete
<1>1. Sound /\ \A d \in Clients : Erasing(d)
  BY TokenStepOf, SoundBefore DEF DeletionsErase
<1>2. CASE c # e
  <2>1. api'[c] = api[c]
    BY <1>2, StepIsLocal DEF SameFor
  <2>2. InDelete(c)
    BY <2>1 DEF In, InDelete
  <2> QED BY <1>1, <2>1, <2>2, ErasingGoesOn
<1>3. CASE c = e
  <2>1. ASSUME NEW f \in Files, PfsDelete(c, f),
               api'[c] = DeleteCall("unlink", f, 0, Epoch(f), Alone(f, Int))
        PROVE  Erasing(c)'
    BY <1>1, <1>3, <2>1, ErasingBegins
  <2>2. ASSUME InDelete(c),
               api'[c].file = api[c].file, api'[c].epoch = api[c].epoch,
               api'[c].alone = api[c].alone,
               \/ api'[c].next = api[c].next
               \/ DeleteUnlinks(c) /\ api'[c].next = 0
               \/ DeleteRemoves(c) /\ api'[c].next = api[c].next + 1
        PROVE  Erasing(c)'
    BY <1>1, <1>3, <2>2, ErasingGoesOn
  <2> QED BY <1>3, <2>1, <2>2, DeletingSteps
<1> QED BY <1>2, <1>3

\* A handler that ends after its call was given up writes what is newer, or
\* removes.
LEMMA DeletionsEraseUnasked ==
  ASSUME TypeInv, DeletionsErase, Unasked
  PROVE  DeletionsErase'
<1>1. /\ api' = api /\ file_server_stubs' = file_server_stubs /\ health' = health
  BY UnaskedIsQuiet DEF libraryVars, tokenVars, serverVars
<1> SUFFICES ASSUME Sound, NEW c \in Clients, InDelete(c) PROVE Erasing(c)'
  BY <1>1 DEF DeletionsErase, Erasing, InDelete, In, Sound
<1>2. Erasing(c) /\ file_server_stubs[c] \in Seq(ServerIds) /\ api[c] \in Calls
  BY DEF DeletionsErase, TypeInv, PFSTypeOK
<1>3. PICK f \in Files, epoch \in Nat, next \in Nat :
        f = api[c].file /\ epoch = api[c].epoch /\ next = api[c].next
  BY <1>2, CallParts DEF InDelete
<1>4. ASSUME api[c].alone, NEW k \in 1..Len(late), IsLate("write", f, late[k])
      PROVE  late[k].value.epoch > epoch
  BY <1>2, <1>3, <1>4 DEF Erasing, InDelete
<1>5. ASSUME api[c].alone, NEW k \in 1..Len(late'), IsLate("write", f, late'[k])
      PROVE  late'[k].value.epoch > epoch
  <2>1. PICK j \in 1..Len(late) : late'[k] = late[j]
    BY UnaskedOf
  <2> QED BY <1>4, <1>5, <2>1
<1>6. ASSUME api[c].alone, NEW k \in 1..next, NEW b \in Bytes,
             ByteAt(file_server_stubs[c][k], f, b)' # Hole
      PROVE  (ByteAt(file_server_stubs[c][k], f, b)').epoch > epoch
  <2>1. LoopInBounds(c) /\ Len(file_server_stubs[c]) \in Nat
    BY <1>2 DEF TypeInv, PFSTypeOK
  <2>2. PICK s \in ServerIds : s = file_server_stubs[c][k]
    BY <1>2, <1>3, <2>1 DEF LoopInBounds, InDelete
  <2>3. ByteAt(s, f, b)' = ByteAt(file_server_stubs[c][k], f, b)'
    BY <1>1, <2>2 DEF ByteAt, Stored
  <2>4. ByteAt(s, f, b) # Hole => ByteAt(s, f, b).epoch > epoch
    BY <1>2, <1>3, <1>6, <2>2 DEF Erasing, InDelete
  <2>5. (ByteAt(s, f, b)').epoch > epoch
    BY <1>4, <1>6, <2>3, <2>4, UnaskedBytes
  <2> QED BY <2>3, <2>5
<1>7. \A d \in Clients : In(d, "data") /\ api[d].file = f => api[d].value.epoch > epoch
  BY <1>2, <1>3 DEF Erasing, InDelete
<1> QED BY <1>1, <1>3, <1>5, <1>6, <1>7 DEF Erasing, IsLate, In

\* The last removal leaves nothing: the client reaches every server, and all
\* its stubs have been visited.
LEMMA DeletionErases ==
  ASSUME TypeInv, DeletionsErase, Sound, NEW c \in Clients,
         DeleteRemoves(c), DeleteSucceeds(c), api[c].alone,
         NEW f \in Files, NEW epoch \in Nat, api[c].file = f, api[c].epoch = epoch
  PROVE  ErasedUpTo(f, epoch)'
<1> SUFFICES ASSUME NEW s \in ServerIds, NEW b \in Bytes, ByteAt(s, f, b)' # Hole
             PROVE  (ByteAt(s, f, b)').epoch > epoch
  BY DEF ErasedUpTo
<1>1. Step(c) /\ In(c, "remove") /\ ~In(c, "data") /\ Initialized(c)
  BY DEF DeleteRemoves, Step, Continue, In, Initialized
<1>2. /\ LoopInBounds(c) /\ Connected(c) /\ api[c] \in Calls
      /\ file_server_stubs[c] \in Seq(ServerIds)
  BY DEF TypeInv, PFSTypeOK, CallsInv
<1>3. PICK next \in Nat : next = api[c].next
  BY <1>1, <1>2, CallParts
<1>4. Len(file_server_stubs[c]) = next + 1
  BY <1>1, <1>2, <1>3 DEF LoopInBounds, DeleteSucceeds, StubsToVisit
<1>5. PICK k \in 1..Len(file_server_stubs[c]) : file_server_stubs[c][k] = s
  BY <1>1, <1>2 DEF Connected
<1>6. CASE k = next + 1
  <2>1. s = Target(c)
    BY <1>3, <1>5, <1>6 DEF Target
  <2> QED BY <2>1, RemovedByte
<1>7. CASE k # next + 1
  <2>1. k \in 1..next
    BY <1>3, <1>4, <1>5, <1>7
  <2>2. ByteAt(s, f, b) # Hole => ByteAt(s, f, b).epoch > epoch
    BY <1>1, <1>3, <1>5, <2>1 DEF DeletionsErase, Erasing
  <2>3. ByteAt(s, f, b)' = ByteAt(s, f, b)
    BY <1>1, ByteMoves
  <2> QED BY <2>2, <2>3
<1> QED BY <1>6, <1>7

-----------------------------------------------------------------------------
(* The induction.                                                           *)

LEMMA DataInit ==
  ASSUME PFSInit, TypeInv
  PROVE  DataInv
<1>1. WaitingMetConflict
  BY DEF PFSInit, TokenInit, WaitingMetConflict
<1>2. HoldersCovered
  BY DEF PFSInit, HoldersCovered, Holds, In, Down
<1>3. FilesKept
  <2>1. \A f \in Files, b \in Bytes : settled[f][b] = Hole
    BY DEF PFSInit, Nothing
  <2>2. \A c \in Clients : ~In(c, "data")
    BY DEF PFSInit, In, Down
  <2>3. \A f \in Files : LateApart(f)
    BY <2>1, <2>2 DEF LateApart
  <2> QED BY <2>3 DEF PFSInit, FilesKept, InCatalog
<1>4. DeletionsErase
  BY DEF PFSInit, DeletionsErase, Erasing, In, Down
<1> QED BY <1>1, <1>2, <1>3, <1>4 DEF DataInv, TypeInv

LEMMA DataStutter ==
  ASSUME DataInv, UNCHANGED pfsVars
  PROVE  DataInv'
<1>0. /\ api' = api /\ requests' = requests /\ request' = request /\ pc' = pc
      /\ conflicting' = conflicting /\ token_table' = token_table /\ health' = health
      /\ file_server_stubs' = file_server_stubs
      /\ file_server_addresses' = file_server_addresses
      /\ file_metadata_map' = file_metadata_map /\ erasing' = erasing
      /\ storage' = storage /\ late' = late
      /\ births' = births /\ clean' = clean /\ settled' = settled
  BY DEF pfsVars, tokenVars, serverVars, streamVars, libraryVars, historyVars
<1>1. CallsInv'
  <2>1. ASSUME NEW c \in Clients, Connected(c) PROVE Connected(c)'
    BY <1>0, <2>1 DEF Connected, Initialized, Aligned, In
  <2>2. ASSUME NEW c \in Clients, AsksForItsBytes(c) PROVE AsksForItsBytes(c)'
    BY <1>0, <2>2 DEF AsksForItsBytes, In
  <2>3. ASSUME NEW c \in Clients, EpochsOf(c) PROVE EpochsOf(c)'
    BY <1>0, <2>3 DEF EpochsOf, In, Epoch, InCatalog
  <2>4. ASSUME NEW c \in Clients, UnlinksAlone(c) PROVE UnlinksAlone(c)'
    BY <1>0, <2>4 DEF UnlinksAlone, In
  <2>5. \A f \in Files : (InCatalog(f) => births[f] > 0) => (InCatalog(f) => births[f] > 0)'
    BY <1>0 DEF InCatalog
  <2>6. (\A f \in erasing : InCatalog(f) /\ erasing = {f}) =>
          (\A f \in erasing : InCatalog(f) /\ erasing = {f})'
    BY <1>0 DEF InCatalog
  <2> QED BY <2>1, <2>2, <2>3, <2>4, <2>5, <2>6 DEF DataInv, CallsInv
<1>2. \A f \in Files : Contested(f)' <=> Contested(f)
  BY <1>0 DEF Contested
<1>3. WaitingMetConflict' /\ HoldersCovered'
  <2>1. WaitingMetConflict'
    BY <1>0 DEF DataInv, WaitingMetConflict
  <2>2. \A c \in Clients, f \in Files :
          (Holds(c, f)' <=> Holds(c, f)) /\ (Covered(c, f)' <=> Covered(c, f))
    BY <1>0 DEF Holds, Covered, In
  <2> QED BY <1>2, <2>1, <2>2 DEF DataInv, HoldersCovered
<1>4. FilesKept'
  <2>1. \A f \in Files : /\ InCatalog(f)' <=> InCatalog(f)
                         /\ Deleting(f)' <=> Deleting(f)
                         /\ LateApart(f)' <=> LateApart(f)
    BY <1>0 DEF InCatalog, Deleting, LateApart, Alone, IsLate, In
  <2>2. \A f \in Files : Kept(f)' <=> Kept(f)
    BY <1>0 DEF Kept, KeptByte, ByteAt, Stored
  <2>3. \A f \in Files, c \in Clients : Written(c, f)' <=> Written(c, f)
    BY <1>0 DEF Written, In, Epoch, InCatalog, Aligned, ByteAt, Stored
  <2> QED BY <1>0, <1>2, <2>1, <2>2, <2>3 DEF DataInv, FilesKept
<1>5. DeletionsErase'
  BY <1>0 DEF DataInv, DeletionsErase, Sound, Erasing, In, IsLate, ByteAt, Stored
<1> QED BY <1>1, <1>3, <1>4, <1>5 DEF DataInv

\* Every client reaches every server (pfs_api.cpp:60-100), a writer owns a token
\* over all it was granted, what was written is kept from those who come later
\* and from handlers that run on (pfs_fileserver.cpp:71-125), and a deletion
\* erases the servers one after the other: together they are inductive.
THEOREM DataInvariant == PFSSpec => []DataInv
<1>1. PFSInit /\ TypeInv => DataInv
  BY DataInit
<1>2. TokenInv /\ TypeInv /\ TypeInv' /\ DataInv /\ [PFSNext]_pfsVars => DataInv'
  <2> SUFFICES ASSUME TokenInv, TypeInv, TypeInv', DataInv, [PFSNext]_pfsVars
               PROVE  DataInv'
    OBVIOUS
  <2>1. CASE UNCHANGED pfsVars
    BY <2>1, DataStutter
  <2>2. ASSUME NEW e \in Clients, Step(e) PROVE DataInv'
    <3>1. CallsInv' /\ PFSInv
      BY DEF TypeInv
    <3>2. WaitingMetConflict'
      BY <2>2, <3>1, WaitingStep DEF DataInv
    <3>3. HoldersCovered'
      BY <2>2, HoldersStep DEF DataInv
    <3>4. FilesKept'
      BY <2>2, FilesKeptStep DEF DataInv
    <3>5. DeletionsErase'
      BY <2>2, DeletionsEraseStep DEF DataInv
    <3> QED BY <3>1, <3>2, <3>3, <3>4, <3>5 DEF DataInv
  <2>3. CASE Unasked
    <3>1. UNCHANGED <<tokenVars, libraryVars>>
      BY <2>3, UnaskedIsQuiet
    <3>2. WaitingMetConflict'
      BY <3>1 DEF DataInv, WaitingMetConflict, tokenVars, serverVars
    <3>3. HoldersCovered'
      <4>1. \A f \in Files : Contested(f)' <=> Contested(f)
        BY <3>1 DEF Contested, tokenVars, serverVars
      <4>2. \A c \in Clients, f \in Files :
              (Holds(c, f)' <=> Holds(c, f)) /\ (Covered(c, f)' <=> Covered(c, f))
        BY <3>1 DEF Holds, Covered, In, tokenVars, serverVars, streamVars, libraryVars
      <4> QED BY <4>1, <4>2 DEF DataInv, HoldersCovered
    <3>4. FilesKept' /\ DeletionsErase' /\ CallsInv'
      BY <2>3, FilesKeptUnasked, DeletionsEraseUnasked DEF DataInv, TypeInv
    <3> QED BY <3>2, <3>3, <3>4 DEF DataInv
  <2> QED BY <2>1, <2>2, <2>3 DEF PFSNext, Step
<1> QED BY <1>1, <1>2, TokenInvariantInSystem, TypeInvariant, PTL DEF PFSSpec

\* Clients whose pfs_write was granted its token and is sending its blocks
\* (pfs_api.cpp:535-580) send different bytes, until a REVOKE is under way on
\* the file: the promise of README.md:9, as far as the code keeps it.
THEOREM WritersExcludeEachOther == PFSSpec => []WritersExcludeUntilContested
<1>1. TokenInv /\ TypeInv /\ DataInv => WritersExcludeUntilContested
  BY ExcludeHolds DEF DataInv
<1> QED BY <1>1, TokenInvariantInSystem, TypeInvariant, DataInvariant, PTL

\* What a pfs_write reported as written (pfs_api.cpp:547-597) is on the server
\* a reader would ask and within the file size, whatever other clients write,
\* fail to write, close, delete and create, until the file is contested.  The
\* exception is a pfs_write that began while the handler of a failed WriteFile
\* to the same bytes (pfs_fileserver.cpp:74) was still running.
THEOREM WritesAreDurable == PFSSpec => []Durable
<1>1. DataInv => Durable
  BY FilesKeptDurable DEF DataInv
<1> QED BY <1>1, DataInvariant, PTL

\* A pfs_delete that returns 0 (pfs_api.cpp:695-715) has left on no server
\* anything that was granted before it, even while clients with an open
\* descriptor go on writing to a new file of that name, and handlers of calls
\* that fail meanwhile run on; unless one of those ran before it began.
THEOREM DeletionsLeaveNothing == PFSSpec => DeletedIsGone
<1>1. ASSUME TypeInv, DataInv, Sound, NEW c \in Clients, NEW f \in Files,
             NEW epoch \in 0..2 * MaxBirths, DeleteRemoves(c), DeleteSucceeds(c),
             api[c].file = f, api[c].epoch = epoch, api[c].alone
      PROVE  ErasedUpTo(f, epoch)'
  <2>1. epoch \in Nat
    OBVIOUS
  <2> QED BY <1>1, <2>1, DeletionErases DEF DataInv
<1>2. TypeInv /\ DataInv =>
        (Sound => \A c \in Clients, f \in Files, epoch \in 0..2 * MaxBirths :
           /\ DeleteRemoves(c) /\ DeleteSucceeds(c)
           /\ api[c].file = f /\ api[c].epoch = epoch /\ api[c].alone
           => ErasedUpTo(f, epoch)')
  BY <1>1
<1> QED BY <1>2, TypeInvariant, DataInvariant, PTL DEF DeletedIsGone

=============================================================================
