--------------------------- MODULE LockServiceProofs ---------------------------
(***************************************************************************)
(* The handlers of the token service, which walk and change a shared       *)
(* vector element by element, implement LockService, for any number of     *)
(* clients, files and ranges.                                              *)
(***************************************************************************)
EXTENDS TokenServerProofs

-----------------------------------------------------------------------------
(* No token is in a vector twice.                                           *)

\* A token that is widened reaches over nothing that comes before it.
LEMMA HullReaches ==
  ASSUME NEW t \in Token, NEW u \in Token, NEW requested \in Token,
         NonEmpty(t), NonEmpty(u), NonEmpty(requested),
         Mergeable(t, requested), ~Overlaps(u, requested), ~ReachesOver(t, u)
  PROVE  ~ReachesOver(Hull(t, requested), u)
BY DEF Mergeable, Overlaps, ReachesOver, Hull, Part, NonEmpty, Token

\* A token that does not reach over another one does not reach over what that
\* is widened to.
LEMMA ReachesHull ==
  ASSUME NEW t \in Token, NEW u \in Token, NEW requested \in Token, ~ReachesOver(u, t)
  PROVE  ~ReachesOver(u, Hull(t, requested))
BY DEF ReachesOver, Hull, Part, Token

\* What a request neither conflicts nor merges with lies apart from it.
LEMMA NeitherOverlaps ==
  ASSUME NEW t \in Token, NEW requested \in Token,
         Compatible(t, requested), ~Mergeable(t, requested)
  PROVE  ~Overlaps(t, requested)
BY DEF Compatible, Mergeable, Apart, Overlaps, Token, TokenTypes

LEMMA NewReaches ==
  ASSUME NEW t \in Token, NEW requested \in Token, NonEmpty(t), ~Overlaps(t, requested)
  PROVE  ~ReachesOver(requested, t)
BY DEF ReachesOver, Overlaps, NonEmpty, Token

LEMMA NoneTwiceStep ==
  ASSUME TokenInv, [Next]_tokenVars, NEW f \in Files, ~Contested(f)', NoneTwice(f)
  PROVE  NoneTwice(f)'
<1>0. TypeOK /\ HandlerInv /\ RangeInv /\ LoopInv
  BY DEF TokenInv, LoopInv
<1>9. \A c \in Clients : request[c].filename = f => NeverDangled(c)
  BY <1>0, ContestedStays DEF Contested, NeverDangled
<1>1. ASSUME token_table'[f] = token_table[f] PROVE NoneTwice(f)'
  BY <1>1 DEF NoneTwice
<1>2. ASSUME NEW c \in Clients, SplitErase(c) PROVE NoneTwice(f)'
  <2>1. /\ token_table' = [token_table EXCEPT ![request[c].filename] =
                             EraseAndSplit(Table(c), it[c], RequestedToken(c))]
        /\ conflicting' = [conflicting EXCEPT ![c] = Append(@, Table(c)[it[c]])]
        /\ request' = request
    BY <1>0, <1>2, SplitEffect DEF SplitErase
  <2>2. conflicting'[c] # <<>>
    BY <1>0, <2>1, AppendNonEmpty DEF TypeOK
  <2>3. request[c].filename # f
    BY <2>1, <2>2 DEF Contested
  <2> QED BY <1>0, <1>1, <2>1, <2>3 DEF TypeOK
<1>3. ASSUME NEW c \in Clients, GrantMerge(c) PROVE NoneTwice(f)'
  <2>1. SplitOver(c)
    BY <1>3 DEF GrantMerge
  <2>2. PICK k \in 1..Len(Table(c)) :
          /\ Mergeable(Table(c)[k], RequestedToken(c))
          /\ \A j \in 1..k-1 : ~Mergeable(Table(c)[j], RequestedToken(c))
          /\ token_table' = [token_table EXCEPT ![request[c].filename][k] =
                               Hull(Table(c)[k], RequestedToken(c))]
          /\ GrantRevoke(c, Hull(Table(c)[k], RequestedToken(c)))
    BY <1>3 DEF GrantMerge
  <2>3. request[c].filename = f => NeverDangled(c)
    BY <1>9
  <2> DEFINE hull == Hull(Table(c)[k], RequestedToken(c))
             requested == RequestedToken(c)
             table == Table(c)
  <2>4. CASE request[c].filename = f
    <3>1. /\ table \in Seq(Token) /\ Len(table) \in Nat /\ requested \in Token
          /\ NonEmpty(requested)
          /\ \A j \in 1..Len(table) : /\ table[j] \in Token /\ NonEmpty(table[j])
                                      /\ Compatible(table[j], requested)
      BY <1>0, <2>1, <2>3, <2>4, SplitOverAgrees
    <3>2. table = token_table[f] /\ NoneTwice(f)
      BY <2>3, <2>4 DEF Table
    <3>3. ASSUME NEW j \in 1..k-1 PROVE ~ReachesOver(hull, table[j])
      <4>1. j \in 1..Len(table) /\ j < k
        BY <3>1
      <4>2. ~Overlaps(table[j], requested)
        BY <2>2, <3>1, <4>1, NeitherOverlaps
      <4>3. ~ReachesOver(table[k], table[j])
        BY <3>2, <4>1 DEF NoneTwice
      <4> QED BY <2>2, <3>1, <4>1, <4>2, <4>3, HullReaches
    <3>4. ASSUME NEW j \in 1..Len(table), j > k PROVE ~ReachesOver(table[j], hull)
      <4>1. ~ReachesOver(table[j], table[k])
        BY <3>2, <3>4 DEF NoneTwice
      <4> QED BY <3>1, <4>1, ReachesHull
    <3> HIDE DEF hull, requested, table
    <3>5. token_table' = [token_table EXCEPT ![f] = [@ EXCEPT ![k] = hull]]
      BY <2>2, <2>4 DEF hull
    <3>6. /\ k \in 1..Len(table)
          /\ Len(token_table'[f]) = Len(table)
          /\ \A j \in 1..Len(table) : token_table'[f][j] = IF j = k THEN hull ELSE table[j]
      BY <1>0, <2>2, <3>1, <3>2, <3>5 DEF TypeOK, table
    <3>7. ASSUME NEW i \in 1..Len(table), NEW j \in 1..Len(table), i < j
          PROVE  ~ReachesOver(token_table'[f][j], token_table'[f][i])
      <4>1. CASE j = k
        BY <3>1, <3>3, <3>6, <3>7, <4>1
      <4>2. CASE i = k
        BY <3>1, <3>4, <3>6, <3>7, <4>2
      <4>3. CASE i # k /\ j # k
        BY <3>2, <3>6, <3>7, <4>3 DEF NoneTwice
      <4> QED BY <4>1, <4>2, <4>3
    <3> QED BY <3>6, <3>7 DEF NoneTwice
  <2>5. CASE request[c].filename # f
    BY <1>0, <1>1, <2>2, <2>3, <2>5 DEF TypeOK
  <2> QED BY <2>4, <2>5
<1>4. ASSUME NEW c \in Clients, GrantNew(c) PROVE NoneTwice(f)'
  <2>1. SplitOver(c) /\ GrantRevoke(c, RequestedToken(c))
        /\ \A k \in 1..Len(Table(c)) : ~Mergeable(Table(c)[k], RequestedToken(c))
    BY <1>4 DEF GrantNew
  <2>2. request[c].filename = f => NeverDangled(c)
    BY <1>9
  <2> DEFINE new == RequestedToken(c)
             table == Table(c)
  <2>3. token_table' = [token_table EXCEPT ![request[c].filename] = Append(@, new)]
    BY <1>4 DEF GrantNew
  <2>4. CASE request[c].filename = f
    <3>1. /\ table \in Seq(Token) /\ Len(table) \in Nat /\ new \in Token
          /\ \A j \in 1..Len(table) : /\ table[j] \in Token /\ NonEmpty(table[j])
                                      /\ Compatible(table[j], new)
      BY <1>0, <2>1, <2>2, <2>4, SplitOverAgrees
    <3>2. table = token_table[f] /\ NoneTwice(f)
      BY <2>2, <2>4 DEF Table
    <3>3. \A j \in 1..Len(table) : ~ReachesOver(new, table[j])
      BY <2>1, <3>1, NeitherOverlaps, NewReaches
    <3> HIDE DEF new, table
    <3>4. /\ Len(token_table'[f]) = Len(table) + 1
          /\ \A j \in 1..Len(table) + 1 :
               token_table'[f][j] = IF j <= Len(table) THEN table[j] ELSE new
      BY <1>0, <2>3, <2>4, <3>1, <3>2 DEF TypeOK
    <3>5. ASSUME NEW i \in 1..Len(table) + 1, NEW j \in 1..Len(table) + 1, i < j
          PROVE  ~ReachesOver(token_table'[f][j], token_table'[f][i])
      <4>1. CASE j <= Len(table)
        BY <3>1, <3>2, <3>4, <3>5, <4>1 DEF NoneTwice
      <4>2. CASE j > Len(table)
        BY <3>1, <3>3, <3>4, <3>5, <4>2
      <4> QED BY <3>1, <4>1, <4>2
    <3> QED BY <3>4, <3>5 DEF NoneTwice
  <2>5. CASE request[c].filename # f
    BY <1>0, <1>1, <2>2, <2>3, <2>5 DEF TypeOK
  <2> QED BY <2>4, <2>5
<1>5. ASSUME NEW c \in Clients, ReleaseErase(c) PROVE NoneTwice(f)'
  <2>1. /\ pc[c] = "release" /\ it[c] \in 1..Len(Table(c))
        /\ token_table' = [token_table EXCEPT ![request[c].filename] = RemoveAt(@, it[c])]
    BY <1>0, <1>5 DEF ReleaseErase, At, TypeOK
  <2>2. CASE request[c].filename = f
    <3> DEFINE left == RemoveAt(Table(c), it[c])
    <3>1. Table(c) \in Seq(Token) /\ Table(c) = token_table[f]
      BY <1>0, <2>1, <2>2, RequestedTokenType DEF Table
    <3>2. /\ Len(left) = Len(Table(c)) - 1
          /\ \A k \in 1..Len(Table(c)) - 1 :
               left[k] = IF k < it[c] THEN Table(c)[k] ELSE Table(c)[k + 1]
      BY <2>1, <3>1, RemoveAtFacts
    <3>3. token_table'[f] = left
      BY <1>0, <2>1, <2>2, <3>1 DEF TypeOK
    <3> HIDE DEF left
    <3>4. ASSUME NEW i \in 1..Len(left), NEW j \in 1..Len(left), i < j
          PROVE  ~ReachesOver(left[j], left[i])
      <4>1. PICK m \in 1..Len(Table(c)), n \in 1..Len(Table(c)) :
              m < n /\ left[i] = Table(c)[m] /\ left[j] = Table(c)[n]
        <5> DEFINE Old(x) == IF x < it[c] THEN x ELSE x + 1
        <5>1. /\ Old(i) \in 1..Len(Table(c)) /\ left[i] = Table(c)[Old(i)]
              /\ Old(j) \in 1..Len(Table(c)) /\ left[j] = Table(c)[Old(j)]
          BY <2>1, <3>1, <3>2
        <5>2. Old(i) < Old(j)
          BY <2>1, <3>1, <3>2, <3>4
        <5> QED BY <5>1, <5>2
      <4> QED BY <2>1, <3>1, <4>1 DEF NoneTwice
    <3> QED BY <3>3, <3>4 DEF NoneTwice
  <2>3. CASE request[c].filename # f
    BY <1>0, <1>1, <2>1, <2>3 DEF TypeOK
  <2> QED BY <2>2, <2>3
<1>6. ASSUME NEW c \in Clients,
             ReadRequest(c) \/ ScanKeep(c) \/ ReleaseKeep(c) \/ ReleaseDone(c)
      PROVE  NoneTwice(f)'
  BY <1>1, <1>6 DEF ReadRequest, ScanKeep, ReleaseKeep, ReleaseDone
<1>7. CASE UNCHANGED serverVars
  BY <1>1, <1>7 DEF serverVars
<1>8. ASSUME NEW c \in Clients, AwaitAck(c) \/ HandlerReturn(c) \/ Client(c)
      PROVE  UNCHANGED serverVars
  BY <1>8 DEF AwaitAck, HandlerReturn, Client, ClientCall, ClientRead, ClientDone, ClientDies, HangUp,
              ClientBroken
<1> QED
  BY <1>2, <1>3, <1>4, <1>5, <1>6, <1>7, <1>8 DEF Next, Handler, tokenVars

\* The files that have been contested stay so, and nothing else breaks the
\* service.
LEMMA BrokenStep == TokenInv /\ BrokenByConflict /\ [Next]_tokenVars => BrokenByConflict'
<1> SUFFICES ASSUME TokenInv, BrokenByConflict, [Next]_tokenVars, ~Sound'
             PROVE  \E f \in Files : Contested(f)'
  BY DEF BrokenByConflict
<1>0. TypeOK /\ HandlerInv /\ RangeInv
  BY DEF TokenInv
<1>1. CASE ~Sound
  BY <1>0, <1>1, ContestedStays DEF BrokenByConflict
<1>2. CASE Sound
  <2>1. PICK c \in Clients : SplitErase(c)
    BY <1>2 DEF Next, Handler, Client, ReadRequest, ScanKeep, GrantMerge, GrantNew,
                GrantRevoke, ReleaseErase, ReleaseKeep, ReleaseDone, AwaitAck, HandlerReturn,
                ClientCall, ClientRead, ClientDone, ClientDies, HangUp, ClientBroken,
                Sound, tokenVars, serverVars
  <2>2. request[c].filename \in Files /\ request' = request
        /\ conflicting' = [conflicting EXCEPT ![c] = Append(@, Table(c)[it[c]])]
    BY <1>0, <2>1, SplitEffect DEF SplitErase
  <2>3. conflicting'[c] # <<>>
    BY <1>0, <2>2, AppendNonEmpty DEF TypeOK
  <2> QED BY <2>2, <2>3 DEF Contested
<1> QED BY <1>1, <1>2

LEMMA ServiceInvInit == TokenInit => ServiceInv
<1> SUFFICES ASSUME TokenInit PROVE ServiceInv
  OBVIOUS
<1>1. TokenInv
  BY TokenInvInit
<1>2. \A f \in Files : NoneTwice(f)
  BY DEF TokenInit, NoneTwice
<1>3. Sound
  BY DEF TokenInit, Sound
<1> QED BY <1>1, <1>2, <1>3 DEF ServiceInv, BrokenByConflict

LEMMA ServiceInvStep == ServiceInv /\ [Next]_tokenVars => ServiceInv'
<1> SUFFICES ASSUME ServiceInv, [Next]_tokenVars PROVE ServiceInv'
  OBVIOUS
<1>1. TokenInv /\ TokenInv' /\ BrokenByConflict'
  BY TokenInvStep, BrokenStep DEF ServiceInv
<1>2. ASSUME NEW f \in Files, ~Contested(f)'
      PROVE  NoneTwice(f)'
  <2>1. ~Contested(f)
    BY <1>1, <1>2, ContestedStays DEF TokenInv
  <2> QED BY <1>1, <1>2, <2>1, NoneTwiceStep DEF ServiceInv
<1> QED BY <1>1, <1>2 DEF ServiceInv

\* The vectors hold no token twice before a conflict, and only a conflict
\* breaks the service: with TokenInv, what makes the vectors a lock service.
THEOREM ServiceInvariant == Spec => []ServiceInv
BY ServiceInvInit, ServiceInvStep, PTL DEF Spec

-----------------------------------------------------------------------------
(* The handlers as LockService sees them.                                   *)

LEMMA ViewAt ==
  /\ \A f \in Files : HeldTokens[f] = TokensOf(f) /\ (f \in ContestedFiles <=> Contested(f))
  /\ \A c \in Clients :
       /\ AskedTokens[c] = Asked(c)
       /\ ClosingFiles[c] = IF pc[c] = "release" THEN request[c].filename ELSE NoRequest
BY DEF HeldTokens, ContestedFiles, AskedTokens, ClosingFiles

LEMMA ContestedInFiles == ContestedFiles \subseteq Files
BY DEF ContestedFiles

\* The tokens of one file change.
LEMMA HeldStep ==
  ASSUME TypeOK, NEW f \in Files, NEW s, token_table' = [token_table EXCEPT ![f] = s]
  PROVE  /\ HeldTokens' = [HeldTokens EXCEPT ![f] = {s[k] : k \in 1..Len(s)}]
         /\ HeldTokens'[f] = {s[k] : k \in 1..Len(s)}
         /\ \A g \in Files \ {f} : HeldTokens'[g] = HeldTokens[g]
<1>1. token_table'[f] = s /\ \A g \in Files \ {f} : token_table'[g] = token_table[g]
  BY DEF TypeOK
<1>2. \A g \in Files : HeldTokens'[g] = {token_table'[g][k] : k \in 1..Len(token_table'[g])}
  BY DEF HeldTokens, TokensOf
<1>4. HeldTokens'[f] = {s[k] : k \in 1..Len(s)}
  BY <1>1, <1>2
<1>5. ASSUME NEW g \in Files \ {f}
      PROVE  HeldTokens'[g] = HeldTokens[g]
  <2>1. token_table'[g] = token_table[g]
    BY <1>1
  <2>2. TokensOf(g)' = TokensOf(g)
    BY <2>1 DEF TokensOf
  <2> QED BY <2>2 DEF HeldTokens
<1>6. HeldTokens' = [HeldTokens EXCEPT ![f] = {s[k] : k \in 1..Len(s)}]
  <2> DEFINE tokens == {s[k] : k \in 1..Len(s)}
  <2>1. HeldTokens'[f] = tokens
    BY <1>4
  <2> HIDE DEF tokens
  <2>2. [HeldTokens EXCEPT ![f] = tokens]
        = [g \in Files |-> IF g = f THEN tokens ELSE HeldTokens[g]]
    BY DEF HeldTokens
  <2>3. HeldTokens' = [g \in Files |-> HeldTokens'[g]]
    BY DEF HeldTokens
  <2> QED BY <1>5, <2>1, <2>2, <2>3 DEF tokens
<1> QED BY <1>4, <1>5, <1>6

\* The handler of c goes on; the others ask and close as before.
LEMMA HandlerView ==
  ASSUME NEW c \in Clients,
         \A d \in Clients \ {c} : pc'[d] = pc[d] /\ request'[d] = request[d]
  PROVE  /\ AskedTokens' = [AskedTokens EXCEPT ![c] = Asked(c)']
         /\ ClosingFiles' = [ClosingFiles EXCEPT ![c] =
                               IF pc'[c] = "release" THEN request'[c].filename ELSE NoRequest]
<1>1. \A d \in Clients \ {c} : Asked(d)' = Asked(d)
  BY DEF Asked, RequestedToken
<1> QED BY <1>1 DEF AskedTokens, ClosingFiles

\* Neither does the step of a handler without conflicts change which files are
\* contested.
LEMMA ContestedSame ==
  ASSUME conflicting' = conflicting,
         \A d \in Clients : conflicting[d] # <<>> => request'[d] = request[d]
  PROVE  ContestedFiles' = ContestedFiles
BY DEF ContestedFiles, Contested

LEMMA GrantView ==
  ASSUME TypeOK, HandlerInv, NEW c \in Clients, NEW t, pc[c] = "split", GrantRevoke(c, t)
  PROVE  /\ AskedTokens' = [AskedTokens EXCEPT ![c] = NoRequest]
         /\ ClosingFiles' = ClosingFiles
         /\ ContestedFiles' = ContestedFiles
         /\ Sound' <=> Sound
<1>1. /\ \A d \in Clients \ {c} : pc'[d] = pc[d] /\ request'[d] = request[d]
      /\ pc'[c] \in {"read", "await_ack"}
      /\ conflicting' = conflicting /\ health' = health
      /\ conflicting[c] # <<>> => request' = request
  BY DEF GrantRevoke, TypeOK
<1>2. AskedTokens' = [AskedTokens EXCEPT ![c] = NoRequest]
  BY <1>1, HandlerView DEF Asked
<1>3. ClosingFiles' = ClosingFiles
  <2>1. ClosingFiles' = [ClosingFiles EXCEPT ![c] = ClosingFiles[c]]
    BY <1>1, HandlerView, ViewAt
  <2> QED BY <2>1 DEF ClosingFiles
<1>4. ContestedFiles' = ContestedFiles
  BY <1>1, ContestedSame
<1> QED BY <1>1, <1>2, <1>3, <1>4 DEF Sound

\* A step that the lock service does not see.
LEMMA HandlerUnseen ==
  ASSUME UNCHANGED <<token_table, pc, request, conflicting, health>>
  PROVE  UNCHANGED Service!lockVars
BY DEF Service!lockVars, HeldTokens, TokensOf, ContestedFiles, Contested, AskedTokens, Asked,
       RequestedToken, ClosingFiles, Sound

LEMMA AskedSomething ==
  ASSUME TypeOK, HandlerInv, NEW c \in Clients, pc[c] = "split"
  PROVE  /\ request[c].filename \in Files /\ RequestedToken(c) \in Token
         /\ AskedTokens[c] # NoRequest
         /\ AskedTokens[c].filename = request[c].filename
         /\ AskedTokens[c].token = RequestedToken(c)
<1>1. request[c].filename \in Files /\ RequestedToken(c) \in Token
  BY RequestedTokenType DEF Request
<1>2. AskedTokens[c] = [filename |-> request[c].filename, token |-> RequestedToken(c)]
  BY ViewAt DEF Asked
<1>3. AskedTokens[c] \in [filename : Files, token : Token]
  BY <1>1, <1>2
<1> QED BY <1>1, <1>2, <1>3, NoRequestAssumption


-----------------------------------------------------------------------------
(* Every step is one of LockService's, or is not seen.                      *)

LEMMA ReadRequestRefines ==
  ASSUME TokenInv, TokenInv', NEW c \in Clients, ReadRequest(c)
  PROVE  Service!Ask(c) \/ Service!StartClose(c)
<1>1. TypeOK /\ HandlerInv /\ TypeOK' /\ HandlerInv'
  BY DEF TokenInv
<1>2. /\ \A d \in Clients \ {c} : pc'[d] = pc[d] /\ request'[d] = request[d]
      /\ pc[c] = "read" /\ pc'[c] \in {"split", "release"}
      /\ token_table' = token_table /\ conflicting' = conflicting /\ health' = health
  BY <1>1 DEF ReadRequest, TypeOK
<1>3. conflicting[c] = <<>>
  BY <1>1, <1>2 DEF HandlerInv
<1>4. ContestedFiles' = ContestedFiles /\ HeldTokens' = HeldTokens /\ (Sound' <=> Sound)
  BY <1>2, <1>3, ContestedSame DEF HeldTokens, TokensOf, Sound
<1>5. request'[c].filename \in Files /\ RequestedToken(c)' \in Token
      /\ RequestedToken(c)'.client_id = c
  BY <1>1, <1>2 DEF TypeOK, HandlerInv, Request, RequestedToken, Token, TokenTypes
<1>6. AskedTokens[c] = NoRequest /\ ClosingFiles[c] = NoRequest
  BY <1>2, ViewAt DEF Asked
<1>7. CASE pc'[c] = "split"
  <2> DEFINE asking == [filename |-> request'[c].filename, token |-> RequestedToken(c)']
  <2>1. AskedTokens' = [AskedTokens EXCEPT ![c] = asking]
    BY <1>2, <1>7, HandlerView DEF Asked
  <2>2. AskedTokens'[c] = asking
    BY <2>1 DEF AskedTokens
  <2>3. asking \in [filename : Files, token : Token]
    BY <1>5
  <2>4. asking # NoRequest
    BY <2>3, NoRequestAssumption
  <2>5. ClosingFiles' = ClosingFiles
    <3>1. ClosingFiles' = [ClosingFiles EXCEPT ![c] = ClosingFiles[c]]
      BY <1>2, <1>6, <1>7, HandlerView
    <3> QED BY <3>1 DEF ClosingFiles
  <2>6. asking.filename \in Files /\ asking.token.client_id = c
    BY <1>5
  <2> HIDE DEF asking
  <2>7. Service!Ask(c)
    BY <1>4, <1>6, <2>1, <2>2, <2>4, <2>5, <2>6 DEF Service!Ask
  <2> QED BY <2>7
<1>8. CASE pc'[c] = "release"
  <2>1. ClosingFiles' = [ClosingFiles EXCEPT ![c] = request'[c].filename]
    BY <1>2, <1>8, HandlerView
  <2>2. ClosingFiles'[c] = request'[c].filename
    BY <2>1 DEF ClosingFiles
  <2>3. AskedTokens' = AskedTokens
    <3>1. AskedTokens' = [AskedTokens EXCEPT ![c] = AskedTokens[c]]
      BY <1>2, <1>6, <1>8, HandlerView DEF Asked
    <3> QED BY <3>1 DEF AskedTokens
  <2>4. Service!StartClose(c)
    BY <1>4, <1>5, <1>6, <2>1, <2>2, <2>3 DEF Service!StartClose
  <2> QED BY <2>4
<1> QED BY <1>2, <1>7, <1>8

LEMMA SplitEraseRefines ==
  ASSUME TokenInv, NEW c \in Clients, SplitErase(c), Sound'
  PROVE  Service!Contest(c)
<1> DEFINE f == request[c].filename
           existing == Table(c)[it[c]]
           split == EraseAndSplit(Table(c), it[c], RequestedToken(c))
<1>1. TypeOK /\ HandlerInv /\ RangeInv
  BY DEF TokenInv
<1>2. /\ f \in Files /\ pc[c] = "split" /\ it[c] \in 1..Len(Table(c))
      /\ token_table' = [token_table EXCEPT ![f] = split]
      /\ conflicting' = [conflicting EXCEPT ![c] = Append(@, existing)]
      /\ Table(c) \in Seq(Token) /\ existing \in Token
  BY <1>1, SplitEffect
<1>3. Conflicts(existing, RequestedToken(c)) /\ request' = request /\ pc' = pc
      /\ health' \in {health, "wild", "crashed"}
  BY DEF SplitErase
<1>4. AskedTokens[c] # NoRequest /\ AskedTokens[c].filename = f
      /\ AskedTokens[c].token = RequestedToken(c) /\ RequestedToken(c) \in Token
  BY <1>1, <1>2, AskedSomething
<1>5. ~Service!Compatible(existing, RequestedToken(c))
  BY <1>2, <1>3, <1>4 DEF Conflicts, Overlaps, Service!Compatible, Service!Apart, Token, TokenTypes
<1>6. existing \in HeldTokens[f]
  BY <1>2, ViewAt DEF TokensOf, Table
<1>7. \A g \in Files \ {f} : HeldTokens'[g] = HeldTokens[g]
  <2> HIDE DEF split
  <2> QED BY <1>1, <1>2, HeldStep
<1>8. ContestedFiles' = ContestedFiles \union {f}
  <2>1. conflicting'[c] # <<>>
    BY <1>1, <1>2, AppendNonEmpty DEF TypeOK
  <2>2. \A d \in Clients \ {c} : conflicting'[d] = conflicting[d]
    BY <1>1, <1>2 DEF TypeOK
  <2>3. \A g \in Files : Contested(g)' <=> Contested(g) \/ g = f
    BY <1>3, <2>1, <2>2 DEF Contested
  <2> QED BY <1>2, <2>3 DEF ContestedFiles
<1>9. AskedTokens' = AskedTokens /\ ClosingFiles' = ClosingFiles
  BY <1>3 DEF AskedTokens, Asked, RequestedToken, ClosingFiles
<1>10. Sound
  BY <1>3 DEF Sound
<1> QED BY <1>4, <1>5, <1>6, <1>7, <1>8, <1>9, <1>10 DEF Service!Contest, Service!ElsewhereSame

LEMMA HullCovers ==
  ASSUME NEW t \in Token, NEW requested \in Token
  PROVE  LET u == Hull(t, requested)
         IN  /\ u.token_type = t.token_type /\ u.client_id = t.client_id
             /\ ReachesOver(u, t) /\ ReachesOver(u, requested)
BY DEF Hull, Part, ReachesOver, Token

LEMMA ReachesSelf == \A t \in Token : ReachesOver(t, t)
BY DEF ReachesOver, Token

\* What merges without a conflict is READ.
LEMMA ReadsMerge ==
  ASSUME NEW t \in Token, NEW requested \in Token,
         Mergeable(t, requested), Compatible(t, requested)
  PROVE  t.token_type = "READ" /\ requested.token_type = "READ"
BY DEF Mergeable, Compatible, Apart, Overlaps, Token

LEMMA GrantMergeRefines ==
  ASSUME ServiceInv, TokenInv', Sound, NEW c \in Clients, GrantMerge(c)
  PROVE  Service!GrantWider(c) \/ Service!GrantContested(c)
<1> DEFINE requested == RequestedToken(c)
           table == Table(c)
<1>1. TypeOK /\ HandlerInv /\ RangeInv /\ LoopInv /\ TokenInv /\ SplitOver(c)
  BY DEF ServiceInv, TokenInv, LoopInv, GrantMerge
<1>0. PICK f \in Files : f = request[c].filename
  BY <1>1, SplitOverAgrees DEF ServiceInv, TokenInv, LoopInv, NeverDangled
<1>2. PICK k \in 1..Len(table) :
        /\ Mergeable(table[k], requested)
        /\ token_table' = [token_table EXCEPT ![f][k] = Hull(table[k], requested)]
        /\ GrantRevoke(c, Hull(table[k], requested))
  BY <1>0 DEF GrantMerge
<1> DEFINE t == table[k]
           u == Hull(table[k], requested)
<1>3. /\ table \in Seq(Token) /\ Len(table) \in Nat /\ requested \in Token
      /\ NonEmpty(requested) /\ t \in Token /\ NonEmpty(t)
      /\ Compatible(t, requested)
      /\ table = token_table[f] /\ pc[c] = "split"
  BY <1>0, <1>1, SplitOverAgrees DEF Table, SplitOver, NeverDangled
<1>4. /\ AskedTokens[c] # NoRequest /\ AskedTokens[c].filename = f
      /\ AskedTokens[c].token = requested
  BY <1>0, <1>1, <1>3, AskedSomething
<1>5. /\ AskedTokens' = [AskedTokens EXCEPT ![c] = NoRequest]
      /\ ClosingFiles' = ClosingFiles /\ ContestedFiles' = ContestedFiles
      /\ Sound' <=> Sound
  BY <1>1, <1>2, <1>3, GrantView
<1>6. t.token_type = "READ" /\ u.token_type = "READ" /\ u.client_id = t.client_id
      /\ Service!Covers(u, t) /\ Service!Covers(u, requested)
  <2>1. t.token_type = "READ" /\ requested.token_type = "READ"
    BY <1>2, <1>3, ReadsMerge
  <2>2. u.token_type = t.token_type /\ u.client_id = t.client_id
        /\ ReachesOver(u, t) /\ ReachesOver(u, requested)
    BY <1>3, HullCovers
  <2> HIDE DEF t, u, requested
  <2> QED BY <2>1, <2>2 DEF Service!Covers, ReachesOver
<1> DEFINE new == [table EXCEPT ![k] = u]
<1>7. token_table' = [token_table EXCEPT ![f] = new]
  BY <1>2, <1>3
<1>8. /\ k \in 1..Len(table) /\ Len(new) = Len(table)
      /\ \A j \in 1..Len(table) : new[j] = IF j = k THEN u ELSE table[j]
  BY <1>2, <1>3
<1> HIDE DEF new
<1>9. /\ HeldTokens' = [HeldTokens EXCEPT ![f] = {new[j] : j \in 1..Len(new)}]
      /\ HeldTokens'[f] = {new[j] : j \in 1..Len(new)}
      /\ \A g \in Files \ {f} : HeldTokens'[g] = HeldTokens[g]
  BY <1>1, <1>3, <1>7, HeldStep
<1>10. u \in HeldTokens'[f]
  BY <1>8, <1>9
<1>11. CASE f \in ContestedFiles
  BY <1>4, <1>5, <1>6, <1>9, <1>10, <1>11
  DEF Service!GrantContested, Service!ElsewhereSame, Service!Answered
<1>12. CASE f \notin ContestedFiles
  <2>1. NoneTwice(f) /\ Exclusive(f) /\ ~Contested(f)
    BY <1>1, <1>3, <1>12, ViewAt DEF ServiceInv, TokenInv, ExclusiveUntilContested
  <2>2. Exclusive(f)'
    <3>1. ~Contested(f)'
      BY <1>3, <1>5, <1>12 DEF ContestedFiles
    <3> QED BY <1>3, <1>5, <3>1 DEF TokenInv, ExclusiveUntilContested
  <2>3. HeldTokens[f] = {table[j] : j \in 1..Len(table)}
    BY <1>3, ViewAt DEF TokensOf
  <2>4. ASSUME NEW j \in 1..Len(table), j # k
        PROVE  table[j] # t
    <3>1. CASE j < k
      <4>1. ~ReachesOver(t, table[j])
        BY <1>3, <2>1, <3>1 DEF NoneTwice
      <4> QED BY <1>3, <4>1, ReachesSelf
    <3>2. CASE j > k
      <4>1. ~ReachesOver(table[j], t)
        BY <1>3, <2>1, <3>2 DEF NoneTwice
      <4> QED BY <1>3, <4>1, ReachesSelf
    <3> QED BY <1>3, <2>4, <3>1, <3>2
  <2> HIDE DEF u, t, table
  <2>5. HeldTokens'[f] = (HeldTokens[f] \ {t}) \union {u}
    BY <1>8, <1>9, <2>3, <2>4 DEF t
  <2>6. \A v \in HeldTokens[f] \ {t} : Service!Compatible(v, u)
    <3> SUFFICES ASSUME NEW j \in 1..Len(table), table[j] # t
                 PROVE  Service!Compatible(table[j], u)
      BY <2>3
    <3>1. j # k
      BY DEF t
    <3>2. token_table'[f] = new
      BY <1>1, <1>3, <1>7 DEF TypeOK
    <3>3. Compatible(new[j], new[k])
      BY <1>8, <2>2, <3>1, <3>2 DEF Exclusive
    <3>4. Compatible(table[j], u)
      BY <1>8, <3>1, <3>3
    <3> QED BY <3>4 DEF Compatible, Apart, Service!Compatible, Service!Apart
  <2>7. HeldTokens' = [HeldTokens EXCEPT ![f] = (@ \ {t}) \union {u}]
    BY <1>9, <2>5
  <2>8. t \in HeldTokens[f]
    BY <1>8, <2>3 DEF t
  <2>9. Service!GrantWider(c)
    BY <1>4, <1>5, <1>6, <1>10, <1>12, <2>6, <2>7, <2>8
    DEF Service!GrantWider, Service!Answered
  <2> QED BY <2>9
<1> QED BY <1>11, <1>12


LEMMA GrantNewRefines ==
  ASSUME TokenInv, Sound, NEW c \in Clients, GrantNew(c)
  PROVE  Service!GrantNew(c) \/ Service!GrantContested(c)
<1> DEFINE table == Table(c)
           new == RequestedToken(c)
<1>1. TypeOK /\ HandlerInv /\ RangeInv /\ LoopInv /\ SplitOver(c)
      /\ GrantRevoke(c, new)
  BY DEF TokenInv, LoopInv, GrantNew
<1>2. PICK f \in Files : f = request[c].filename
  BY <1>1, SplitOverAgrees DEF NeverDangled
<1>3. /\ table \in Seq(Token) /\ Len(table) \in Nat /\ new \in Token
      /\ \A k \in 1..Len(table) : Compatible(table[k], new)
      /\ table = token_table[f] /\ pc[c] = "split"
  BY <1>1, <1>2, SplitOverAgrees DEF Table, SplitOver, NeverDangled
<1>4. /\ AskedTokens[c] # NoRequest /\ AskedTokens[c].filename = f
      /\ AskedTokens[c].token = new
  BY <1>1, <1>2, <1>3, AskedSomething
<1>5. /\ AskedTokens' = [AskedTokens EXCEPT ![c] = NoRequest]
      /\ ClosingFiles' = ClosingFiles /\ ContestedFiles' = ContestedFiles
      /\ Sound' <=> Sound
  BY <1>1, <1>3, GrantView
<1>6. token_table' = [token_table EXCEPT ![f] = Append(table, new)]
  BY <1>2, <1>3 DEF GrantNew
<1>7. new.token_type \in {"READ", "WRITE"} /\ new.client_id = c
      /\ new.start_byte \in Int /\ new.end_byte \in Int
  BY <1>3 DEF Token, TokenTypes, RequestedToken
<1> DEFINE tokens == Append(table, new)
<1>8. /\ Len(tokens) = Len(table) + 1
      /\ \A k \in 1..Len(table) + 1 : tokens[k] = IF k <= Len(table) THEN table[k] ELSE new
  <2> HIDE DEF table, new
  <2> QED BY <1>3
<1> HIDE DEF tokens, new, table
<1>9. HeldTokens[f] = {table[k] : k \in 1..Len(table)}
  BY <1>3, ViewAt DEF TokensOf
<1>10. {tokens[k] : k \in 1..Len(tokens)} = HeldTokens[f] \union {new}
  BY <1>3, <1>8, <1>9
<1>11. /\ HeldTokens' = [HeldTokens EXCEPT ![f] = HeldTokens[f] \union {new}]
       /\ HeldTokens'[f] = HeldTokens[f] \union {new}
       /\ \A g \in Files \ {f} : HeldTokens'[g] = HeldTokens[g]
  <2>1. token_table' = [token_table EXCEPT ![f] = tokens]
    BY <1>6 DEF tokens
  <2> DEFINE held == {tokens[k] : k \in 1..Len(tokens)}
  <2>2. /\ HeldTokens' = [HeldTokens EXCEPT ![f] = held]
        /\ HeldTokens'[f] = held
        /\ \A g \in Files \ {f} : HeldTokens'[g] = HeldTokens[g]
    BY <1>1, <2>1, HeldStep
  <2>3. held = HeldTokens[f] \union {new}
    BY <1>10
  <2> HIDE DEF held
  <2> QED BY <2>2, <2>3
<1>12. \A u \in HeldTokens[f] : Service!Compatible(u, new)
  BY <1>3, <1>9 DEF Compatible, Apart, Service!Compatible, Service!Apart
<1>13. CASE f \notin ContestedFiles
  BY <1>4, <1>5, <1>11, <1>12, <1>13 DEF Service!GrantNew, Service!Answered
<1>14. CASE f \in ContestedFiles
  <2>1. Service!Covers(new, new)
    BY <1>7 DEF Service!Covers
  <2>2. new.token_type = "WRITE" => \A u \in HeldTokens'[f] \ {new} : Service!Apart(u, new)
    BY <1>11, <1>12 DEF Service!Compatible
  <2>3. new \in HeldTokens'[f]
    BY <1>11
  <2> QED BY <1>4, <1>5, <1>7, <1>11, <1>14, <2>1, <2>2, <2>3
      DEF Service!GrantContested, Service!ElsewhereSame, Service!Answered
<1> QED BY <1>13, <1>14

LEMMA ReleaseEraseRefines ==
  ASSUME TokenInv, NEW c \in Clients, ReleaseErase(c)
  PROVE  Service!Release(c) \/ UNCHANGED Service!lockVars
<1> DEFINE table == Table(c)
           i == it[c]
<1>1. TypeOK /\ HandlerInv /\ pc[c] = "release" /\ i \in 1..Len(table)
      /\ table[i].client_id = c
      /\ UNCHANGED <<pc, request, conflicting, health>>
  BY DEF TokenInv, ReleaseErase, At, TypeOK
<1>2. table \in Seq(Token) /\ request[c].filename \in Files
  BY <1>1, RequestedTokenType DEF Request
<1>3. PICK f \in Files : f = request[c].filename
  BY <1>2
<1>4. table = token_table[f]
  BY <1>3 DEF Table
<1> DEFINE t == table[i]
           left == RemoveAt(table, i)
<1>5. /\ Len(left) = Len(table) - 1
      /\ \A k \in 1..Len(table) - 1 : left[k] = IF k < i THEN table[k] ELSE table[k + 1]
  BY <1>1, <1>2, RemoveAtFacts
<1>6. token_table' = [token_table EXCEPT ![f] = left]
  BY <1>3, <1>4 DEF ReleaseErase
<1>7. ClosingFiles[c] = f /\ f # NoRequest
  BY <1>1, <1>3, NoRequestAssumption DEF ClosingFiles
<1>8. /\ ContestedFiles' = ContestedFiles /\ AskedTokens' = AskedTokens
      /\ ClosingFiles' = ClosingFiles /\ (Sound' <=> Sound)
  BY <1>1 DEF ContestedFiles, Contested, AskedTokens, Asked, RequestedToken, ClosingFiles, Sound
<1>9. Len(table) \in Nat /\ i \in 1..Len(table)
  BY <1>1, <1>2
<1> HIDE DEF table, i, left
<1> DEFINE remain == {left[k] : k \in 1..Len(left)}
<1>10. HeldTokens[f] = {table[k] : k \in 1..Len(table)}
  BY <1>4, ViewAt DEF TokensOf
<1>11. remain \subseteq HeldTokens[f]
  <2> SUFFICES ASSUME NEW k \in 1..Len(left) PROVE left[k] \in HeldTokens[f]
    OBVIOUS
  <2> QED BY <1>5, <1>9, <1>10
<1>12. HeldTokens[f] \ {t} \subseteq remain
  <2> SUFFICES ASSUME NEW k \in 1..Len(table), table[k] # t PROVE table[k] \in remain
    BY <1>10
  <2>1. CASE k < i
    BY <1>5, <1>9, <2>1
  <2>2. CASE k > i
    <3>1. k - 1 \in 1..Len(left) /\ left[k - 1] = table[k]
      BY <1>5, <1>9, <2>2
    <3> QED BY <3>1
  <2> QED BY <1>9, <2>1, <2>2
<1>13. HeldTokens' = [HeldTokens EXCEPT ![f] = remain]
  BY <1>1, <1>6, HeldStep
<1>14. t \in HeldTokens[f] /\ t.client_id = c
  BY <1>1, <1>9, <1>10
<1> HIDE DEF remain, t
<1>15. CASE t \in remain
  <2>1. remain = HeldTokens[f]
    BY <1>11, <1>12, <1>15
  <2>2. HeldTokens' = HeldTokens
    BY <1>13, <2>1 DEF HeldTokens
  <2> QED BY <1>8, <2>2 DEF Service!lockVars
<1>16. CASE t \notin remain
  <2>1. remain = HeldTokens[f] \ {t}
    BY <1>11, <1>12, <1>16
  <2> QED BY <1>7, <1>8, <1>13, <1>14, <2>1 DEF Service!Release
<1> QED BY <1>15, <1>16

LEMMA ReleaseDoneRefines ==
  ASSUME TokenInv, NEW c \in Clients, ReleaseDone(c)
  PROVE  Service!FinishClose(c)
<1>1. TypeOK /\ HandlerInv /\ pc[c] = "release" /\ it[c] > Len(Table(c))
      /\ it[c] \in Nat
      /\ UNCHANGED <<token_table, conflicting, health>>
      /\ pc' = [pc EXCEPT ![c] = "read"] /\ request' = [request EXCEPT ![c] = NoRequest]
  BY DEF TokenInv, ReleaseDone, TypeOK
<1>2. request[c].filename \in Files /\ Table(c) \in Seq(Token) /\ conflicting[c] = <<>>
  BY <1>1, RequestedTokenType DEF Request, HandlerInv
<1>3. PICK f \in Files : f = request[c].filename
  BY <1>2
<1>4. \A t \in HeldTokens[f] : t.client_id # c
  <2>1. HeldTokens[f] = {Table(c)[k] : k \in 1..Len(Table(c))}
    BY <1>3, ViewAt DEF TokensOf, Table
  <2>2. ReleasedPrefixOf(c)
    BY DEF TokenInv, ReleasedPrefix
  <2>3. Len(Table(c)) \in Nat
    BY <1>2
  <2> QED BY <1>1, <2>1, <2>2, <2>3 DEF ReleasedPrefixOf
<1>5. ClosingFiles[c] = f /\ f # NoRequest
  BY <1>1, <1>3, NoRequestAssumption DEF ClosingFiles
<1>6. \A d \in Clients \ {c} : pc'[d] = pc[d] /\ request'[d] = request[d]
  BY <1>1 DEF TypeOK
<1>7. pc'[c] = "read"
  BY <1>1 DEF TypeOK
<1>8. ClosingFiles' = [ClosingFiles EXCEPT ![c] = NoRequest]
  BY <1>6, <1>7, HandlerView
<1>9. AskedTokens' = AskedTokens
  <2>1. AskedTokens' = [AskedTokens EXCEPT ![c] = AskedTokens[c]]
    BY <1>1, <1>6, <1>7, HandlerView, ViewAt DEF Asked
  <2> QED BY <2>1 DEF AskedTokens
<1>10. ContestedFiles' = ContestedFiles
  BY <1>1, <1>2, <1>6, ContestedSame
<1>11. HeldTokens' = HeldTokens /\ (Sound' <=> Sound)
  BY <1>1 DEF HeldTokens, TokensOf, Sound
<1> QED BY <1>4, <1>5, <1>8, <1>9, <1>10, <1>11 DEF Service!FinishClose

LEMMA ServiceInit == TokenInit => Service!LockInit
<1> SUFFICES ASSUME TokenInit PROVE Service!LockInit
  OBVIOUS
<1>1. HeldTokens = [f \in Files |-> {}]
  BY DEF TokenInit, HeldTokens, TokensOf
<1>2. ContestedFiles = {}
  BY DEF TokenInit, ContestedFiles, Contested
<1>3. AskedTokens = [c \in Clients |-> NoRequest] /\ ClosingFiles = [c \in Clients |-> NoRequest]
  BY DEF TokenInit, AskedTokens, Asked, ClosingFiles
<1> QED BY <1>1, <1>2, <1>3 DEF TokenInit, Service!LockInit, Sound

\* Once the service is broken everything is allowed.
LEMMA BrokenRefines == ServiceInv' /\ ~Sound' => Service!Break
<1> SUFFICES ASSUME BrokenByConflict', ~Sound' PROVE Service!Break
  BY DEF ServiceInv
<1>1. \E f \in Files : Contested(f)'
  BY DEF BrokenByConflict
<1>2. ContestedFiles' # {}
  BY <1>1 DEF ContestedFiles
<1> QED BY <1>2 DEF Service!Break

LEMMA ServiceStep ==
  ServiceInv /\ ServiceInv' /\ [Next]_tokenVars => [Service!LockNext]_Service!lockVars
<1> SUFFICES ASSUME ServiceInv, ServiceInv', [Next]_tokenVars
             PROVE  Service!LockNext \/ UNCHANGED Service!lockVars
  OBVIOUS
<1>1. TokenInv /\ TokenInv'
  BY DEF ServiceInv
<1>2. CASE ~Sound'
  BY <1>2, BrokenRefines DEF Service!LockNext
<1>3. CASE Sound'
  <2>1. Sound
    BY <1>3, SoundBefore
  <2>2. CASE UNCHANGED tokenVars
    BY <2>2, HandlerUnseen DEF tokenVars, serverVars
  <2>3. ASSUME NEW c \in Clients, Handler(c) \/ Client(c)
        PROVE  Service!LockNext \/ UNCHANGED Service!lockVars
    <3>1. CASE AwaitAck(c) \/ HandlerReturn(c) \/ Client(c)
      <4>1. UNCHANGED serverVars
        BY <3>1 DEF AwaitAck, HandlerReturn, Client, ClientCall, ClientRead, ClientDone,
                    ClientDies, HangUp, ClientBroken
      <4> QED BY <4>1, HandlerUnseen DEF serverVars
    <3>2. CASE ScanKeep(c) \/ ReleaseKeep(c)
      BY <3>2, HandlerUnseen DEF ScanKeep, ReleaseKeep
    <3>3. CASE ReadRequest(c)
      BY <1>1, <3>3, ReadRequestRefines DEF Service!LockNext
    <3>4. CASE SplitErase(c)
      BY <1>1, <1>3, <3>4, SplitEraseRefines DEF Service!LockNext
    <3>5. CASE GrantMerge(c)
      BY <1>1, <2>1, <3>5, GrantMergeRefines DEF Service!LockNext
    <3>6. CASE GrantNew(c)
      BY <1>1, <2>1, <3>6, GrantNewRefines DEF Service!LockNext
    <3>7. CASE ReleaseErase(c)
      BY <1>1, <3>7, ReleaseEraseRefines DEF Service!LockNext
    <3>8. CASE ReleaseDone(c)
      BY <1>1, <3>8, ReleaseDoneRefines DEF Service!LockNext
    <3> QED BY <2>3, <3>1, <3>2, <3>3, <3>4, <3>5, <3>6, <3>7, <3>8 DEF Handler
  <2> QED BY <2>2, <2>3 DEF Next
<1> QED BY <1>2, <1>3

\* The handlers implement the lock service: each grant, each conflict and each
\* token given back is one step, whatever handlers and clients do in between
\* (pfs_metaserver.cpp lines 117-253).
THEOREM TokenServerImplementsLockService == Spec => ImplementsLockService
<1>1. TokenInit => Service!LockInit
  BY ServiceInit
<1>2. ServiceInv /\ ServiceInv' /\ [Next]_tokenVars => [Service!LockNext]_Service!lockVars
  BY ServiceStep
<1> QED BY <1>1, <1>2, ServiceInvariant, PTL DEF Spec, ImplementsLockService, Service!LockSpec

=============================================================================
