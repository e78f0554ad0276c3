-------------------------- MODULE TokenServerProofs --------------------------
(* What the byte-range token service guarantees for every number of         *)
(* clients, files and ranges.                                               *)
EXTENDS TokenServer, SequenceTheorems, TLAPS

-----------------------------------------------------------------------------
\* A call begins with a request over a range that is not empty.
LEMMA CallRequest ==
  ASSUME NEW c \in Clients, ClientCall(c)
  PROVE  \E req \in Request : OpenCall(c, req) /\ NonEmpty(req)
<1>1. ASSUME NEW f \in Files, NEW type \in {"READ", "WRITE", "CLOSE"}, NEW r,
             r.start_byte \in Int, r.end_byte \in Int, r.start_byte <= r.end_byte
      PROVE  RequestFor(f, type, r) \in Request /\ NonEmpty(RequestFor(f, type, r))
  BY <1>1 DEF RequestFor, Request, TokenTypes, NonEmpty
<1>2. PICK f \in Files :
        \/ \E r \in ReadRanges : OpenCall(c, RequestFor(f, "READ", r))
        \/ \E r \in WriteRanges : OpenCall(c, RequestFor(f, "WRITE", r))
        \/ OpenCall(c, RequestFor(f, "CLOSE", NoRange))
  BY DEF ClientCall
<1>3. CASE \E r \in ReadRanges : OpenCall(c, RequestFor(f, "READ", r))
  BY <1>1, <1>3, RangesAssumption
<1>4. CASE \E r \in WriteRanges : OpenCall(c, RequestFor(f, "WRITE", r))
  BY <1>1, <1>4, RangesAssumption
<1>5. CASE OpenCall(c, RequestFor(f, "CLOSE", NoRange))
  <2>1. NoRange.start_byte = 0 /\ NoRange.end_byte = 0
    BY DEF NoRange
  <2> QED BY <1>1, <1>5, <2>1
<1> QED BY <1>2, <1>3, <1>4, <1>5

-----------------------------------------------------------------------------
(* Operators on the vector of a file.                                       *)

\* Erasing element i shortens the vector by one and moves the elements after
\* it down (RemoveAt stands for vector::erase).
LEMMA RemoveAtFacts ==
  ASSUME NEW S, NEW s \in Seq(S), NEW i \in 1..Len(s)
  PROVE  /\ RemoveAt(s, i) \in Seq(S)
         /\ Len(RemoveAt(s, i)) = Len(s) - 1
         /\ \A k \in 1..Len(s) - 1 :
              RemoveAt(s, i)[k] = IF k < i THEN s[k] ELSE s[k + 1]
<1> DEFINE a == SubSeq(s, 1, i - 1)
           b == SubSeq(s, i + 1, Len(s))
<1>1. /\ a \in Seq(S) /\ Len(a) = i - 1
      /\ \A k \in 1..i - 1 : a[k] = s[k]
  <2>1. 1 \in 1..Len(s) + 1 /\ i - 1 \in 0..Len(s)
    OBVIOUS
  <2>2. CASE i = 1
    BY <2>2, SubSeqProperties
  <2>3. CASE i > 1
    BY <2>3, SubSeqProperties
  <2> QED BY <2>2, <2>3
<1>2. /\ b \in Seq(S) /\ Len(b) = Len(s) - i
      /\ \A k \in 1..Len(s) - i : b[k] = s[i + k]
  BY SubSeqProperties
<1> HIDE DEF a, b
<1>3. /\ a \o b \in Seq(S) /\ Len(a \o b) = Len(s) - 1
      /\ \A k \in 1..Len(s) - 1 : (a \o b)[k] = IF k < i THEN s[k] ELSE s[k + 1]
  <2>1. /\ a \o b \in Seq(S)
        /\ Len(a \o b) = Len(a) + Len(b)
        /\ \A k \in 1..Len(a) + Len(b) :
             (a \o b)[k] = IF k <= Len(a) THEN a[k] ELSE b[k - Len(a)]
    BY <1>1, <1>2, ConcatProperties
  <2> DEFINE ab == a \o b
  <2> HIDE DEF ab
  <2>2. Len(ab) = Len(s) - 1
    BY <1>1, <1>2, <2>1 DEF ab
  <2>3. ASSUME NEW k \in 1..Len(s) - 1
        PROVE  ab[k] = IF k < i THEN s[k] ELSE s[k + 1]
    <3>1. ab[k] = IF k <= i - 1 THEN a[k] ELSE b[k - (i - 1)]
      BY <1>1, <1>2, <2>1 DEF ab
    <3>2. CASE k < i
      BY <1>1, <3>1, <3>2
    <3>3. CASE k >= i
      BY <1>2, <3>1, <3>3
    <3> QED BY <3>2, <3>3
  <2> QED BY <2>1, <2>2, <2>3 DEF ab
<1> QED BY <1>3 DEF RemoveAt, a, b

\* s is what a split made of the first i - 1 tokens and of pieces of tokens:
\* every element has the owner of one of them, and no range is empty.
Derived(s, tokens, i) ==
  /\ s \in Seq(Token)
  /\ Len(s) >= Len(tokens) - 1
  /\ \A k \in 1..i - 1 : s[k] = tokens[k]
  /\ \A k \in 1..Len(s) : /\ NonEmpty(s[k])
                          /\ \E j \in 1..Len(tokens) : s[k].client_id = tokens[j].client_id

\* Appending a piece of one of the tokens keeps that.
LEMMA DerivedAppend ==
  ASSUME NEW tokens \in Seq(Token), NEW i \in 1..Len(tokens),
         NEW s, Derived(s, tokens, i),
         NEW t \in Token, NonEmpty(t),
         \E j \in 1..Len(tokens) : t.client_id = tokens[j].client_id
  PROVE  Derived(Append(s, t), tokens, i)
<1> DEFINE r == Append(s, t)
<1>1. /\ r \in Seq(Token) /\ Len(r) = Len(s) + 1
      /\ \A k \in 1..Len(s) : r[k] = s[k]
      /\ r[Len(s) + 1] = t
  BY DEF Derived
<1> HIDE DEF r
<1>2. \A k \in 1..i - 1 : r[k] = tokens[k]
  BY <1>1 DEF Derived
<1>3. ASSUME NEW k \in 1..Len(r)
      PROVE  /\ NonEmpty(r[k])
             /\ \E j \in 1..Len(tokens) : r[k].client_id = tokens[j].client_id
  <2>1. CASE k \in 1..Len(s)
    BY <1>1, <2>1 DEF Derived
  <2>2. CASE k = Len(s) + 1
    BY <1>1, <2>2
  <2> QED BY <1>1, <2>1, <2>2 DEF Derived
<1>4. Len(r) >= Len(tokens) - 1
  BY <1>1 DEF Derived
<1>5. Derived(r, tokens, i)
  BY <1>1, <1>2, <1>3, <1>4 DEF Derived
<1> QED BY <1>5 DEF r

\* What one turn of split_tokens leaves in the vector, whatever the dangling
\* reference reads.
LEMMA EraseAndSplitFacts ==
  ASSUME NEW tokens \in Seq(Token), NEW i \in 1..Len(tokens), NEW requested \in Token,
         \A k \in 1..Len(tokens) : NonEmpty(tokens[k])
  PROVE  Derived(EraseAndSplit(tokens, i, requested), tokens, i)
<1> DEFINE erased   == RemoveAt(tokens, i)
           existing == Slot(erased, i, tokens[i])
           lpiece   == Part(existing, existing.start_byte, requested.start_byte - 1)
           left     == IF StartsBefore(existing, requested) THEN Append(erased, lpiece) ELSE erased
           again    == Slot(left, i, tokens[i])
           rpiece   == Part(again, requested.end_byte + 1, again.end_byte)
           right    == IF EndsAfter(again, requested) THEN Append(left, rpiece) ELSE left
           Piece(t) == /\ t \in Token
                       /\ NonEmpty(t)
                       /\ \E j \in 1..Len(tokens) : t.client_id = tokens[j].client_id
<1>1. Derived(erased, tokens, i)
  <2>1. /\ erased \in Seq(Token) /\ Len(erased) = Len(tokens) - 1
        /\ \A k \in 1..Len(tokens) - 1 :
             erased[k] = IF k < i THEN tokens[k] ELSE tokens[k + 1]
    BY RemoveAtFacts
  <2> HIDE DEF erased
  <2>2. \A k \in 1..i - 1 : erased[k] = tokens[k]
    BY <2>1
  <2>3. ASSUME NEW k \in 1..Len(erased)
        PROVE  \E j \in 1..Len(tokens) : erased[k] = tokens[j]
    <3>1. CASE k < i
      BY <2>1, <3>1
    <3>2. CASE k >= i
      <4>1. erased[k] = tokens[k + 1] /\ k + 1 \in 1..Len(tokens)
        BY <2>1, <3>2
      <4> QED BY <4>1
    <3> QED BY <3>1, <3>2
  <2>4. ASSUME NEW k \in 1..Len(erased)
        PROVE  /\ NonEmpty(erased[k])
               /\ \E j \in 1..Len(tokens) : erased[k].client_id = tokens[j].client_id
    BY <2>3
  <2>5. Len(erased) >= Len(tokens) - 1
    <3>1. Len(tokens) \in Nat
      OBVIOUS
    <3> QED BY <2>1, <3>1
  <2>6. erased \in Seq(Token)
    BY <2>1
  <2> QED BY <2>2, <2>4, <2>5, <2>6 DEF Derived
<1>2. ASSUME NEW s, Derived(s, tokens, i)
      PROVE  Piece(Slot(s, i, tokens[i]))
  <2>1. Piece(tokens[i])
    OBVIOUS
  <2>2. CASE i <= Len(s)
    <3>1. i \in 1..Len(s)
      BY <1>2, <2>2 DEF Derived
    <3>2. Slot(s, i, tokens[i]) = s[i] /\ s[i] \in Token
      BY <1>2, <2>2, <3>1 DEF Slot, Derived
    <3> QED BY <1>2, <3>1, <3>2 DEF Derived
  <2>3. CASE ~(i <= Len(s))
    BY <2>1, <2>3 DEF Slot
  <2> QED BY <2>2, <2>3
<1>3. Piece(existing)
  BY <1>1, <1>2
<1> HIDE DEF erased, existing
<1>4. Derived(left, tokens, i)
  <2>1. CASE StartsBefore(existing, requested)
    <3>1. lpiece \in Token /\ lpiece.client_id = existing.client_id
      BY <1>3 DEF Token, Part
    <3>2. NonEmpty(lpiece)
      BY <1>3, <2>1 DEF StartsBefore, NonEmpty, Token, Part
    <3>3. \E j \in 1..Len(tokens) : lpiece.client_id = tokens[j].client_id
      BY <1>3, <3>1
    <3> HIDE DEF lpiece
    <3>4. Derived(Append(erased, lpiece), tokens, i)
      BY <1>1, <3>1, <3>2, <3>3, DerivedAppend
    <3> QED BY <2>1, <3>4
  <2> QED BY <1>1, <2>1
<1>5. Piece(again)
  BY <1>2, <1>4
<1> HIDE DEF left, again
<1>6. Derived(right, tokens, i)
  <2>1. CASE EndsAfter(again, requested)
    <3>1. rpiece \in Token /\ rpiece.client_id = again.client_id
      BY <1>5 DEF Token, Part
    <3>2. NonEmpty(rpiece)
      BY <1>5, <2>1 DEF EndsAfter, NonEmpty, Token, Part
    <3>3. \E j \in 1..Len(tokens) : rpiece.client_id = tokens[j].client_id
      BY <1>5, <3>1
    <3> HIDE DEF rpiece
    <3>4. Derived(Append(left, rpiece), tokens, i)
      BY <1>4, <3>1, <3>2, <3>3, DerivedAppend
    <3> QED BY <2>1, <3>4
  <2> QED BY <1>4, <2>1
<1> QED BY <1>6 DEF EraseAndSplit, erased, existing, left, again

-----------------------------------------------------------------------------
(* Types, the mutex and the handlers' locals.                               *)

\* A merged token is a token (consolidate_token_ranges).
LEMMA HullType ==
  ASSUME NEW t \in Token, NEW u \in Token
  PROVE  Hull(t, u) \in Token
BY DEF Hull, Part, Token

\* What a handler asks for in a split is a token (StreamToken, lines 121-146).
LEMMA RequestedTokenType ==
  ASSUME TypeOK, HandlerInv, NEW c \in Clients, pc[c] # "read"
  PROVE  /\ request[c] \in Request
         /\ RequestedToken(c) \in Token
         /\ Table(c) \in Seq(Token)
BY DEF TypeOK, HandlerInv, RequestedToken, Request, Token, TokenTypes, Table

\* The answers to a request: GRANT and REVOKE messages are responses.
LEMMA AnswersType ==
  ASSUME TypeOK, HandlerInv, NEW c \in Clients, pc[c] # "read", NEW t \in Token
  PROVE  /\ <<Message("GRANT", request[c].filename, t)>> \in Seq(Response)
         /\ Revokes(c) \in Seq(Response)
         /\ Len(Revokes(c)) = Len(conflicting[c])
<1>1. request[c].filename \in Files
  BY RequestedTokenType DEF Request
<1>2. Message("GRANT", request[c].filename, t) \in Response
  BY <1>1 DEF Message, Token, Response
<1>3. ASSUME NEW k \in 1..Len(conflicting[c])
      PROVE  Message("REVOKE", request[c].filename, conflicting[c][k]) \in Response
  <2>1. conflicting[c][k] \in Token
    BY DEF TypeOK
  <2> QED BY <1>1, <2>1 DEF Message, Token, Response
<1>4. Revokes(c) \in [1..Len(conflicting[c]) -> Response]
  BY <1>3 DEF Revokes
<1>5. Len(conflicting[c]) \in Nat
  BY DEF TypeOK
<1> QED BY <1>2, <1>4, <1>5

\* The end of a turn keeps everything but the vector well-formed.
LEMMA GrantTypes ==
  ASSUME TypeOK, HandlerInv, NEW c \in Clients, pc[c] = "split", NEW t \in Token,
         GrantRevoke(c, t)
  PROVE  /\ HandlerInv'
         /\ token_table_mutex' \in Clients \union {NoClient}
         /\ pc' \in [Clients -> {"read", "split", "release", "await_ack"}]
         /\ request' \in [Clients -> Request \union {NoRequest}]
         /\ it' \in [Clients -> Nat \ {0}]
         /\ responses' \in [Clients -> Seq(Response)]
         /\ responses' \in {responses, [responses EXCEPT ![c] =
              @ \o (<<Message("GRANT", request[c].filename, t)>> \o Revokes(c))]}
<1>1. /\ <<Message("GRANT", request[c].filename, t)>> \in Seq(Response)
      /\ Revokes(c) \in Seq(Response)
  BY AnswersType
<1>2. <<Message("GRANT", request[c].filename, t)>> \o Revokes(c) \in Seq(Response)
  BY <1>1, ConcatProperties
<1>3. responses[c] \in Seq(Response)
  BY DEF TypeOK
<1>4. responses[c] \o (<<Message("GRANT", request[c].filename, t)>> \o Revokes(c))
        \in Seq(Response)
  BY <1>2, <1>3, ConcatProperties
<1>5. HandlerInv'
  BY NoClientAssumption DEF GrantRevoke, TypeOK, HandlerInv
<1>6. responses' \in {responses, [responses EXCEPT ![c] =
        @ \o (<<Message("GRANT", request[c].filename, t)>> \o Revokes(c))]}
  BY DEF GrantRevoke, Write, Answer
<1>7. responses' \in [Clients -> Seq(Response)]
  BY <1>4, <1>6 DEF TypeOK
<1>8. token_table_mutex' \in Clients \union {NoClient} /\ it' \in [Clients -> Nat \ {0}]
  BY DEF GrantRevoke, TypeOK, Begin
<1>9. pc' \in [Clients -> {"read", "split", "release", "await_ack"}]
  BY DEF GrantRevoke, TypeOK
<1>10. request' \in [Clients -> Request \union {NoRequest}]
  BY DEF GrantRevoke, TypeOK
<1> QED BY <1>5, <1>6, <1>7, <1>8, <1>9, <1>10

\* Types, the mutex and the locals, at start-up.
LEMMA TypeInit == TokenInit => TypeOK /\ HandlerInv
BY NoClientAssumption DEF TokenInit, TypeOK, HandlerInv, CallPhases, Begin

\* Every step of a handler or a client keeps types, the mutex and the locals.
LEMMA TypeStep ==
  TypeOK /\ HandlerInv /\ RangeInv /\ [Next]_tokenVars => TypeOK' /\ HandlerInv'
<1> SUFFICES ASSUME TypeOK, HandlerInv, RangeInv, [Next]_tokenVars
             PROVE  TypeOK' /\ HandlerInv'
  OBVIOUS
<1> USE NoClientAssumption
<1> DEFINE Goal == TypeOK' /\ HandlerInv'
<1>1. ASSUME NEW c \in Clients, ReadRequest(c) PROVE Goal
  BY <1>1 DEF ReadRequest, TypeOK, HandlerInv, Begin
<1>2. ASSUME NEW c \in Clients, ScanKeep(c) PROVE Goal
  BY <1>2 DEF ScanKeep, At, TypeOK, HandlerInv, streamVars
<1>3. ASSUME NEW c \in Clients, SplitErase(c) PROVE Goal
  <2>1. pc[c] # "read" /\ it[c] \in 1..Len(Table(c))
    BY <1>3 DEF SplitErase, At, TypeOK
  <2>2. Derived(EraseAndSplit(Table(c), it[c], RequestedToken(c)), Table(c), it[c])
    <3>1. \A k \in 1..Len(Table(c)) : NonEmpty(Table(c)[k])
      BY <2>1, RequestedTokenType
         DEF RangeInv, RangesNonEmpty, TokensOf, Table, NonEmpty, Request
    <3> QED BY <2>1, <3>1, RequestedTokenType, EraseAndSplitFacts
  <2>3. /\ EraseAndSplit(Table(c), it[c], RequestedToken(c)) \in Seq(Token)
        /\ Table(c)[it[c]] \in Token
        /\ Len(EraseAndSplit(Table(c), it[c], RequestedToken(c))) \in Nat
    BY <2>1, <2>2, RequestedTokenType DEF Derived
  <2>4. PICK split \in Seq(Token), old \in Token :
          /\ conflicting' = [conflicting EXCEPT ![c] = Append(@, old)]
          /\ token_table' = [token_table EXCEPT ![request[c].filename] = split]
          /\ capacity' = [capacity EXCEPT ![request[c].filename] = Grown(@, Len(split))]
          /\ \/ it' = [it EXCEPT ![c] = @] /\ health' \in {health, "crashed"}
             \/ \E k \in 1..Len(split) + 1 : it' = [it EXCEPT ![c] = k] /\ health' = "wild"
    BY <1>3, <2>3 DEF SplitErase, AfterErase, TypeOK
  <2>9. token_table' \in [Files -> Seq(Token)]
    BY <2>4 DEF TypeOK
  <2>5. conflicting' \in [Clients -> Seq(Token)]
    <3>1. Append(conflicting[c], old) \in Seq(Token)
      BY <2>4 DEF TypeOK
    <3> QED BY <2>4, <3>1 DEF TypeOK
  <2>6. capacity' \in [Files -> Nat]
    <3>1. Len(split) \in Nat
      BY <2>4
    <3>2. \A n \in Nat : Grown(n, Len(split)) \in Nat
      BY <3>1 DEF Grown
    <3> QED BY <2>4, <3>2 DEF TypeOK
  <2>7. it' \in [Clients -> Nat \ {0}] /\ health' \in {"sound", "wild", "crashed"}
    BY <2>4 DEF TypeOK
  <2>8. HandlerInv'
    BY <1>3, <2>4 DEF SplitErase, At, TypeOK, HandlerInv
  <2> QED BY <1>3, <2>9, <2>5, <2>6, <2>7, <2>8 DEF SplitErase, TypeOK, streamVars
<1>4. ASSUME NEW c \in Clients, GrantMerge(c) PROVE Goal
  <2>1. pc[c] = "split"
    BY <1>4 DEF GrantMerge, SplitOver
  <2>2. PICK k \in 1..Len(Table(c)) :
          /\ token_table' = [token_table EXCEPT ![request[c].filename][k] =
                               Hull(Table(c)[k], RequestedToken(c))]
          /\ GrantRevoke(c, Hull(Table(c)[k], RequestedToken(c)))
    BY <1>4 DEF GrantMerge
  <2>3. Hull(Table(c)[k], RequestedToken(c)) \in Token
    <3>1. Table(c)[k] \in Token /\ RequestedToken(c) \in Token
      BY <2>1, RequestedTokenType
    <3> QED BY <3>1 DEF Hull, Part, Token
  <2>4. token_table' \in [Files -> Seq(Token)]
    <3>1. request[c].filename \in Files
      BY <2>1, RequestedTokenType DEF Request
    <3>2. [Table(c) EXCEPT ![k] = Hull(Table(c)[k], RequestedToken(c))] \in Seq(Token)
      BY <2>1, <2>3, RequestedTokenType
    <3> QED BY <2>2, <3>1, <3>2 DEF TypeOK, Table
  <2> QED BY <1>4, <2>1, <2>2, <2>3, <2>4, GrantTypes
          DEF GrantMerge, TypeOK, GrantRevoke
<1>5. ASSUME NEW c \in Clients, GrantNew(c) PROVE Goal
  <2>1. pc[c] = "split"
    BY <1>5 DEF GrantNew, SplitOver
  <2>2. RequestedToken(c) \in Token /\ Len(token_table[request[c].filename]) \in Nat
    BY <2>1, RequestedTokenType DEF TypeOK, Table
  <2>3. GrantRevoke(c, RequestedToken(c))
    BY <1>5 DEF GrantNew
  <2>4. token_table' \in [Files -> Seq(Token)] /\ capacity' \in [Files -> Nat]
    <3>1. \A n \in Nat : Grown(n, Len(token_table[request[c].filename]) + 1) \in Nat
      BY <2>2 DEF Grown
    <3>2. Append(token_table[request[c].filename], RequestedToken(c)) \in Seq(Token)
      BY <2>1, <2>2, RequestedTokenType DEF Table
    <3> QED BY <1>5, <3>1, <3>2 DEF GrantNew, TypeOK
  <2> QED BY <2>1, <2>2, <2>3, <2>4, GrantTypes DEF TypeOK, GrantRevoke
<1>6. ASSUME NEW c \in Clients, ReleaseErase(c) PROVE Goal
  <2>1. pc[c] = "release" /\ it[c] \in 1..Len(Table(c))
    BY <1>6 DEF ReleaseErase, At, TypeOK
  <2>2. RemoveAt(Table(c), it[c]) \in Seq(Token)
    BY <2>1, RequestedTokenType, RemoveAtFacts
  <2> QED BY <1>6, <2>1, <2>2, RequestedTokenType
          DEF ReleaseErase, At, TypeOK, HandlerInv, AfterErase, Table, Request, streamVars
<1>7. ASSUME NEW c \in Clients, ReleaseKeep(c) PROVE Goal
  BY <1>7 DEF ReleaseKeep, At, TypeOK, HandlerInv, streamVars
<1>8. ASSUME NEW c \in Clients, ReleaseDone(c) PROVE Goal
  <2>1. CloseAck(request[c].filename, c) \in Response
    BY <1>8, RequestedTokenType DEF ReleaseDone, CloseAck, Response, Request
  <2> QED BY <1>8, <2>1 DEF ReleaseDone, Write, TypeOK, HandlerInv, Begin
<1>9. ASSUME NEW c \in Clients, AwaitAck(c) PROVE Goal
  BY <1>9 DEF AwaitAck, serverVars, TypeOK, HandlerInv
<1>10. ASSUME NEW c \in Clients, HandlerReturn(c) PROVE Goal
  BY <1>10 DEF HandlerReturn, EndCall, serverVars, TypeOK, HandlerInv, CallPhases
<1>11. ASSUME NEW c \in Clients, ClientCall(c) PROVE Goal
  <2>1. PICK req \in Request : OpenCall(c, req)
    BY <1>11, CallRequest
  <2> QED BY <1>11, <2>1 DEF ClientCall, OpenCall, serverVars, TypeOK, HandlerInv, CallPhases
<1>12. ASSUME NEW c \in Clients, ClientRead(c) PROVE Goal
  <2>1. Head(responses[c]) \in Response /\ Tail(responses[c]) \in Seq(Response)
    BY <1>12 DEF ClientRead, TypeOK
  <2>2. [filename |-> Head(responses[c]).filename, token_type |-> "ACK",
         start_byte |-> Head(responses[c]).start_byte,
         end_byte |-> Head(responses[c]).end_byte] \in Request
    BY <2>1 DEF Response, Request
  <2> QED BY <1>12, <2>1, <2>2 DEF ClientRead, serverVars, TypeOK, HandlerInv, CallPhases
<1>13. ASSUME NEW c \in Clients, ClientDone(c) \/ ClientDies(c) PROVE Goal
  <2>1. /\ UNCHANGED serverVars /\ call' = [call EXCEPT ![c] = "done"]
        /\ responses' = [responses EXCEPT ![c] = <<>>]
        /\ requests' \in {requests, [requests EXCEPT ![c] = <<>>]}
    BY <1>13 DEF ClientDone, ClientDies, HangUp
  <2>2. requests' \in [Clients -> Seq(Request)]
    <3>1. <<>> \in Seq(Request)
      OBVIOUS
    <3> QED BY <2>1, <3>1 DEF TypeOK
  <2>3. responses' \in [Clients -> Seq(Response)]
    <3>1. <<>> \in Seq(Response)
      OBVIOUS
    <3> QED BY <2>1, <3>1 DEF TypeOK
  <2> QED BY <2>1, <2>2, <2>3 DEF serverVars, TypeOK, HandlerInv, CallPhases
<1>14. ASSUME NEW c \in Clients, ClientBroken(c) PROVE Goal
  BY <1>14 DEF ClientBroken, EndCall, serverVars, TypeOK, HandlerInv, CallPhases
<1>15. CASE UNCHANGED tokenVars
  BY <1>15 DEF tokenVars, serverVars, streamVars, TypeOK, HandlerInv
<1> QED
  BY <1>1, <1>2, <1>3, <1>4, <1>5, <1>6, <1>7, <1>8, <1>9, <1>10, <1>11, <1>12,
     <1>13, <1>14, <1>15 DEF Next, Handler, Client

-----------------------------------------------------------------------------
(* The traffic of a stream.                                                 *)

\* What the end of a turn writes: one GRANT, then the REVOKEs.
LEMMA GrantSent ==
  ASSUME TypeOK, HandlerInv, StreamInv, NEW c \in Clients, NEW t \in Token,
         pc[c] = "split", GrantRevoke(c, t)
  PROVE  /\ requests[c] = <<>> /\ requests' = requests /\ call' = call
         /\ Len(responses'[c]) \in {0, 1 + Len(conflicting[c])}
         /\ \A k \in 1..Len(responses'[c]) :
              responses'[c][k].token_action = IF k = 1 THEN "GRANT" ELSE "REVOKE"
         /\ \A d \in Clients \ {c} : responses'[d] = responses[d]
<1>1. /\ responses' \in {responses, [responses EXCEPT ![c] =
            @ \o (<<Message("GRANT", request[c].filename, t)>> \o Revokes(c))]}
      /\ requests' = requests /\ call' = call
  BY GrantTypes DEF GrantRevoke
<1>2. requests[c] = <<>> /\ responses[c] = <<>>
  BY DEF StreamInv, StreamInvOf
<1>3. /\ <<Message("GRANT", request[c].filename, t)>> \in Seq(Response)
      /\ Revokes(c) \in Seq(Response)
      /\ Len(Revokes(c)) = Len(conflicting[c])
  BY AnswersType
<1> DEFINE sent == <<Message("GRANT", request[c].filename, t)>> \o Revokes(c)
<1>nat. Len(conflicting[c]) \in Nat
  BY DEF TypeOK
<1>4. /\ sent \in Seq(Response)
      /\ Len(sent) = 1 + Len(conflicting[c])
      /\ \A k \in 1..Len(sent) :
           sent[k].token_action = IF k = 1 THEN "GRANT" ELSE "REVOKE"
  <2>1. /\ sent \in Seq(Response) /\ Len(sent) = 1 + Len(conflicting[c])
        /\ \A k \in 1..Len(sent) :
             sent[k] = IF k <= 1 THEN Message("GRANT", request[c].filename, t)
                       ELSE Revokes(c)[k - 1]
    BY <1>3, ConcatProperties
  <2> HIDE DEF sent
  <2>2. ASSUME NEW k \in 1..Len(sent)
        PROVE  sent[k].token_action = IF k = 1 THEN "GRANT" ELSE "REVOKE"
    <3>1. CASE k = 1
      BY <2>1, <3>1 DEF Message
    <3>2. CASE k > 1
      <4>1. k - 1 \in 1..Len(conflicting[c]) /\ sent[k] = Revokes(c)[k - 1]
        BY <1>nat, <2>1, <3>2
      <4> QED BY <3>2, <4>1 DEF Revokes, Message
    <3> QED BY <3>1, <3>2
  <2> QED BY <2>1, <2>2
<1> HIDE DEF sent
<1>5. responses'[c] \in {<<>>, sent}
  <2>1. <<>> \o sent = sent
    BY <1>4, ConcatEmptySeq
  <2> QED BY <1>1, <1>2, <2>1 DEF TypeOK, sent
<1>6. \A d \in Clients \ {c} : responses'[d] = responses[d]
  BY <1>1 DEF TypeOK
<1> QED BY <1>1, <1>2, <1>4, <1>5, <1>6

\* Every step keeps what can be in transit: one request, then its answers.
LEMMA StreamStep ==
  TypeOK /\ HandlerInv /\ StreamInv /\ [Next]_tokenVars => StreamInv'
<1> SUFFICES ASSUME TypeOK, HandlerInv, StreamInv, [Next]_tokenVars
             PROVE  StreamInv'
  OBVIOUS
<1>others. ASSUME NEW c \in Clients, StreamInvOf(c)', Running' => Running,
             \A d \in Clients \ {c} : /\ pc'[d] = pc[d] /\ call'[d] = call[d]
                                      /\ requests'[d] = requests[d]
                                      /\ responses'[d] = responses[d]
      PROVE  StreamInv'
  <2>1. ASSUME NEW d \in Clients \ {c} PROVE StreamInvOf(d)'
    <3>1. /\ pc'[d] = pc[d] /\ call'[d] = call[d]
          /\ requests'[d] = requests[d] /\ responses'[d] = responses[d]
      BY <1>others
    <3>2. StreamInvOf(d)
      BY DEF StreamInv
    <3> QED BY <1>others, <3>1, <3>2 DEF StreamInvOf
  <2> QED BY <1>others, <2>1 DEF StreamInv
<1>1. ASSUME NEW c \in Clients, ReadRequest(c) PROVE StreamInv'
  <2>1. /\ Len(requests[c]) + Len(responses[c]) <= 1
        /\ Len(requests[c]) \in Nat \ {0} /\ Len(responses[c]) \in Nat
    BY <1>1 DEF ReadRequest, StreamInv, StreamInvOf, TypeOK
  <2>2. Tail(requests[c]) = <<>> /\ responses[c] = <<>>
    BY <2>1 DEF TypeOK
  <2>3. StreamInvOf(c)'
    BY <1>1, <2>2 DEF ReadRequest, TypeOK, StreamInvOf
  <2> QED BY <1>others, <1>1, <2>3 DEF ReadRequest, TypeOK, Running
<1>2. ASSUME UNCHANGED <<pc, streamVars>>, Running' => Running PROVE StreamInv'
  BY <1>2 DEF StreamInv, StreamInvOf, streamVars
<1>3. ASSUME NEW c \in Clients, NEW t \in Token, pc[c] = "split", GrantRevoke(c, t)
      PROVE  StreamInv'
  <2>1. /\ requests[c] = <<>> /\ requests' = requests /\ call' = call
        /\ Len(responses'[c]) \in {0, 1 + Len(conflicting[c])}
        /\ \A k \in 1..Len(responses'[c]) :
             responses'[c][k].token_action = IF k = 1 THEN "GRANT" ELSE "REVOKE"
        /\ \A d \in Clients \ {c} : responses'[d] = responses[d]
    BY <1>3, GrantSent
  <2>2. \A d \in Clients \ {c} : pc'[d] = pc[d]
    BY <1>3 DEF GrantRevoke, TypeOK
  <2>3. Running' = Running /\ (call[c] # "none" \/ ~Running)
    BY <1>3 DEF GrantRevoke, Running, StreamInv, StreamInvOf
  <2>4. StreamInvOf(c)'
    <3>1. CASE conflicting[c] = <<>>
      <4>1. pc'[c] = "read" /\ Len(responses'[c]) \in {0, 1} /\ Len(requests'[c]) = 0
        BY <1>3, <2>1, <3>1 DEF GrantRevoke, TypeOK
      <4>2. Len(requests'[c]) + Len(responses'[c]) <= 1
        <5>1. \A m, n : m = 0 /\ n \in {0, 1} => m + n <= 1
          OBVIOUS
        <5> QED BY <4>1, <5>1
      <4>3. \A k \in 1..Len(responses'[c]) : responses'[c][k].token_action # "REVOKE"
        BY <2>1, <4>1
      <4> QED BY <2>1, <2>3, <4>1, <4>2, <4>3 DEF StreamInvOf
    <3>2. CASE conflicting[c] # <<>>
      <4>1. pc'[c] = "await_ack"
        BY <1>3, <3>2 DEF GrantRevoke, TypeOK
      <4> QED BY <2>1, <2>3, <4>1 DEF StreamInvOf
    <3> QED BY <3>1, <3>2
  <2> QED BY <1>others, <2>1, <2>2, <2>3, <2>4
<1>4. ASSUME NEW c \in Clients, GrantMerge(c) \/ GrantNew(c) PROVE StreamInv'
  <2>1. pc[c] = "split" /\ RequestedToken(c) \in Token /\ Table(c) \in Seq(Token)
    BY <1>4, RequestedTokenType DEF GrantMerge, GrantNew, SplitOver
  <2>2. \A k \in 1..Len(Table(c)) : Hull(Table(c)[k], RequestedToken(c)) \in Token
    BY <2>1, HullType
  <2>3. \E t \in Token : GrantRevoke(c, t)
    BY <1>4, <2>1, <2>2 DEF GrantMerge, GrantNew
  <2> QED BY <1>3, <2>1, <2>3
<1>5. ASSUME NEW c \in Clients, ReleaseDone(c) PROVE StreamInv'
  <2>1. requests[c] = <<>> /\ responses[c] = <<>> /\ (call[c] # "none" \/ ~Running)
    BY <1>5 DEF ReleaseDone, StreamInv, StreamInvOf
  <2>2. responses'[c] \in {<<>>, <<CloseAck(request[c].filename, c)>>}
    BY <1>5, <2>1 DEF ReleaseDone, Write, TypeOK
  <2>3. /\ Len(responses'[c]) \in {0, 1}
        /\ \A k \in 1..Len(responses'[c]) : responses'[c][k].token_action # "REVOKE"
    BY <2>2 DEF CloseAck
  <2>4. pc'[c] = "read" /\ requests'[c] = <<>> /\ call'[c] = call[c] /\ Running' = Running
    BY <1>5, <2>1 DEF ReleaseDone, TypeOK, Running
  <2>5. StreamInvOf(c)'
    BY <2>1, <2>3, <2>4 DEF StreamInvOf
  <2> QED BY <1>others, <1>5, <2>4, <2>5 DEF ReleaseDone, Write, TypeOK
<1>6. ASSUME NEW c \in Clients, AwaitAck(c) PROVE StreamInv'
  <2>1. StreamInvOf(c)'
    BY <1>6 DEF AwaitAck, serverVars, StreamInv, StreamInvOf, TypeOK, Running
  <2> QED BY <1>others, <1>6, <2>1 DEF AwaitAck, serverVars, TypeOK, Running
<1>7. ASSUME NEW c \in Clients, HandlerReturn(c) \/ ClientBroken(c) PROVE StreamInv'
  <2>1. /\ EndCall(c) /\ UNCHANGED <<pc, health>>
        /\ pc[c] = "read" \/ ~Running
    BY <1>7 DEF HandlerReturn, ClientBroken, serverVars, Running
  <2>2. requests'[c] = <<>> /\ responses'[c] = <<>>
    BY <2>1 DEF EndCall, TypeOK
  <2>3. StreamInvOf(c)'
    BY <2>1, <2>2 DEF StreamInvOf, Running
  <2> QED BY <1>others, <2>1, <2>3 DEF EndCall, TypeOK, Running
<1>8. ASSUME NEW c \in Clients, ClientCall(c) PROVE StreamInv'
  <2>1. PICK req : OpenCall(c, req)
    BY <1>8 DEF ClientCall
  <2>2. pc[c] = "read" /\ responses[c] = <<>>
    BY <1>8, <2>1 DEF ClientCall, OpenCall, StreamInv, StreamInvOf
  <2>3. /\ pc' = pc /\ responses' = responses /\ Running' = Running
        /\ call'[c] = "open" /\ requests'[c] = <<req>>
    BY <1>8, <2>1 DEF ClientCall, OpenCall, serverVars, TypeOK, Running
  <2>4. StreamInvOf(c)'
    BY <2>2, <2>3 DEF StreamInvOf
  <2> QED BY <1>others, <2>1, <2>3, <2>4 DEF OpenCall, TypeOK
<1>9. ASSUME NEW c \in Clients, ClientRead(c) PROVE StreamInv'
  <2>1. /\ Head(responses[c]) = responses[c][1]
        /\ Len(Tail(responses[c])) = Len(responses[c]) - 1
        /\ \A k \in 1..Len(responses[c]) - 1 : Tail(responses[c])[k] = responses[c][k + 1]
        /\ Len(responses[c]) \in Nat \ {0}
    BY <1>9 DEF ClientRead, TypeOK
  <2>2. /\ pc' = pc /\ Running' = Running /\ call'[c] = "answered"
        /\ responses'[c] = Tail(responses[c])
        /\ \A d \in Clients \ {c} : /\ call'[d] = call[d] /\ requests'[d] = requests[d]
                                    /\ responses'[d] = responses[d]
    BY <1>9 DEF ClientRead, serverVars, TypeOK, Running
  <2>3. CASE pc[c] = "read"
    <3>1. responses[c][1].token_action # "REVOKE"
      <4>1. \A k \in 1..Len(responses[c]) : responses[c][k].token_action # "REVOKE"
        BY <2>3 DEF StreamInv, StreamInvOf
      <4> QED BY <2>1, <4>1
    <3>2. requests' = requests
      BY <1>9, <2>1, <3>1 DEF ClientRead
    <3>3. Len(responses[c]) + Len(requests[c]) <= 1 /\ Len(requests[c]) \in Nat
      BY <2>3 DEF StreamInv, StreamInvOf, TypeOK
    <3>4. StreamInvOf(c)'
      <4>1. Len(responses'[c]) = 0 /\ Len(requests'[c]) = 0
        <5>1. Len(responses[c]) = 1 /\ Len(requests[c]) = 0
          <6> DEFINE m == Len(responses[c])
                     n == Len(requests[c])
          <6>1. m \in Nat /\ m # 0 /\ n \in Nat /\ m + n <= 1
            BY <2>1, <3>3
          <6> HIDE DEF m, n
          <6>2. m = 1 /\ n = 0
            BY <6>1
          <6> QED BY <6>2 DEF m, n
        <5>2. Len(responses'[c]) = Len(Tail(responses[c])) /\ requests'[c] = requests[c]
          BY <2>2, <3>2
        <5> QED BY <2>1, <5>1, <5>2
      <4>2. pc'[c] = "read" /\ call'[c] # "none"
        BY <2>2, <2>3
      <4>3. \A k \in 1..Len(responses'[c]) : responses'[c][k].token_action # "REVOKE"
        BY <4>1
      <4>4. Len(requests'[c]) + Len(responses'[c]) <= 1
        BY <4>1
      <4> QED BY <4>2, <4>3, <4>4 DEF StreamInvOf
    <3> QED BY <1>others, <2>2, <3>4
  <2>4. CASE pc[c] = "await_ack"
    <3>1. \A k \in 1..Len(responses'[c]) : responses'[c][k].token_action # "ACK"
      <4>1. \A k \in 1..Len(responses[c]) : responses[c][k].token_action # "ACK"
        BY <2>4 DEF StreamInv, StreamInvOf
      <4> QED BY <2>1, <2>2, <4>1
    <3>2. StreamInvOf(c)'
      BY <2>2, <2>4, <3>1 DEF StreamInvOf
    <3> QED BY <1>others, <2>2, <3>2
  <2>5. pc[c] \in {"read", "await_ack"}
    BY <1>9 DEF ClientRead, StreamInv, StreamInvOf, TypeOK
  <2> QED BY <2>3, <2>4, <2>5
<1>10. ASSUME NEW c \in Clients, ClientDone(c) \/ ClientDies(c) PROVE StreamInv'
  <2>1. /\ pc' = pc /\ Running' = Running /\ call[c] # "none" /\ call'[c] = "done"
        /\ responses'[c] = <<>> /\ requests'[c] \in {requests[c], <<>>}
    BY <1>10 DEF ClientDone, ClientDies, HangUp, serverVars, TypeOK, Running
  <2>2. pc[c] = "read" => Len(requests[c]) + Len(responses[c]) <= 1
    BY DEF StreamInv, StreamInvOf
  <2>3. Len(requests[c]) \in Nat /\ Len(responses[c]) \in Nat
    BY DEF TypeOK
  <2>4. Len(requests'[c]) \in {Len(requests[c]), 0} /\ Len(responses'[c]) = 0
    BY <2>1
  <2>5. pc'[c] = "read" => Len(requests'[c]) + Len(responses'[c]) <= 1
    <3>1. \A m, n \in Nat : m + n <= 1 => m + 0 <= 1 /\ 0 + 0 <= 1
      OBVIOUS
    <3> QED BY <2>1, <2>2, <2>3, <2>4, <3>1
  <2>6. StreamInvOf(c)'
    <3>1. \A k \in 1..Len(responses'[c]) : FALSE
      BY <2>4
    <3>2. pc[c] \in {"split", "release"} => requests'[c] = <<>>
      BY <2>1 DEF StreamInv, StreamInvOf
    <3> QED BY <2>1, <2>5, <3>1, <3>2 DEF StreamInvOf
  <2> QED BY <1>others, <1>10, <2>1, <2>6
          DEF ClientDone, ClientDies, HangUp, serverVars, TypeOK
<1>11. ASSUME NEW c \in Clients,
              ScanKeep(c) \/ SplitErase(c) \/ ReleaseErase(c) \/ ReleaseKeep(c)
       PROVE  StreamInv'
  BY <1>2, <1>11 DEF ScanKeep, SplitErase, ReleaseErase, ReleaseKeep, At, Running
<1>12. CASE UNCHANGED tokenVars
  BY <1>2, <1>12 DEF tokenVars, serverVars, Running
<1> QED
  BY <1>1, <1>4, <1>5, <1>6, <1>7, <1>8, <1>9, <1>10, <1>11, <1>12
     DEF Next, Handler, Client

-----------------------------------------------------------------------------
(* Ranges.                                                                  *)

\* Messages with proper ranges, appended to such messages.
LEMMA NonEmptyConcat ==
  ASSUME NEW S, NEW s \in Seq(S), NEW t \in Seq(S),
         \A k \in 1..Len(s) : NonEmpty(s[k]), \A k \in 1..Len(t) : NonEmpty(t[k])
  PROVE  s \o t \in Seq(S) /\ \A k \in 1..Len(s \o t) : NonEmpty((s \o t)[k])
<1>1. /\ s \o t \in Seq(S) /\ Len(s \o t) = Len(s) + Len(t)
      /\ \A k \in 1..Len(s) + Len(t) :
           (s \o t)[k] = IF k <= Len(s) THEN s[k] ELSE t[k - Len(s)]
  BY ConcatProperties
<1>2. Len(s) \in Nat /\ Len(t) \in Nat
  OBVIOUS
<1> DEFINE st == s \o t
<1> HIDE DEF st
<1>3. ASSUME NEW k \in 1..Len(s) + Len(t) PROVE NonEmpty(st[k])
  <2>1. CASE k <= Len(s)
    BY <1>1, <1>2, <2>1 DEF st
  <2>2. CASE k > Len(s)
    <3>1. k - Len(s) \in 1..Len(t) /\ st[k] = t[k - Len(s)]
      BY <1>1, <1>2, <2>2 DEF st
    <3> QED BY <3>1
  <2> QED BY <1>2, <2>1, <2>2
<1> QED BY <1>1, <1>3 DEF st

\* RangesNonEmpty, by position in the vector of one file.
LEMMA RangesByIndex ==
  RangesNonEmpty <=> \A f \in Files : \A k \in 1..Len(token_table[f]) : NonEmpty(token_table[f][k])
BY DEF RangesNonEmpty, TokensOf

\* What a turn of split_tokens leaves in the table of the file.
LEMMA SplitEffect ==
  ASSUME TypeOK, HandlerInv, RangeInv, NEW c \in Clients, SplitErase(c)
  PROVE  LET f == request[c].filename
             split == EraseAndSplit(Table(c), it[c], RequestedToken(c))
         IN  /\ f \in Files /\ pc[c] = "split" /\ it[c] \in 1..Len(Table(c))
             /\ Table(c)[it[c]] \in Token /\ NonEmpty(Table(c)[it[c]])
             /\ Table(c) \in Seq(Token)
             /\ Derived(split, Table(c), it[c])
             /\ token_table' = [token_table EXCEPT ![f] = split]
             /\ conflicting' = [conflicting EXCEPT ![c] = Append(@, Table(c)[it[c]])]
             /\ health' # "sound" \/ (it' = it /\ health' = health)
<1>1. pc[c] = "split" /\ it[c] \in 1..Len(Table(c))
  BY DEF SplitErase, At, TypeOK
<1>2. request[c].filename \in Files
  BY <1>1, RequestedTokenType DEF Request
<1>3. \A k \in 1..Len(Table(c)) : NonEmpty(Table(c)[k])
  BY <1>2, RangesByIndex DEF RangeInv, Table
<1>4. Derived(EraseAndSplit(Table(c), it[c], RequestedToken(c)), Table(c), it[c])
  BY <1>1, <1>3, RequestedTokenType, EraseAndSplitFacts
<1>5. Table(c) \in Seq(Token)
  BY <1>1, RequestedTokenType
<1>6. Table(c)[it[c]] \in Token /\ NonEmpty(Table(c)[it[c]])
  BY <1>1, <1>3, <1>5
<1>7. [it EXCEPT ![c] = it[c]] = it
  BY DEF TypeOK
<1>8. health' # "sound" \/ (it' = it /\ health' = health)
  BY <1>7 DEF SplitErase, AfterErase
<1> QED BY <1>1, <1>2, <1>4, <1>5, <1>6, <1>8 DEF SplitErase

\* Every step keeps ranges proper, in the table, in handlers and in transit.
LEMMA RangeStep ==
  TypeOK /\ HandlerInv /\ RangeInv /\ [Next]_tokenVars => RangeInv'
<1> SUFFICES ASSUME TypeOK, HandlerInv, RangeInv, [Next]_tokenVars
             PROVE  RangeInv'
  OBVIOUS
<1>others. ASSUME NEW c \in Clients, RangesNonEmpty', RangeInvOf(c)',
             \A d \in Clients \ {c} :
               /\ pc'[d] = pc[d] /\ request'[d] = request[d]
               /\ conflicting'[d] = conflicting[d]
               /\ requests'[d] = requests[d] /\ responses'[d] = responses[d]
      PROVE  RangeInv'
  <2>1. ASSUME NEW d \in Clients \ {c} PROVE RangeInvOf(d)'
    <3>1. /\ pc'[d] = pc[d] /\ request'[d] = request[d] /\ conflicting'[d] = conflicting[d]
          /\ requests'[d] = requests[d] /\ responses'[d] = responses[d]
      BY <1>others
    <3>2. RangeInvOf(d)
      BY DEF RangeInv
    <3> QED BY <3>1, <3>2 DEF RangeInvOf
  <2> QED BY <1>others, <2>1 DEF RangeInv
<1>table. ASSUME token_table' = token_table PROVE RangesNonEmpty'
  BY <1>table DEF RangeInv, RangesNonEmpty, TokensOf
<1>1. ASSUME NEW c \in Clients, ReadRequest(c) PROVE RangeInv'
  <2>1. RangeInvOf(c)
    BY DEF RangeInv
  <2>2. /\ NonEmpty(Head(requests[c]))
        /\ \A k \in 1..Len(Tail(requests[c])) : NonEmpty(Tail(requests[c])[k])
    BY <1>1, <2>1 DEF ReadRequest, RangeInvOf, TypeOK
  <2>3. RangeInvOf(c)'
    BY <1>1, <2>1, <2>2 DEF ReadRequest, RangeInvOf, TypeOK
  <2> QED BY <1>others, <1>table, <1>1, <2>3 DEF ReadRequest, TypeOK
<1>2. ASSUME NEW c \in Clients, ScanKeep(c) \/ ReleaseKeep(c) PROVE RangeInv'
  BY <1>2 DEF ScanKeep, ReleaseKeep, streamVars, RangeInv, RangesNonEmpty, TokensOf, RangeInvOf
<1>3. ASSUME NEW c \in Clients, SplitErase(c) PROVE RangeInv'
  <2> DEFINE split == EraseAndSplit(Table(c), it[c], RequestedToken(c))
             old == Table(c)[it[c]]
  <2>1. /\ token_table' = [token_table EXCEPT ![request[c].filename] = split]
        /\ conflicting' = [conflicting EXCEPT ![c] = Append(@, old)]
        /\ old \in Token /\ NonEmpty(old)
        /\ \A k \in 1..Len(split) : NonEmpty(split[k])
    BY <1>3, SplitEffect DEF Derived
  <2> HIDE DEF split, old
  <2>2. RangesNonEmpty'
    BY <2>1 DEF TypeOK, RangeInv, RangesNonEmpty, TokensOf
  <2>3. RangeInvOf(c)'
    <3>1. conflicting'[c] = Append(conflicting[c], old) /\ conflicting[c] \in Seq(Token)
      BY <2>1 DEF TypeOK
    <3>2. \A k \in 1..Len(conflicting'[c]) : NonEmpty(conflicting'[c][k])
      BY <2>1, <3>1 DEF RangeInv, RangeInvOf
    <3> QED BY <1>3, <3>2 DEF SplitErase, streamVars, RangeInv, RangeInvOf
  <2> QED BY <1>others, <1>3, <2>1, <2>2, <2>3 DEF SplitErase, streamVars, TypeOK
<1>4. ASSUME NEW c \in Clients, NEW t \in Token, NonEmpty(t), pc[c] = "split",
             GrantRevoke(c, t)
      PROVE  /\ RangeInvOf(c)'
             /\ \A d \in Clients \ {c} :
                  /\ pc'[d] = pc[d] /\ request'[d] = request[d]
                  /\ conflicting'[d] = conflicting[d]
                  /\ requests'[d] = requests[d] /\ responses'[d] = responses[d]
  <2> DEFINE grant == <<Message("GRANT", request[c].filename, t)>>
             sent == grant \o Revokes(c)
  <2>1. RangeInvOf(c)
    BY DEF RangeInv
  <2>2. /\ grant \in Seq(Response) /\ Revokes(c) \in Seq(Response)
        /\ Len(Revokes(c)) = Len(conflicting[c])
        /\ responses' \in {responses, [responses EXCEPT ![c] = @ \o sent]}
    BY <1>4, AnswersType, GrantTypes
  <2>3. \A k \in 1..Len(grant) : NonEmpty(grant[k])
    BY <1>4 DEF Message, NonEmpty
  <2>4. \A k \in 1..Len(Revokes(c)) : NonEmpty(Revokes(c)[k])
    BY <2>1, <2>2 DEF RangeInvOf, Revokes, Message, NonEmpty
  <2> HIDE DEF grant
  <2>5. sent \in Seq(Response) /\ \A k \in 1..Len(sent) : NonEmpty(sent[k])
    BY <2>2, <2>3, <2>4, NonEmptyConcat
  <2> HIDE DEF sent
  <2>6. /\ responses'[c] \in {responses[c], responses[c] \o sent}
        /\ responses[c] \in Seq(Response)
    BY <2>2 DEF TypeOK
  <2>7. \A k \in 1..Len(responses'[c]) : NonEmpty(responses'[c][k])
    BY <2>1, <2>5, <2>6, NonEmptyConcat DEF RangeInvOf
  <2>8. pc'[c] # "read" => request'[c] = request[c]
    BY <1>4 DEF GrantRevoke, TypeOK
  <2>9. conflicting' = conflicting /\ requests' = requests
    BY <1>4 DEF GrantRevoke
  <2>10. RangeInvOf(c)'
    BY <1>4, <2>1, <2>7, <2>8, <2>9 DEF RangeInvOf
  <2> QED BY <1>4, <2>2, <2>9, <2>10 DEF GrantRevoke, TypeOK
<1>5. ASSUME NEW c \in Clients, GrantMerge(c) PROVE RangeInv'
  <2>1. /\ pc[c] = "split" /\ request[c].filename \in Files
        /\ RequestedToken(c) \in Token /\ Table(c) \in Seq(Token)
    BY <1>5, RequestedTokenType DEF GrantMerge, SplitOver, Request
  <2>2. PICK k \in 1..Len(Table(c)) :
          /\ token_table' = [token_table EXCEPT ![request[c].filename][k] =
                               Hull(Table(c)[k], RequestedToken(c))]
          /\ GrantRevoke(c, Hull(Table(c)[k], RequestedToken(c)))
    BY <1>5 DEF GrantMerge
  <2> DEFINE hull == Hull(Table(c)[k], RequestedToken(c))
  <2>3. NonEmpty(RequestedToken(c)) /\ NonEmpty(Table(c)[k])
    BY <2>1, RangesByIndex DEF RangeInv, RangeInvOf, RequestedToken, NonEmpty, Table
  <2>4. hull \in Token /\ NonEmpty(hull)
    <3>1. hull \in Token
      BY <2>1, HullType
    <3>2. Table(c)[k] \in Token
      BY <2>1
    <3> QED BY <2>1, <2>3, <3>1, <3>2 DEF Hull, Part, NonEmpty, Token
  <2> HIDE DEF hull
  <2>5. RangesNonEmpty'
    <3>1. token_table' = [token_table EXCEPT ![request[c].filename] = [@ EXCEPT ![k] = hull]]
      BY <2>2 DEF hull
    <3>2. /\ Len(token_table'[request[c].filename]) = Len(Table(c))
          /\ \A j \in 1..Len(Table(c)) : token_table'[request[c].filename][j] =
               IF j = k THEN hull ELSE Table(c)[j]
      BY <2>1, <3>1 DEF TypeOK, Table
    <3>3. \A f \in Files \ {request[c].filename} : token_table'[f] = token_table[f]
      BY <3>1 DEF TypeOK
    <3> QED BY <2>1, <2>4, <3>2, <3>3 DEF RangeInv, RangesNonEmpty, TokensOf, Table
  <2> QED BY <1>others, <1>4, <2>1, <2>2, <2>4, <2>5 DEF hull
<1>6. ASSUME NEW c \in Clients, GrantNew(c) PROVE RangeInv'
  <2>1. /\ pc[c] = "split" /\ request[c].filename \in Files
        /\ RequestedToken(c) \in Token /\ Table(c) \in Seq(Token)
    BY <1>6, RequestedTokenType DEF GrantNew, SplitOver, Request
  <2>2. NonEmpty(RequestedToken(c))
    BY <2>1 DEF RangeInv, RangeInvOf, RequestedToken, NonEmpty
  <2> DEFINE new == RequestedToken(c)
  <2>3. token_table' = [token_table EXCEPT ![request[c].filename] = Append(@, new)]
    BY <1>6 DEF GrantNew
  <2>4. RangesNonEmpty'
    <3> HIDE DEF new
    <3>1. /\ Len(token_table'[request[c].filename]) = Len(Table(c)) + 1
          /\ \A j \in 1..Len(Table(c)) + 1 : token_table'[request[c].filename][j] =
               IF j <= Len(Table(c)) THEN Table(c)[j] ELSE new
      BY <2>1, <2>3 DEF TypeOK, Table
    <3>2. \A f \in Files \ {request[c].filename} : token_table'[f] = token_table[f]
      BY <2>3 DEF TypeOK
    <3>3. NonEmpty(new)
      BY <2>2 DEF new
    <3> QED BY <2>1, <3>1, <3>2, <3>3 DEF RangeInv, RangesNonEmpty, TokensOf, Table
  <2>5. GrantRevoke(c, RequestedToken(c))
    BY <1>6 DEF GrantNew
  <2> QED BY <1>others, <1>4, <2>1, <2>2, <2>4, <2>5
<1>7. ASSUME NEW c \in Clients, ReleaseErase(c) PROVE RangeInv'
  <2>1. pc[c] = "release" /\ it[c] \in 1..Len(Table(c))
    BY <1>7 DEF ReleaseErase, At, TypeOK
  <2>2. request[c].filename \in Files /\ Table(c) \in Seq(Token)
    BY <2>1, RequestedTokenType DEF Request
  <2> DEFINE left == RemoveAt(Table(c), it[c])
  <2>3. /\ Len(left) = Len(Table(c)) - 1
        /\ \A k \in 1..Len(Table(c)) - 1 :
             left[k] = IF k < it[c] THEN Table(c)[k] ELSE Table(c)[k + 1]
    BY <2>1, <2>2, RemoveAtFacts
  <2>4. token_table' = [token_table EXCEPT ![request[c].filename] = left]
    BY <1>7 DEF ReleaseErase, Table
  <2> HIDE DEF left
  <2>5. \A k \in 1..Len(left) : NonEmpty(left[k])
    <3>1. \A k \in 1..Len(Table(c)) : NonEmpty(Table(c)[k])
      BY <2>2, RangesByIndex DEF RangeInv, Table
    <3> QED BY <2>1, <2>2, <2>3, <3>1
  <2>6. RangesNonEmpty'
    BY <2>4, <2>5 DEF TypeOK, RangeInv, RangesNonEmpty, TokensOf
  <2> QED BY <1>7, <2>6 DEF ReleaseErase, streamVars, RangeInv, RangeInvOf
<1>8. ASSUME NEW c \in Clients, ReleaseDone(c) PROVE RangeInv'
  <2>1. RangeInvOf(c)
    BY DEF RangeInv
  <2>2. /\ responses' \in {responses, [responses EXCEPT ![c] =
                                             @ \o <<CloseAck(request[c].filename, c)>>]}
        /\ responses[c] \in Seq(Response)
        /\ <<CloseAck(request[c].filename, c)>> \in Seq(Response)
    <3>1. request[c].filename \in Files
      BY <1>8, RequestedTokenType DEF ReleaseDone, Request
    <3>2. CloseAck(request[c].filename, c) \in Response
      BY <3>1 DEF CloseAck, Response
    <3> QED BY <1>8, <3>2 DEF ReleaseDone, Write, TypeOK
  <2>3. \A k \in 1..Len(<<CloseAck(request[c].filename, c)>>) :
          NonEmpty(<<CloseAck(request[c].filename, c)>>[k])
    BY DEF CloseAck, NonEmpty
  <2>4. \A k \in 1..Len(responses'[c]) : NonEmpty(responses'[c][k])
    <3>1. \A k \in 1..Len(responses[c]) : NonEmpty(responses[c][k])
      BY <2>1 DEF RangeInvOf
    <3>2. \/ responses'[c] = responses[c]
          \/ responses'[c] = responses[c] \o <<CloseAck(request[c].filename, c)>>
      BY <2>2 DEF TypeOK
    <3>3. CASE responses'[c] = responses[c]
      BY <3>1, <3>3
    <3>4. CASE responses'[c] = responses[c] \o <<CloseAck(request[c].filename, c)>>
      BY <2>2, <2>3, <3>1, <3>4, NonEmptyConcat, Zenon
    <3> QED BY <3>2, <3>3, <3>4
  <2>5. RangeInvOf(c)'
    BY <1>8, <2>1, <2>4 DEF ReleaseDone, RangeInvOf, TypeOK
  <2> QED BY <1>others, <1>table, <1>8, <2>2, <2>5 DEF ReleaseDone, TypeOK
<1>9. ASSUME NEW c \in Clients, AwaitAck(c) PROVE RangeInv'
  <2>1. RangeInvOf(c)
    BY DEF RangeInv
  <2>2. \A k \in 1..Len(Tail(requests[c])) : NonEmpty(Tail(requests[c])[k])
    <3>1. requests[c] \in Seq(Request) /\ requests[c] # <<>>
      BY <1>9 DEF AwaitAck, TypeOK
    <3> QED BY <2>1, <3>1 DEF RangeInvOf
  <2>3. RangeInvOf(c)'
    BY <1>9, <2>1, <2>2 DEF AwaitAck, serverVars, RangeInvOf, TypeOK
  <2> QED BY <1>others, <1>table, <1>9, <2>3 DEF AwaitAck, serverVars, TypeOK
<1>10. ASSUME NEW c \in Clients, HandlerReturn(c) \/ ClientBroken(c) PROVE RangeInv'
  <2>1. EndCall(c) /\ UNCHANGED serverVars
    BY <1>10 DEF HandlerReturn, ClientBroken
  <2>2. RangeInvOf(c)'
    BY <2>1 DEF EndCall, serverVars, RangeInv, RangeInvOf, TypeOK
  <2> QED BY <1>others, <1>table, <2>1, <2>2 DEF EndCall, serverVars, TypeOK
<1>11. ASSUME NEW c \in Clients, ClientCall(c) PROVE RangeInv'
  <2>1. PICK req \in Request : OpenCall(c, req) /\ NonEmpty(req)
    BY <1>11, CallRequest
  <2>2. requests'[c] = <<req>> /\ responses' = responses /\ UNCHANGED serverVars
    BY <1>11, <2>1 DEF ClientCall, OpenCall, TypeOK
  <2>3. RangeInvOf(c)'
    BY <2>1, <2>2 DEF serverVars, RangeInv, RangeInvOf
  <2> QED BY <1>others, <1>table, <2>1, <2>2, <2>3 DEF OpenCall, serverVars, TypeOK
<1>12. ASSUME NEW c \in Clients, ClientRead(c) PROVE RangeInv'
  <2>1. RangeInvOf(c)
    BY DEF RangeInv
  <2> DEFINE msg == Head(responses[c])
             ack == [filename |-> msg.filename, token_type |-> "ACK",
                     start_byte |-> msg.start_byte, end_byte |-> msg.end_byte]
  <2>2. /\ NonEmpty(msg)
        /\ \A k \in 1..Len(Tail(responses[c])) : NonEmpty(Tail(responses[c])[k])
    BY <1>12, <2>1 DEF ClientRead, RangeInvOf, TypeOK
  <2>3. NonEmpty(ack)
    BY <2>2 DEF NonEmpty
  <2>4. /\ responses' = [responses EXCEPT ![c] = Tail(@)]
        /\ requests' = [requests EXCEPT ![c] = Append(@, ack)] \/ requests' = requests
        /\ UNCHANGED serverVars
    BY <1>12 DEF ClientRead
  <2> HIDE DEF ack, msg
  <2>5. \A k \in 1..Len(requests'[c]) : NonEmpty(requests'[c][k])
    <3>1. requests[c] \in Seq(Request)
      BY DEF TypeOK
    <3>2. requests'[c] = requests[c] \/ requests'[c] = Append(requests[c], ack)
      BY <2>4 DEF TypeOK
    <3> QED BY <2>1, <2>3, <3>1, <3>2 DEF RangeInvOf
  <2>6. RangeInvOf(c)'
    BY <2>1, <2>2, <2>4, <2>5 DEF serverVars, RangeInvOf, TypeOK
  <2> QED BY <1>others, <1>table, <2>4, <2>6 DEF serverVars, TypeOK
<1>13. ASSUME NEW c \in Clients, ClientDone(c) \/ ClientDies(c) PROVE RangeInv'
  <2>1. /\ UNCHANGED serverVars
        /\ responses'[c] = <<>> /\ requests'[c] \in {requests[c], <<>>}
    BY <1>13 DEF ClientDone, ClientDies, HangUp, TypeOK
  <2>2. RangeInvOf(c)'
    BY <2>1 DEF serverVars, RangeInv, RangeInvOf
  <2> QED BY <1>others, <1>table, <1>13, <2>1, <2>2
          DEF ClientDone, ClientDies, HangUp, serverVars, TypeOK
<1>14. CASE UNCHANGED tokenVars
  BY <1>14 DEF tokenVars, serverVars, streamVars, RangeInv, RangesNonEmpty, TokensOf, RangeInvOf
<1> QED
  BY <1>1, <1>2, <1>3, <1>5, <1>6, <1>7, <1>8, <1>9, <1>10, <1>11, <1>12, <1>13, <1>14
     DEF Next, Handler, Client

-----------------------------------------------------------------------------
(* The loops over the vector.                                               *)

\* What the loop of split_tokens and that of release_tokens have passed.
LoopInv == PassedTokensAgree /\ ReleasedPrefix

\* A vector that has been pushed to is not empty.
LEMMA AppendNonEmpty ==
  ASSUME NEW S, NEW s \in Seq(S), NEW t
  PROVE  Append(s, t) # <<>>
<1>1. s \in Seq(S \union {t})
  BY SeqMonotonic
<1>2. Len(Append(s, t)) = Len(s) + 1 /\ Len(s) \in Nat
  BY <1>1, AppendProperties
<1> QED BY <1>2

\* Every step keeps what the two loops over a vector have passed.
LEMMA LoopStep ==
  TypeOK /\ HandlerInv /\ RangeInv /\ LoopInv /\ [Next]_tokenVars => LoopInv'
<1> SUFFICES ASSUME TypeOK, HandlerInv, RangeInv, LoopInv, [Next]_tokenVars
             PROVE  LoopInv'
  OBVIOUS
<1>1. ASSUME NEW c \in Clients, Sound' => Sound,
             NeverDangled(c)' => PassedAgree(c)', ReleasedPrefixOf(c)',
             token_table' = token_table \/ pc[c] \in {"split", "release"},
             \A d \in Clients \ {c} :
               /\ pc'[d] = pc[d] /\ request'[d] = request[d] /\ it'[d] = it[d]
               /\ conflicting'[d] = conflicting[d]
      PROVE  LoopInv'
  <2>1. ASSUME NEW d \in Clients \ {c}
        PROVE  ReleasedPrefixOf(d)' /\ (NeverDangled(d)' => PassedAgree(d)')
    <3>1. pc'[d] = pc[d] /\ request'[d] = request[d] /\ it'[d] = it[d]
      BY <1>1
    <3>2. RequestedToken(d)' = RequestedToken(d)
      BY <3>1 DEF RequestedToken
    <3>3. ReleasedPrefixOf(d) /\ (NeverDangled(d)' => PassedAgree(d))
      BY <1>1 DEF LoopInv, ReleasedPrefix, PassedTokensAgree, NeverDangled
    <3>4. CASE token_table' = token_table
      BY <1>1, <3>1, <3>2, <3>3, <3>4 DEF ReleasedPrefixOf, PassedAgree, Table
    <3>5. CASE pc[c] \in {"split", "release"}
      <4>1. pc[d] \notin {"split", "release"}
        BY <3>5 DEF HandlerInv
      <4> QED BY <3>1, <4>1 DEF ReleasedPrefixOf, PassedAgree
    <3> QED BY <1>1, <3>4, <3>5
  <2>2. \A d \in Clients : ReleasedPrefixOf(d)' /\ (NeverDangled(d)' => PassedAgree(d)')
    BY <1>1, <2>1
  <2> QED BY <2>2 DEF LoopInv, ReleasedPrefix, PassedTokensAgree
<1>2. ASSUME NEW c \in Clients, ReadRequest(c) PROVE LoopInv'
  <2>1. it'[c] = 1
    BY <1>2 DEF ReadRequest, TypeOK, Begin
  <2>2. PassedAgree(c)' /\ ReleasedPrefixOf(c)'
    BY <2>1 DEF PassedAgree, ReleasedPrefixOf
  <2> QED BY <1>1, <1>2, <2>2 DEF ReadRequest, TypeOK, Sound
<1>3. ASSUME NEW c \in Clients, ScanKeep(c) PROVE LoopInv'
  <2>1. /\ it'[c] = it[c] + 1 /\ it[c] \in Nat
        /\ pc'[c] = "split" /\ pc[c] = "split" /\ Table(c)' = Table(c)
        /\ RequestedToken(c)' = RequestedToken(c)
        /\ ~Conflicts(Table(c)[it[c]], RequestedToken(c))
        /\ it[c] \in 1..Len(Table(c))
    BY <1>3 DEF ScanKeep, At, TypeOK, Table, RequestedToken
  <2>2. Compatible(Table(c)[it[c]], RequestedToken(c))
    <3>1. Table(c)[it[c]] \in Token /\ RequestedToken(c) \in Token
      BY <2>1, RequestedTokenType
    <3> QED BY <2>1, <3>1 DEF Conflicts, Overlaps, Compatible, Apart, Token, TokenTypes
  <2>3. ReleasedPrefixOf(c)'
    BY <2>1 DEF ReleasedPrefixOf
  <2>4. NeverDangled(c)' => PassedAgree(c)'
    <3>1. SUFFICES ASSUME NeverDangled(c), NEW k \in 1..Len(Table(c)), k < it[c] + 1
                   PROVE  Compatible(Table(c)[k], RequestedToken(c))
      BY <1>3, <2>1 DEF PassedAgree, NeverDangled, Sound, ScanKeep
    <3>2. k = it[c] \/ k < it[c]
      BY <2>1, <3>1
    <3>3. PassedAgree(c)
      BY <3>1 DEF LoopInv, PassedTokensAgree
    <3> QED BY <2>1, <2>2, <3>2, <3>3 DEF PassedAgree
  <2> QED BY <1>1, <1>3, <2>3, <2>4 DEF ScanKeep, TypeOK, Sound
<1>4. ASSUME NEW c \in Clients, SplitErase(c) PROVE LoopInv'
  <2> DEFINE split == EraseAndSplit(Table(c), it[c], RequestedToken(c))
  <2>1. /\ request[c].filename \in Files /\ pc[c] = "split" /\ it[c] \in 1..Len(Table(c))
        /\ Derived(split, Table(c), it[c])
        /\ token_table' = [token_table EXCEPT ![request[c].filename] = split]
        /\ health' # "sound" \/ (it' = it /\ health' = health)
    BY <1>4, SplitEffect
  <2> HIDE DEF split
  <2>2. pc' = pc /\ request' = request
    BY <1>4 DEF SplitErase
  <2>3. ReleasedPrefixOf(c)'
    BY <2>1, <2>2 DEF ReleasedPrefixOf
  <2>6. conflicting' = [conflicting EXCEPT ![c] = Append(@, Table(c)[it[c]])]
        /\ conflicting[c] \in Seq(Token)
    BY <1>4 DEF SplitErase, TypeOK
  <2>4. NeverDangled(c)' => Sound /\ PassedAgree(c)'
    <3>1. SUFFICES ASSUME Sound' PROVE Sound /\ PassedAgree(c)'
      BY <2>6, AppendNonEmpty DEF NeverDangled, TypeOK
    <3>2. it' = it /\ Sound
      BY <2>1, <3>1 DEF Sound
    <3>3. Table(c)' = split /\ RequestedToken(c)' = RequestedToken(c)
      BY <2>1, <2>2 DEF Table, RequestedToken, TypeOK
    <3>4. PassedAgree(c)
      BY <3>2 DEF LoopInv, PassedTokensAgree, NeverDangled
    <3>5. \A k \in 1..Len(split) : k < it[c] => split[k] = Table(c)[k] /\ k \in 1..Len(Table(c))
      BY <2>1 DEF Derived
    <3> QED BY <2>1, <3>2, <3>3, <3>4, <3>5 DEF PassedAgree
  <2>5. \A d \in Clients \ {c} :
          /\ pc'[d] = pc[d] /\ request'[d] = request[d] /\ it'[d] = it[d]
          /\ conflicting'[d] = conflicting[d]
    BY <1>4, <2>2 DEF SplitErase, TypeOK
  <2>7. Sound' => Sound
    BY <2>1 DEF Sound
  <2> QED BY <1>1, <2>1, <2>3, <2>4, <2>5, <2>7
<1>5. ASSUME NEW c \in Clients, GrantMerge(c) \/ GrantNew(c) PROVE LoopInv'
  <2>1. pc[c] = "split" /\ \E t : GrantRevoke(c, t)
    BY <1>5 DEF GrantMerge, GrantNew, SplitOver
  <2>2. pc'[c] \notin {"split", "release"}
    BY <2>1 DEF GrantRevoke, TypeOK
  <2>3. PassedAgree(c)' /\ ReleasedPrefixOf(c)'
    BY <2>2 DEF PassedAgree, ReleasedPrefixOf
  <2>4. \A d \in Clients \ {c} :
          /\ pc'[d] = pc[d] /\ request'[d] = request[d] /\ it'[d] = it[d]
          /\ conflicting'[d] = conflicting[d]
    BY <2>1 DEF GrantRevoke, TypeOK
  <2>5. Sound' => Sound
    BY <2>1 DEF GrantRevoke, Sound
  <2> QED BY <1>1, <2>1, <2>3, <2>4, <2>5
<1>6. ASSUME NEW c \in Clients, ReleaseErase(c) PROVE LoopInv'
  <2>1. pc[c] = "release" /\ pc' = pc /\ it[c] \in 1..Len(Table(c)) /\ request' = request
    BY <1>6 DEF ReleaseErase, At, TypeOK
  <2>2. request[c].filename \in Files /\ Table(c) \in Seq(Token)
    BY <2>1, RequestedTokenType DEF Request
  <2> DEFINE left == RemoveAt(Table(c), it[c])
  <2>3. /\ Len(left) = Len(Table(c)) - 1
        /\ \A k \in 1..Len(Table(c)) - 1 :
             left[k] = IF k < it[c] THEN Table(c)[k] ELSE Table(c)[k + 1]
    BY <2>1, <2>2, RemoveAtFacts
  <2>4. Table(c)' = left /\ it' = it
    BY <1>6, <2>1, <2>2 DEF ReleaseErase, Table, TypeOK, AfterErase
  <2> HIDE DEF left
  <2>5. ReleasedPrefixOf(c)
    BY DEF LoopInv, ReleasedPrefix
  <2>6. ReleasedPrefixOf(c)'
    <3>1. \A k \in 1..Len(left) : k < it[c] => left[k] = Table(c)[k] /\ k \in 1..Len(Table(c))
      BY <2>1, <2>2, <2>3
    <3> QED BY <2>1, <2>4, <2>5, <3>1 DEF ReleasedPrefixOf
  <2>7. (Sound' => Sound) /\ PassedAgree(c)' /\ conflicting' = conflicting
    BY <1>6, <2>1 DEF ReleaseErase, Sound, PassedAgree
  <2> QED BY <1>1, <2>1, <2>4, <2>6, <2>7
<1>7. ASSUME NEW c \in Clients, ReleaseKeep(c) PROVE LoopInv'
  <2>1. /\ it'[c] = it[c] + 1 /\ it[c] \in Nat
        /\ pc'[c] = "release" /\ pc[c] = "release" /\ Table(c)' = Table(c)
        /\ Table(c)[it[c]].client_id # c
    BY <1>7 DEF ReleaseKeep, At, TypeOK, Table
  <2>2. ReleasedPrefixOf(c)
    BY DEF LoopInv, ReleasedPrefix
  <2>3. ReleasedPrefixOf(c)'
    <3>1. ASSUME NEW k \in 1..Len(Table(c)), k < it[c] + 1
          PROVE  Table(c)[k].client_id # c
      <4>1. k = it[c] \/ k < it[c]
        BY <2>1, <3>1
      <4> QED BY <2>1, <2>2, <4>1 DEF ReleasedPrefixOf
    <3> QED BY <2>1, <3>1 DEF ReleasedPrefixOf
  <2>4. (Sound' => Sound) /\ PassedAgree(c)'
    BY <1>7, <2>1 DEF ReleaseKeep, Sound, PassedAgree
  <2> QED BY <1>1, <1>7, <2>3, <2>4 DEF ReleaseKeep, TypeOK
<1>8. ASSUME NEW c \in Clients, ReleaseDone(c) PROVE LoopInv'
  <2>1. pc'[c] = "read"
    BY <1>8 DEF ReleaseDone, TypeOK
  <2>2. PassedAgree(c)' /\ ReleasedPrefixOf(c)'
    BY <2>1 DEF PassedAgree, ReleasedPrefixOf
  <2> QED BY <1>1, <1>8, <2>2 DEF ReleaseDone, TypeOK, Sound
<1>9. CASE UNCHANGED serverVars
  <2>1. \A c \in Clients : /\ RequestedToken(c)' = RequestedToken(c) /\ Table(c)' = Table(c)
                           /\ pc'[c] = pc[c] /\ it'[c] = it[c]
    BY <1>9 DEF serverVars, RequestedToken, Table
  <2> QED BY <1>9, <2>1 DEF serverVars, LoopInv, PassedTokensAgree, PassedAgree,
                            ReleasedPrefix, ReleasedPrefixOf, NeverDangled, Sound
<1>10. ASSUME NEW c \in Clients, AwaitAck(c) \/ HandlerReturn(c) \/ Client(c)
       PROVE  UNCHANGED serverVars
  BY <1>10 DEF AwaitAck, HandlerReturn, Client, ClientCall, ClientRead, ClientDone, ClientDies, HangUp,
              ClientBroken
<1> QED
  BY <1>2, <1>3, <1>4, <1>5, <1>6, <1>7, <1>8, <1>9, <1>10 DEF Next, Handler, tokenVars

-----------------------------------------------------------------------------
(* Exclusion.                                                               *)

\* A conflict on a file is never forgotten: the handler that met it waits on.
LEMMA ContestedStays ==
  ASSUME TypeOK, HandlerInv, [Next]_tokenVars, NEW f \in Files, Contested(f)
  PROVE  Contested(f)'
<1>1. PICK d \in Clients : conflicting[d] # <<>> /\ request[d].filename = f
  BY DEF Contested
<1>2. pc[d] \in {"split", "await_ack"}
  BY <1>1 DEF HandlerInv
<1>3. SUFFICES conflicting'[d] # <<>> /\ request'[d] = request[d]
  BY <1>1 DEF Contested
<1>4. ASSUME NEW c \in Clients, ReadRequest(c)
      PROVE  conflicting'[d] # <<>> /\ request'[d] = request[d]
  BY <1>1, <1>2, <1>4 DEF ReadRequest, TypeOK
<1>5. ASSUME NEW c \in Clients, SplitErase(c)
      PROVE  conflicting'[d] # <<>> /\ request'[d] = request[d]
  <2>1. PICK t : conflicting' = [conflicting EXCEPT ![c] = Append(@, t)]
    BY <1>5 DEF SplitErase
  <2>2. conflicting[c] \in Seq(Token)
    BY DEF TypeOK
  <2>3. Append(conflicting[c], t) # <<>>
    BY <2>2, AppendNonEmpty
  <2> QED BY <1>1, <1>5, <2>1, <2>3 DEF SplitErase, TypeOK
<1>6. ASSUME NEW c \in Clients, NEW t, GrantRevoke(c, t)
      PROVE  conflicting'[d] # <<>> /\ request'[d] = request[d]
  BY <1>1, <1>6 DEF GrantRevoke, TypeOK
<1>7. ASSUME NEW c \in Clients, GrantMerge(c) \/ GrantNew(c)
      PROVE  conflicting'[d] # <<>> /\ request'[d] = request[d]
  BY <1>6, <1>7 DEF GrantMerge, GrantNew
<1>8. ASSUME NEW c \in Clients, ReleaseDone(c)
      PROVE  conflicting'[d] # <<>> /\ request'[d] = request[d]
  BY <1>1, <1>2, <1>8 DEF ReleaseDone, TypeOK
<1>9. ASSUME NEW c \in Clients, ScanKeep(c) \/ ReleaseErase(c) \/ ReleaseKeep(c)
      PROVE  conflicting'[d] # <<>> /\ request'[d] = request[d]
  BY <1>1, <1>9 DEF ScanKeep, ReleaseErase, ReleaseKeep
<1>10. ASSUME NEW c \in Clients, AwaitAck(c) \/ HandlerReturn(c) \/ Client(c)
       PROVE  UNCHANGED serverVars
  BY <1>10 DEF AwaitAck, HandlerReturn, Client, ClientCall, ClientRead, ClientDone, ClientDies, HangUp,
              ClientBroken
<1> QED
  BY <1>1, <1>4, <1>5, <1>7, <1>8, <1>9, <1>10 DEF Next, Handler, tokenVars, serverVars

\* A merged READ token is compatible with whatever both of its parts are.
LEMMA HullCompatible ==
  ASSUME NEW t \in Token, NEW u \in Token, NEW requested \in Token,
         NonEmpty(t), NonEmpty(u), NonEmpty(requested),
         Mergeable(t, requested), Compatible(t, requested),
         Compatible(t, u), Compatible(u, requested)
  PROVE  Compatible(Hull(t, requested), u) /\ Compatible(u, Hull(t, requested))
BY DEF Mergeable, Overlaps, Compatible, Apart, Hull, Part, NonEmpty, Token, TokenTypes

\* At the end of split_tokens nothing in the vector conflicts with the request.
LEMMA SplitOverAgrees ==
  ASSUME TypeOK, HandlerInv, RangeInv, LoopInv, NEW c \in Clients, NeverDangled(c), SplitOver(c)
  PROVE  /\ request[c].filename \in Files
         /\ Table(c) \in Seq(Token) /\ RequestedToken(c) \in Token
         /\ NonEmpty(RequestedToken(c))
         /\ \A k \in 1..Len(Table(c)) : /\ Compatible(Table(c)[k], RequestedToken(c))
                                        /\ NonEmpty(Table(c)[k])
<1>1. pc[c] = "split"
  BY DEF SplitOver
<1>2. /\ request[c].filename \in Files
      /\ Table(c) \in Seq(Token) /\ RequestedToken(c) \in Token
  BY <1>1, RequestedTokenType DEF Request
<1>3. NonEmpty(RequestedToken(c))
  BY <1>1 DEF RangeInv, RangeInvOf, RequestedToken, NonEmpty
<1>4. \A k \in 1..Len(Table(c)) : NonEmpty(Table(c)[k])
  BY <1>2, RangesByIndex DEF RangeInv, Table
<1>5. PassedAgree(c) /\ it[c] \in Nat /\ it[c] > Len(Table(c))
  BY DEF LoopInv, PassedTokensAgree, SplitOver, TypeOK
<1>6. \A k \in 1..Len(Table(c)) : Compatible(Table(c)[k], RequestedToken(c))
  BY <1>1, <1>2, <1>5 DEF PassedAgree
<1> QED BY <1>2, <1>3, <1>4, <1>6

\* Every step keeps the tokens of an uncontested file exclusive.
LEMMA ExclusiveStep ==
  TypeOK /\ HandlerInv /\ RangeInv /\ LoopInv /\ ExclusiveUntilContested /\ [Next]_tokenVars
    => ExclusiveUntilContested'
<1> SUFFICES ASSUME TypeOK, HandlerInv, RangeInv, LoopInv, ExclusiveUntilContested,
                    [Next]_tokenVars, NEW f \in Files, ~Contested(f)'
             PROVE  Exclusive(f)'
  BY DEF ExclusiveUntilContested
<1>1. ~Contested(f)
  BY ContestedStays
<1>2. Exclusive(f)
  BY <1>1 DEF ExclusiveUntilContested
<1>0. \A c \in Clients : request[c].filename = f => NeverDangled(c)
  BY <1>1 DEF Contested, NeverDangled
<1>3. ASSUME token_table'[f] = token_table[f] PROVE Exclusive(f)'
  BY <1>2, <1>3 DEF Exclusive
<1>4. ASSUME NEW c \in Clients, SplitErase(c) PROVE Exclusive(f)'
  <2>1. /\ token_table' = [token_table EXCEPT ![request[c].filename] =
                             EraseAndSplit(Table(c), it[c], RequestedToken(c))]
        /\ conflicting' = [conflicting EXCEPT ![c] = Append(@, Table(c)[it[c]])]
        /\ request' = request
    BY <1>4, SplitEffect DEF SplitErase
  <2>2. conflicting[c] \in Seq(Token) /\ conflicting'[c] # <<>>
    BY <2>1 DEF TypeOK
  <2>3. request[c].filename # f
    BY <2>1, <2>2 DEF Contested
  <2> QED BY <1>3, <2>1, <2>3 DEF TypeOK
<1>5. ASSUME NEW c \in Clients, GrantMerge(c) PROVE Exclusive(f)'
  <2>1. SplitOver(c)
    BY <1>5 DEF GrantMerge
  <2>2. PICK k \in 1..Len(Table(c)) :
          /\ Mergeable(Table(c)[k], RequestedToken(c))
          /\ token_table' = [token_table EXCEPT ![request[c].filename][k] =
                               Hull(Table(c)[k], RequestedToken(c))]
          /\ GrantRevoke(c, Hull(Table(c)[k], RequestedToken(c)))
    BY <1>5 DEF GrantMerge
  <2>3. request[c].filename = f => NeverDangled(c)
    BY <1>0
  <2> DEFINE hull == Hull(Table(c)[k], RequestedToken(c))
  <2>4. CASE request[c].filename = f
    <3>1. ASSUME NEW j \in 1..Len(Table(c)), j # k
          PROVE  Compatible(hull, Table(c)[j]) /\ Compatible(Table(c)[j], hull)
      <4>1. Compatible(Table(c)[k], Table(c)[j])
        BY <1>2, <2>3, <2>4, <3>1 DEF Exclusive, Table
      <4>2. Table(c)[k] \in Token /\ Table(c)[j] \in Token /\ RequestedToken(c) \in Token
        BY <2>1, <2>3, <2>4, SplitOverAgrees
      <4> QED BY <2>1, <2>2, <2>3, <2>4, <4>1, <4>2, SplitOverAgrees, HullCompatible
    <3> HIDE DEF hull
    <3>2. token_table' = [token_table EXCEPT ![f] = [@ EXCEPT ![k] = hull]]
      BY <2>2, <2>4 DEF hull
    <3>3. /\ Table(c) = token_table[f] /\ Table(c) \in Seq(Token)
          /\ Len(token_table'[f]) = Len(Table(c))
          /\ \A j \in 1..Len(Table(c)) :
               token_table'[f][j] = IF j = k THEN hull ELSE Table(c)[j]
      BY <2>1, <2>3, <2>4, <3>2, SplitOverAgrees DEF Table, TypeOK
    <3>4. ASSUME NEW i \in 1..Len(Table(c)), NEW j \in 1..Len(Table(c)), i # j
          PROVE  Compatible(token_table'[f][i], token_table'[f][j])
      <4>1. CASE i = k
        BY <3>1, <3>3, <3>4, <4>1
      <4>2. CASE j = k
        BY <3>1, <3>3, <3>4, <4>2
      <4>3. CASE i # k /\ j # k
        BY <1>2, <2>3, <3>3, <3>4, <4>3 DEF Exclusive
      <4> QED BY <4>1, <4>2, <4>3
    <3> QED BY <3>3, <3>4 DEF Exclusive
  <2>5. CASE request[c].filename # f
    BY <1>3, <2>2, <2>3, <2>5 DEF TypeOK
  <2> QED BY <2>4, <2>5
<1>6. ASSUME NEW c \in Clients, GrantNew(c) PROVE Exclusive(f)'
  <2>1. SplitOver(c) /\ GrantRevoke(c, RequestedToken(c))
    BY <1>6 DEF GrantNew
  <2>2. request[c].filename = f => NeverDangled(c)
    BY <1>0
  <2> DEFINE new == RequestedToken(c)
  <2>3. token_table' = [token_table EXCEPT ![request[c].filename] = Append(@, new)]
    BY <1>6 DEF GrantNew
  <2>4. CASE request[c].filename = f
    <3>1. ASSUME NEW j \in 1..Len(Table(c))
          PROVE  Compatible(new, Table(c)[j]) /\ Compatible(Table(c)[j], new)
      <4>1. Compatible(Table(c)[j], new)
        BY <2>1, <2>2, <2>4, SplitOverAgrees
      <4> QED BY <4>1 DEF Compatible, Apart
    <3>2. Table(c) \in Seq(Token) /\ Table(c) = token_table[f]
      BY <2>1, <2>2, <2>4, SplitOverAgrees DEF Table
    <3> HIDE DEF new
    <3>3. /\ Len(token_table'[f]) = Len(Table(c)) + 1
          /\ \A j \in 1..Len(Table(c)) + 1 :
               token_table'[f][j] = IF j <= Len(Table(c)) THEN Table(c)[j] ELSE new
      BY <2>3, <2>4, <3>2 DEF TypeOK
    <3>4. Len(Table(c)) \in Nat
      BY <3>2
    <3>5. ASSUME NEW i \in 1..Len(Table(c)) + 1, NEW j \in 1..Len(Table(c)) + 1, i # j
          PROVE  Compatible(token_table'[f][i], token_table'[f][j])
      <4>1. CASE i <= Len(Table(c)) /\ j <= Len(Table(c))
        BY <1>2, <2>2, <3>2, <3>3, <3>5, <4>1 DEF Exclusive
      <4>2. CASE i > Len(Table(c))
        BY <3>1, <3>3, <3>4, <3>5, <4>2
      <4>3. CASE j > Len(Table(c))
        BY <3>1, <3>3, <3>4, <3>5, <4>3
      <4> QED BY <3>4, <4>1, <4>2, <4>3
    <3> QED BY <3>3, <3>5 DEF Exclusive
  <2>5. CASE request[c].filename # f
    BY <1>3, <2>2, <2>3, <2>5 DEF TypeOK
  <2> QED BY <2>4, <2>5
<1>7. ASSUME NEW c \in Clients, ReleaseErase(c) PROVE Exclusive(f)'
  <2>1. /\ pc[c] = "release" /\ it[c] \in 1..Len(Table(c))
        /\ token_table' = [token_table EXCEPT ![request[c].filename] = RemoveAt(@, it[c])]
    BY <1>7 DEF ReleaseErase, At, TypeOK
  <2>2. CASE request[c].filename = f
    <3> DEFINE left == RemoveAt(Table(c), it[c])
    <3>1. Table(c) \in Seq(Token) /\ Table(c) = token_table[f]
      BY <2>1, <2>2, RequestedTokenType DEF Table
    <3>2. /\ Len(left) = Len(Table(c)) - 1
          /\ \A k \in 1..Len(Table(c)) - 1 :
               left[k] = IF k < it[c] THEN Table(c)[k] ELSE Table(c)[k + 1]
      BY <2>1, <3>1, RemoveAtFacts
    <3>3. token_table'[f] = left
      BY <2>1, <2>2, <3>1 DEF TypeOK
    <3> HIDE DEF left
    <3>4. ASSUME NEW i \in 1..Len(left), NEW j \in 1..Len(left), i # j
          PROVE  Compatible(left[i], left[j])
      <4>1. PICK m \in 1..Len(Table(c)), n \in 1..Len(Table(c)) :
              m # n /\ left[i] = Table(c)[m] /\ left[j] = Table(c)[n]
        <5> DEFINE Old(x) == IF x < it[c] THEN x ELSE x + 1
        <5>1. /\ Old(i) \in 1..Len(Table(c)) /\ left[i] = Table(c)[Old(i)]
              /\ Old(j) \in 1..Len(Table(c)) /\ left[j] = Table(c)[Old(j)]
          BY <2>1, <3>1, <3>2
        <5>2. Old(i) # Old(j)
          BY <2>1, <3>1, <3>2, <3>4
        <5> QED BY <5>1, <5>2
      <4> QED BY <1>2, <2>1, <3>1, <4>1 DEF Exclusive
    <3> QED BY <3>3, <3>4 DEF Exclusive
  <2>3. CASE request[c].filename # f
    BY <1>3, <2>1, <2>3 DEF TypeOK
  <2> QED BY <2>2, <2>3
<1>8. ASSUME NEW c \in Clients,
             ReadRequest(c) \/ ScanKeep(c) \/ ReleaseKeep(c) \/ ReleaseDone(c)
      PROVE  Exclusive(f)'
  BY <1>3, <1>8 DEF ReadRequest, ScanKeep, ReleaseKeep, ReleaseDone
<1>9. CASE UNCHANGED serverVars
  BY <1>3, <1>9 DEF serverVars
<1>10. ASSUME NEW c \in Clients, AwaitAck(c) \/ HandlerReturn(c) \/ Client(c)
       PROVE  UNCHANGED serverVars
  BY <1>10 DEF AwaitAck, HandlerReturn, Client, ClientCall, ClientRead, ClientDone, ClientDies, HangUp,
              ClientBroken
<1> QED
  BY <1>4, <1>5, <1>6, <1>7, <1>8, <1>9, <1>10 DEF Next, Handler, tokenVars

-----------------------------------------------------------------------------
(* What a CLOSE leaves behind.                                              *)

NoneOf(f, d) == \A k \in 1..Len(token_table[f]) : token_table[f][k].client_id # d

\* Only the turn of its own request gives a client a token on a file where it
\* has none: splits and merges keep the owners.
LEMMA NoNewOwner ==
  ASSUME TypeOK, HandlerInv, RangeInv, [Next]_tokenVars,
         NEW d \in Clients, pc[d] = "read", NEW f \in Files, NoneOf(f, d)
  PROVE  NoneOf(f, d)'
<1>1. ASSUME token_table'[f] = token_table[f] PROVE NoneOf(f, d)'
  BY <1>1 DEF NoneOf
<1>2. ASSUME NEW c \in Clients, SplitErase(c) PROVE NoneOf(f, d)'
  <2> DEFINE split == EraseAndSplit(Table(c), it[c], RequestedToken(c))
  <2>1. /\ Derived(split, Table(c), it[c])
        /\ token_table' = [token_table EXCEPT ![request[c].filename] = split]
    BY <1>2, SplitEffect
  <2> HIDE DEF split
  <2>2. CASE request[c].filename = f
    <3>1. token_table'[f] = split /\ Table(c) = token_table[f]
      BY <2>1, <2>2 DEF TypeOK, Table
    <3>2. ASSUME NEW k \in 1..Len(split) PROVE split[k].client_id # d
      <4>1. PICK j \in 1..Len(Table(c)) : split[k].client_id = Table(c)[j].client_id
        BY <2>1 DEF Derived
      <4> QED BY <3>1, <4>1 DEF NoneOf
    <3> QED BY <3>1, <3>2 DEF NoneOf
  <2>3. CASE request[c].filename # f
    BY <1>1, <2>1, <2>3 DEF TypeOK
  <2> QED BY <2>2, <2>3
<1>3. ASSUME NEW c \in Clients, GrantMerge(c) PROVE NoneOf(f, d)'
  <2>1. pc[c] = "split"
    BY <1>3 DEF GrantMerge, SplitOver
  <2>2. PICK k \in 1..Len(Table(c)) :
          token_table' = [token_table EXCEPT ![request[c].filename][k] =
                            Hull(Table(c)[k], RequestedToken(c))]
    BY <1>3 DEF GrantMerge
  <2> DEFINE hull == Hull(Table(c)[k], RequestedToken(c))
  <2>3. hull.client_id = Table(c)[k].client_id
    BY DEF Hull, Part
  <2> HIDE DEF hull
  <2>4. token_table' = [token_table EXCEPT ![request[c].filename] = [@ EXCEPT ![k] = hull]]
    BY <2>2 DEF hull
  <2>5. CASE request[c].filename = f
    <3>1. Table(c) = token_table[f] /\ Table(c) \in Seq(Token)
      BY <2>1, <2>5, RequestedTokenType DEF Table
    <3>2. token_table'[f] = [Table(c) EXCEPT ![k] = hull]
      BY <2>4, <2>5, <3>1 DEF TypeOK
    <3> QED BY <2>3, <3>1, <3>2 DEF NoneOf
  <2>6. CASE request[c].filename # f
    BY <1>1, <2>4, <2>6 DEF TypeOK
  <2> QED BY <2>5, <2>6
<1>4. ASSUME NEW c \in Clients, GrantNew(c) PROVE NoneOf(f, d)'
  <2>1. pc[c] = "split" /\ c # d
    BY <1>4 DEF GrantNew, SplitOver
  <2>2. RequestedToken(c) \in Token /\ RequestedToken(c).client_id = c
    BY <2>1, RequestedTokenType DEF RequestedToken
  <2> DEFINE new == RequestedToken(c)
  <2>3. token_table' = [token_table EXCEPT ![request[c].filename] = Append(@, new)]
    BY <1>4 DEF GrantNew
  <2> HIDE DEF new
  <2>4. CASE request[c].filename = f
    <3>1. token_table'[f] = Append(token_table[f], new) /\ token_table[f] \in Seq(Token)
      BY <2>3, <2>4 DEF TypeOK
    <3>2. new \in Token /\ new.client_id # d
      BY <2>1, <2>2 DEF new
    <3>3. \A k \in 1..Len(token_table'[f]) :
            token_table'[f][k] = IF k <= Len(token_table[f]) THEN token_table[f][k] ELSE new
      BY <3>1, <3>2
    <3>4. Len(token_table'[f]) = Len(token_table[f]) + 1
      BY <3>1, <3>2
    <3> QED BY <3>2, <3>3, <3>4 DEF NoneOf
  <2>5. CASE request[c].filename # f
    BY <1>1, <2>3, <2>5 DEF TypeOK
  <2> QED BY <2>4, <2>5
<1>5. ASSUME NEW c \in Clients, ReleaseErase(c) PROVE NoneOf(f, d)'
  <2>1. /\ pc[c] = "release" /\ it[c] \in 1..Len(Table(c))
        /\ token_table' = [token_table EXCEPT ![request[c].filename] = RemoveAt(@, it[c])]
    BY <1>5 DEF ReleaseErase, At, TypeOK
  <2> DEFINE left == RemoveAt(Table(c), it[c])
  <2>2. Table(c) \in Seq(Token)
    BY <2>1, RequestedTokenType
  <2>3. /\ Len(left) = Len(Table(c)) - 1
        /\ \A k \in 1..Len(Table(c)) - 1 :
             left[k] = IF k < it[c] THEN Table(c)[k] ELSE Table(c)[k + 1]
    BY <2>1, <2>2, RemoveAtFacts
  <2>4. CASE request[c].filename = f
    <3>1. token_table'[f] = left /\ Table(c) = token_table[f]
      BY <2>1, <2>4 DEF TypeOK, Table
    <3> HIDE DEF left
    <3> QED BY <2>1, <2>2, <2>3, <3>1 DEF NoneOf
  <2>5. CASE request[c].filename # f
    BY <1>1, <2>1, <2>5 DEF TypeOK
  <2> QED BY <2>4, <2>5
<1>6. ASSUME NEW c \in Clients,
             ReadRequest(c) \/ ScanKeep(c) \/ ReleaseKeep(c) \/ ReleaseDone(c)
      PROVE  NoneOf(f, d)'
  BY <1>1, <1>6 DEF ReadRequest, ScanKeep, ReleaseKeep, ReleaseDone
<1>7. CASE UNCHANGED serverVars
  BY <1>1, <1>7 DEF serverVars
<1>8. ASSUME NEW c \in Clients, AwaitAck(c) \/ HandlerReturn(c) \/ Client(c)
      PROVE  UNCHANGED serverVars
  BY <1>8 DEF AwaitAck, HandlerReturn, Client, ClientCall, ClientRead, ClientDone, ClientDies, HangUp,
              ClientBroken
<1> QED
  BY <1>2, <1>3, <1>4, <1>5, <1>6, <1>7, <1>8 DEF Next, Handler, tokenVars

\* ClosedHoldsNothing, by position in the vector.
LEMMA ClosedByIndex ==
  ClosedHoldsNothing <=> \A c \in Clients : \A k \in 1..Len(responses[c]) :
    responses[c][k].token_action = "ACK" => NoneOf(responses[c][k].filename, c)
BY DEF ClosedHoldsNothing, TokensOf, NoneOf

\* Every step keeps a closed client out of the table (release_tokens).
LEMMA ClosedStep ==
  TypeOK /\ HandlerInv /\ StreamInv /\ RangeInv /\ LoopInv /\ ClosedHoldsNothing
    /\ [Next]_tokenVars => ClosedHoldsNothing'
<1> SUFFICES ASSUME TypeOK, HandlerInv, StreamInv, RangeInv, LoopInv, ClosedHoldsNothing,
                    [Next]_tokenVars, NEW d \in Clients,
                    NEW k \in 1..Len(responses'[d]), NEW f,
                    responses'[d][k].token_action = "ACK", f = responses'[d][k].filename
             PROVE  NoneOf(f, d)'
  BY DEF ClosedHoldsNothing, TokensOf, NoneOf
<1>1. ASSUME NEW j \in 1..Len(responses[d]), responses'[d][k] = responses[d][j]
      PROVE  NoneOf(f, d)'
  <2>1. NoneOf(f, d)
    BY <1>1, ClosedByIndex
  <2>2. f \in Files
    <3>1. responses[d][j] \in Response
      BY DEF TypeOK
    <3> QED BY <1>1, <3>1 DEF Response
  <2>3. pc[d] = "read"
    <3>1. pc[d] \in {"read", "split", "release", "await_ack"}
      BY DEF TypeOK
    <3>2. responses[d] # <<>>
      BY <1>1
    <3> QED BY <1>1, <3>1, <3>2 DEF StreamInv, StreamInvOf
  <2> QED BY <2>1, <2>2, <2>3, NoNewOwner
<1>2. ASSUME responses'[d] = responses[d] PROVE NoneOf(f, d)'
  BY <1>1, <1>2
<1>3. ASSUME NEW c \in Clients, NEW t \in Token, pc[c] = "split", GrantRevoke(c, t)
      PROVE  NoneOf(f, d)'
  <2>1. /\ \A j \in 1..Len(responses'[c]) :
             responses'[c][j].token_action = IF j = 1 THEN "GRANT" ELSE "REVOKE"
        /\ \A b \in Clients \ {c} : responses'[b] = responses[b]
    BY <1>3, GrantSent
  <2> QED BY <1>2, <2>1
<1>4. ASSUME NEW c \in Clients, GrantMerge(c) \/ GrantNew(c) PROVE NoneOf(f, d)'
  <2>1. pc[c] = "split" /\ RequestedToken(c) \in Token /\ Table(c) \in Seq(Token)
    BY <1>4, RequestedTokenType DEF GrantMerge, GrantNew, SplitOver
  <2>2. \A j \in 1..Len(Table(c)) : Hull(Table(c)[j], RequestedToken(c)) \in Token
    BY <2>1, HullType
  <2>3. \E t \in Token : GrantRevoke(c, t)
    BY <1>4, <2>1, <2>2 DEF GrantMerge, GrantNew
  <2> QED BY <1>3, <2>1, <2>3
<1>5. ASSUME NEW c \in Clients, ReleaseDone(c) PROVE NoneOf(f, d)'
  <2>1. CASE c = d
    <3>1. responses[d] = <<>>
      BY <1>5, <2>1 DEF ReleaseDone, StreamInv, StreamInvOf
    <3>2. responses'[d] \in {<<>>, <<CloseAck(request[d].filename, d)>>}
      BY <1>5, <2>1, <3>1 DEF ReleaseDone, Write, TypeOK
    <3>3. f = request[d].filename
      BY <3>2 DEF CloseAck
    <3>4. /\ pc[d] = "release" /\ it[d] > Len(Table(d)) /\ it[d] \in Nat
          /\ token_table' = token_table
      BY <1>5, <2>1 DEF ReleaseDone, TypeOK
    <3>5. \A j \in 1..Len(Table(d)) : Table(d)[j].client_id # d
      <4>1. Table(d) \in Seq(Token)
        BY <3>4, RequestedTokenType
      <4>2. ReleasedPrefixOf(d)
        BY DEF LoopInv, ReleasedPrefix
      <4> QED BY <3>4, <4>1, <4>2 DEF ReleasedPrefixOf
    <3> QED BY <3>3, <3>4, <3>5 DEF NoneOf, Table
  <2>2. CASE c # d
    BY <1>2, <1>5, <2>2 DEF ReleaseDone, Write, TypeOK
  <2> QED BY <2>1, <2>2
<1>6. ASSUME NEW c \in Clients,
             HandlerReturn(c) \/ ClientBroken(c) \/ ClientDone(c) \/ ClientDies(c)
      PROVE  NoneOf(f, d)'
  <2>1. responses' = [responses EXCEPT ![c] = <<>>]
    BY <1>6 DEF HandlerReturn, ClientBroken, ClientDone, ClientDies, EndCall, HangUp
  <2>2. c # d
    BY <2>1 DEF TypeOK
  <2> QED BY <1>2, <2>1, <2>2 DEF TypeOK
<1>7. ASSUME NEW c \in Clients, ClientRead(c) PROVE NoneOf(f, d)'
  <2>1. CASE c = d
    <3>1. /\ responses[d] \in Seq(Response) /\ responses[d] # <<>>
          /\ responses'[d] = Tail(responses[d])
      BY <1>7, <2>1 DEF ClientRead, TypeOK
    <3>2. k + 1 \in 1..Len(responses[d]) /\ responses'[d][k] = responses[d][k + 1]
      BY <3>1
    <3> QED BY <1>1, <3>2
  <2>2. CASE c # d
    BY <1>2, <1>7, <2>2 DEF ClientRead, TypeOK
  <2> QED BY <2>1, <2>2
<1>8. ASSUME NEW c \in Clients, ReadRequest(c) \/ ScanKeep(c) \/ SplitErase(c)
               \/ ReleaseErase(c) \/ ReleaseKeep(c)
      PROVE  NoneOf(f, d)'
  BY <1>2, <1>8 DEF ReadRequest, ScanKeep, SplitErase, ReleaseErase, ReleaseKeep, streamVars
<1>9. ASSUME NEW c \in Clients, AwaitAck(c) \/ ClientCall(c)
      PROVE  NoneOf(f, d)'
  BY <1>2, <1>9 DEF AwaitAck, ClientCall, OpenCall
<1>10. CASE UNCHANGED tokenVars
  BY <1>2, <1>10 DEF tokenVars, streamVars
<1> QED
  BY <1>4, <1>5, <1>6, <1>7, <1>8, <1>9, <1>10 DEF Next, Handler, Client

-----------------------------------------------------------------------------
(* The invariant and what follows from it.                                  *)

\* The invariant at start-up.
LEMMA TokenInvInit == TokenInit => TokenInv
<1> SUFFICES ASSUME TokenInit PROVE TokenInv
  OBVIOUS
<1>1. TypeOK /\ HandlerInv
  BY TypeInit
<1>2. /\ \A f \in Files : token_table[f] = <<>>
      /\ \A c \in Clients : /\ pc[c] = "read" /\ conflicting[c] = <<>>
                            /\ requests[c] = <<>> /\ responses[c] = <<>>
  BY DEF TokenInit
<1>3. StreamInv
  <2>1. ASSUME NEW c \in Clients PROVE StreamInvOf(c)
    <3>1. Len(requests[c]) = 0 /\ Len(responses[c]) = 0
      BY <1>2
    <3>2. \A k \in 1..Len(responses[c]) : responses[c][k].token_action # "REVOKE"
      BY <3>1
    <3> QED BY <1>2, <3>1, <3>2 DEF StreamInvOf
  <2> QED BY <2>1 DEF StreamInv
<1>4. RangeInv
  BY <1>2 DEF RangeInv, RangesNonEmpty, TokensOf, RangeInvOf
<1>5. PassedTokensAgree /\ ReleasedPrefix
  BY <1>2 DEF PassedTokensAgree, PassedAgree, ReleasedPrefix, ReleasedPrefixOf
<1>6. ExclusiveUntilContested
  BY <1>2 DEF ExclusiveUntilContested, Exclusive
<1>7. ClosedHoldsNothing
  BY <1>2 DEF ClosedHoldsNothing
<1> QED BY <1>1, <1>3, <1>4, <1>5, <1>6, <1>7 DEF TokenInv

\* Every step of a handler or a client keeps the invariant.
LEMMA TokenInvStep == TokenInv /\ [Next]_tokenVars => TokenInv'
<1> SUFFICES ASSUME TokenInv, [Next]_tokenVars PROVE TokenInv'
  OBVIOUS
<1>1. TypeOK' /\ HandlerInv'
  BY TypeStep DEF TokenInv
<1>2. StreamInv'
  BY StreamStep DEF TokenInv
<1>3. RangeInv'
  BY RangeStep DEF TokenInv
<1>4. PassedTokensAgree' /\ ReleasedPrefix'
  BY LoopStep DEF TokenInv, LoopInv
<1>5. ExclusiveUntilContested'
  BY ExclusiveStep DEF TokenInv, LoopInv
<1>6. ClosedHoldsNothing'
  BY ClosedStep DEF TokenInv, LoopInv
<1> QED BY <1>1, <1>2, <1>3, <1>4, <1>5, <1>6 DEF TokenInv

\* The inductive invariant holds in every reachable state.
THEOREM TokenInvariant == Spec => []TokenInv
<1>1. TokenInit => TokenInv
  BY TokenInvInit
<1>2. TokenInv /\ [Next]_tokenVars => TokenInv'
  BY TokenInvStep
<1> QED BY <1>1, <1>2, PTL DEF Spec

\* The tables, the locals of the handlers and the messages in transit keep
\* their types, whatever a dangling reference made of a token.
THEOREM TypeCorrect == Spec => []TypeOK
<1>1. TokenInv => TypeOK
  BY DEF TokenInv
<1> QED BY <1>1, TokenInvariant, PTL

\* No token with an empty or inverted range is ever in a table.
THEOREM SplitRanges == Spec => []RangesNonEmpty
<1>1. TokenInv => RangesNonEmpty
  BY DEF TokenInv, RangeInv
<1> QED BY <1>1, TokenInvariant, PTL

\* The loop of split_tokens leaves nothing behind it that conflicts.
THEOREM SplitLoopCorrect == Spec => []PassedTokensAgree
<1>1. TokenInv => PassedTokensAgree
  BY DEF TokenInv
<1> QED BY <1>1, TokenInvariant, PTL

\* The tokens of a file exclude each other until a request meets a conflict.
THEOREM TokensExclude == Spec => []ExclusiveUntilContested
<1>1. TokenInv => ExclusiveUntilContested
  BY DEF TokenInv
<1> QED BY <1>1, TokenInvariant, PTL

\* A client that can read the ACK of its CLOSE holds nothing on the file.
THEOREM CloseReleases == Spec => []ClosedHoldsNothing
<1>1. TokenInv => ClosedHoldsNothing
  BY DEF TokenInv
<1> QED BY <1>1, TokenInvariant, PTL

\* A WRITE request merges with nothing: what would merge would conflict.
LEMMA WriteNeverMerges ==
  ASSUME TokenInv, NEW c \in Clients, NeverDangled(c), SplitOver(c),
         request[c].token_type = "WRITE", NEW k \in 1..Len(Table(c))
  PROVE  /\ Apart(Table(c)[k], RequestedToken(c))
         /\ ~Mergeable(Table(c)[k], RequestedToken(c))
<1>1. /\ Table(c)[k] \in Token /\ RequestedToken(c) \in Token
      /\ Compatible(Table(c)[k], RequestedToken(c))
  BY SplitOverAgrees DEF TokenInv, LoopInv
<1>2. RequestedToken(c).token_type = "WRITE"
  BY DEF RequestedToken
<1>3. Apart(Table(c)[k], RequestedToken(c))
  BY <1>1, <1>2 DEF Compatible
<1>4. ~Overlaps(Table(c)[k], RequestedToken(c))
  BY <1>1, <1>3 DEF Apart, Overlaps, Token
<1> QED BY <1>3, <1>4 DEF Mergeable

\* A step that answers a WRITE request leaves the client the only one with a
\* token over the range.
LEMMA WriteGrantStep == TokenInv /\ [Next]_tokenVars => GrantStep
<1> SUFFICES ASSUME TokenInv, [Next]_tokenVars, Sound, NEW c \in Clients,
                    pc[c] = "split", pc'[c] # "split", request[c].token_type = "WRITE"
             PROVE  WriteGranted(c)
  BY DEF GrantStep
<1>1. SplitOver(c) /\ (GrantMerge(c) \/ GrantNew(c))
  <2>1. ASSUME NEW b \in Clients, b # c, Handler(b) PROVE pc'[c] = pc[c]
    BY <2>1 DEF Handler, ReadRequest, ScanKeep, SplitErase, GrantMerge, GrantNew, GrantRevoke,
                ReleaseErase, ReleaseKeep, ReleaseDone, AwaitAck, HandlerReturn, serverVars,
                TokenInv, TypeOK
  <2>2. ASSUME NEW b \in Clients, Client(b) PROVE pc'[c] = pc[c]
    BY <2>2 DEF Client, ClientCall, ClientRead, ClientDone, ClientDies, HangUp,
              ClientBroken, serverVars
  <2>3. Handler(c)
    BY <2>1, <2>2 DEF Next, tokenVars, serverVars
  <2>4. GrantMerge(c) \/ GrantNew(c)
    BY <2>3 DEF Handler, ReadRequest, ScanKeep, SplitErase, ReleaseErase, ReleaseKeep,
                ReleaseDone, AwaitAck, HandlerReturn, At, serverVars
  <2> QED BY <2>4 DEF GrantMerge, GrantNew
<1>2. /\ request[c].filename \in Files
      /\ Table(c) \in Seq(Token) /\ RequestedToken(c) \in Token
  BY <1>1, SplitOverAgrees DEF TokenInv, LoopInv, NeverDangled
<1>3. \A k \in 1..Len(Table(c)) : /\ Apart(Table(c)[k], RequestedToken(c))
                                 /\ ~Mergeable(Table(c)[k], RequestedToken(c))
  BY <1>1, WriteNeverMerges DEF NeverDangled
<1>4. GrantNew(c)
  BY <1>1, <1>3 DEF GrantMerge
<1> DEFINE f == request[c].filename
           new == RequestedToken(c)
<1>5. token_table'[f] = Append(Table(c), new)
  BY <1>2, <1>4 DEF GrantNew, Table, TokenInv, TypeOK
<1> HIDE DEF new
<1>6. /\ Len(token_table'[f]) = Len(Table(c)) + 1 /\ Len(Table(c)) \in Nat
      /\ \A k \in 1..Len(Table(c)) + 1 :
           token_table'[f][k] = IF k <= Len(Table(c)) THEN Table(c)[k] ELSE new
  BY <1>2, <1>5 DEF new
<1> DEFINE last == Len(Table(c)) + 1
<1>7. last \in 1..Len(token_table'[f]) /\ token_table'[f][last] = new
  BY <1>6
<1>8. ASSUME NEW j \in 1..Len(token_table'[f]), j # last
      PROVE  Apart(token_table'[f][j], new)
  <2>1. j \in 1..Len(Table(c)) /\ token_table'[f][j] = Table(c)[j]
    BY <1>6, <1>8
  <2> QED BY <1>3, <2>1 DEF new
<1> HIDE DEF last
<1> QED BY <1>7, <1>8 DEF WriteGranted, new

\* Every WRITE grant is exclusive at the moment it is given, even when it had
\* to split and revoke what others held.
THEOREM WriteGrantsExclude == Spec => WriteGrantExclusive
<1>1. TokenInv /\ [Next]_tokenVars => [GrantStep]_tokenVars
  BY WriteGrantStep
<1> QED BY <1>1, TokenInvariant, PTL DEF Spec, WriteGrantExclusive

\* A remainder does not conflict with the request it was cut for: what does is
\* left of the vector, one place nearer.
LEMMA SplitAhead ==
  ASSUME NEW tokens \in Seq(Token), NEW i \in 1..Len(tokens), NEW requested \in Token,
         NEW k \in Nat, i <= k, k <= Len(EraseAndSplit(tokens, i, requested)),
         Conflicts(EraseAndSplit(tokens, i, requested)[k], requested)
  PROVE  /\ k + 1 <= Len(tokens)
         /\ EraseAndSplit(tokens, i, requested)[k] = tokens[k + 1]
<1> DEFINE erased   == RemoveAt(tokens, i)
           existing == Slot(erased, i, tokens[i])
           lpiece   == Part(existing, existing.start_byte, requested.start_byte - 1)
           left     == IF StartsBefore(existing, requested) THEN Append(erased, lpiece) ELSE erased
           again    == Slot(left, i, tokens[i])
           rpiece   == Part(again, requested.end_byte + 1, again.end_byte)
           right    == IF EndsAfter(again, requested) THEN Append(left, rpiece) ELSE left
           Outside(t) == ~Overlaps(t, requested)
<1>1. /\ erased \in Seq(Token) /\ Len(erased) = Len(tokens) - 1
      /\ \A j \in 1..Len(erased) : j >= i => erased[j] = tokens[j + 1]
  <2>1. /\ erased \in Seq(Token) /\ Len(erased) = Len(tokens) - 1
        /\ \A j \in 1..Len(tokens) - 1 :
             erased[j] = IF j < i THEN tokens[j] ELSE tokens[j + 1]
    BY RemoveAtFacts
  <2> HIDE DEF erased
  <2> QED BY <2>1
<1>2. requested.start_byte \in Int /\ requested.end_byte \in Int
  BY DEF Token
<1>3. ASSUME NEW s \in Seq(Token) PROVE Slot(s, i, tokens[i]) \in Token
  BY <1>3 DEF Slot
<1>4. existing \in Token
  BY <1>1, <1>3
<1> HIDE DEF erased, existing
<1>5. lpiece \in Token /\ Outside(lpiece)
  BY <1>2, <1>4 DEF Part, Token, Overlaps
<1> HIDE DEF lpiece
<1>6. /\ left \in Seq(Token) /\ Len(left) \in Nat
      /\ \A j \in 1..Len(left) : j > Len(erased) => Outside(left[j])
      /\ \A j \in 1..Len(erased) : left[j] = erased[j]
  <2>1. CASE StartsBefore(existing, requested)
    <3>1. left = Append(erased, lpiece)
      BY <2>1
    <3> QED BY <1>1, <1>5, <3>1
  <2>2. CASE ~StartsBefore(existing, requested)
    BY <1>1, <2>2
  <2> QED BY <2>1, <2>2
<1>7. again \in Token
  BY <1>3, <1>6
<1> HIDE DEF left, again
<1>8. rpiece \in Token /\ Outside(rpiece)
  BY <1>2, <1>7 DEF Part, Token, Overlaps
<1> HIDE DEF rpiece
<1>9. /\ \A j \in 1..Len(right) : j > Len(left) => Outside(right[j])
      /\ \A j \in 1..Len(left) : right[j] = left[j]
      /\ Len(right) \in Nat
  <2>1. CASE EndsAfter(again, requested)
    <3>1. right = Append(left, rpiece)
      BY <2>1
    <3> QED BY <1>6, <1>8, <3>1
  <2>2. CASE ~EndsAfter(again, requested)
    BY <1>6, <2>2
  <2> QED BY <2>1, <2>2
<1>10. right = EraseAndSplit(tokens, i, requested)
  BY DEF EraseAndSplit, left, again, rpiece, erased, existing, lpiece
<1> HIDE DEF right
<1>11. k \in 1..Len(right) /\ ~Outside(right[k])
  BY <1>9, <1>10 DEF Conflicts
<1> HIDE DEF Outside
<1>12. k \in 1..Len(left) /\ right[k] = left[k]
  BY <1>6, <1>9, <1>11
<1>13. k \in 1..Len(erased) /\ left[k] = erased[k]
  BY <1>1, <1>6, <1>11, <1>12
<1> QED BY <1>1, <1>10, <1>12, <1>13

\* A turn of the loop is a step of its own handler, and takes away or passes one
\* token.
LEMMA TurnStepHolds == TokenInv /\ [Next]_tokenVars => TurnStep
<1> SUFFICES ASSUME TokenInv, [Next]_tokenVars, Sound', NEW c \in Clients, Turn(c),
                    NEW n \in Nat, ConflictAhead(c, n)'
             PROVE  ConflictAhead(c, n + 1)
  BY DEF TurnStep, TurnAdvances
<1>1. ScanKeep(c) \/ SplitErase(c)
  <2>1. ASSUME NEW b \in Clients, b # c, Handler(b)
        PROVE  it'[c] = it[c] /\ conflicting'[c] = conflicting[c]
    BY <2>1 DEF Handler, ReadRequest, ScanKeep, SplitErase, GrantMerge, GrantNew, GrantRevoke,
                ReleaseErase, ReleaseKeep, ReleaseDone, AwaitAck, HandlerReturn, serverVars,
                TokenInv, TypeOK
  <2>2. ASSUME NEW b \in Clients, Client(b)
        PROVE  it'[c] = it[c] /\ conflicting'[c] = conflicting[c]
    BY <2>2 DEF Client, ClientCall, ClientRead, ClientDone, ClientDies, HangUp,
              ClientBroken, serverVars
  <2>3. Handler(c)
    BY <2>1, <2>2 DEF Next, Turn, tokenVars, serverVars
  <2>4. ASSUME GrantMerge(c) \/ GrantNew(c) PROVE pc'[c] # "split"
    BY <2>4 DEF GrantMerge, GrantNew, GrantRevoke, TokenInv, TypeOK
  <2> QED BY <2>3, <2>4 DEF Handler, ReadRequest, ReleaseErase, ReleaseKeep,
                ReleaseDone, AwaitAck, HandlerReturn, At, Turn, serverVars
<1>2. /\ pc[c] = "split" /\ it[c] \in Nat \ {0}
      /\ RequestedToken(c) \in Token /\ Table(c) \in Seq(Token)
  BY <1>1, RequestedTokenType DEF ScanKeep, SplitErase, At, TokenInv, TypeOK
<1>3. CASE ScanKeep(c)
  <2>1. it'[c] = it[c] + 1 /\ Table(c)' = Table(c) /\ RequestedToken(c)' = RequestedToken(c)
    BY <1>3 DEF ScanKeep, TokenInv, TypeOK, Table, RequestedToken
  <2> QED BY <1>2, <2>1 DEF ConflictAhead
<1>4. CASE SplitErase(c)
  <2> DEFINE split == EraseAndSplit(Table(c), it[c], RequestedToken(c))
             k == it[c] + n
  <2>1. /\ request[c].filename \in Files /\ it[c] \in 1..Len(Table(c))
        /\ token_table' = [token_table EXCEPT ![request[c].filename] = split]
        /\ it' = it
    BY <1>4, SplitEffect DEF TokenInv, Sound
  <2>2. Table(c)' = split /\ RequestedToken(c)' = RequestedToken(c)
    BY <1>4, <2>1 DEF SplitErase, Table, RequestedToken, TokenInv, TypeOK
  <2>3. k \in Nat /\ it[c] <= k /\ k <= Len(split) /\ Conflicts(split[k], RequestedToken(c))
    BY <1>2, <2>1, <2>2 DEF ConflictAhead
  <2>4. k + 1 <= Len(Table(c)) /\ split[k] = Table(c)[k + 1]
    BY <1>2, <2>1, <2>3, SplitAhead
  <2>5. k + 1 = it[c] + (n + 1)
    BY <1>2
  <2> QED BY <2>3, <2>4, <2>5 DEF ConflictAhead
<1> QED BY <1>1, <1>3, <1>4

\* Each turn of split_tokens brings the last token it has to take away one place
\* nearer, so that the loop ends, whatever it pushes.
THEOREM SplitLoopEnds == Spec => SplitLoopAdvances
<1>1. TokenInv /\ [Next]_tokenVars => [TurnStep]_tokenVars
  BY TurnStepHolds
<1> QED BY <1>1, TokenInvariant, PTL DEF Spec, SplitLoopAdvances

\* health never gets better.
LEMMA SoundBefore == [Next]_tokenVars /\ Sound' => Sound
BY DEF Next, Handler, Client, ReadRequest, ScanKeep, SplitErase, GrantMerge, GrantNew,
       GrantRevoke, ReleaseErase, ReleaseKeep, ReleaseDone, AwaitAck, HandlerReturn,
       ClientCall, ClientRead, ClientDone, ClientDies, HangUp, ClientBroken,
       Sound, tokenVars, serverVars

=============================================================================
