----------------------------- MODULE TokenServer -----------------------------
(***************************************************************************)
(* The byte-range token service of the metadata server: the handler of the *)
(* bidirectional StreamToken call (pfs_metaserver.cpp, lines 117-298), the *)
(* table of tokens it keeps per file, and the gRPC stream between one      *)
(* client and its handler thread.                                          *)
(*                                                                         *)
(* Grain.  A handler takes token_table_mutex, walks the vector of the file *)
(* one element at a time, and drops the mutex; each turn of a loop over    *)
(* the vector is an action.  What follows the unlock (writing GRANT and    *)
(* REVOKE to the handler's own stream) is part of the action that unlocks: *)
(* only the client reads that stream and it may read it late.              *)
(*                                                                         *)
(* split_tokens keeps a reference to the element it has just erased.  The  *)
(* module models the memory libstdc++ leaves behind: the slot holds the    *)
(* element that moved into it or, when the erased one was the last, the    *)
(* erased element's own bytes until a push_back reuses the slot.  If a     *)
(* push_back reallocates, the iterator dangles and any outcome is allowed. *)
(***************************************************************************)
EXTENDS Integers, Sequences, SequencesExt

CONSTANTS
  Clients,      \* client ids; a client has at most one StreamToken call open
  Files,        \* file names
  ReadRanges,   \* the byte ranges READ tokens may be asked for
  WriteRanges,  \* the byte ranges WRITE tokens may be asked for
  NoClient,     \* owner of the mutex when it is free
  NoRequest     \* the locals of a handler that is waiting for a request

ASSUME RangesAssumption ==
  \A r \in ReadRanges \union WriteRanges :
    r.start_byte \in Int /\ r.end_byte \in Int /\ r.start_byte <= r.end_byte
ASSUME NoClientAssumption == NoClient \notin Clients

VARIABLES
  token_table,        \* per file, the vector of tokens
  capacity,           \* per file, the capacity of that vector
  token_table_mutex,  \* the handler holding the mutex, or NoClient
  pc,                 \* per handler: read, split, release or await_ack
  request,            \* per handler: the TokenRequest it is serving
  it,                 \* per handler: index of the iterator over the vector
  conflicting,        \* per handler: conflicting_tokens
  call,               \* per client: where its StreamToken call is
  requests,           \* per client: the messages the server has yet to read
  responses,          \* per client: the messages the client has yet to read
  health              \* sound; wild after a dangling iterator; crashed

serverVars == <<token_table, capacity, token_table_mutex, pc, request, it,
                conflicting, health>>
streamVars == <<call, requests, responses>>
tokenVars  == <<serverVars, streamVars>>

TokenTypes == {"READ", "WRITE"}
Token    == [client_id : Clients, token_type : TokenTypes,
             start_byte : Int, end_byte : Int]
Request  == [filename : Files, token_type : TokenTypes \union {"CLOSE", "ACK"},
             start_byte : Int, end_byte : Int]
Response == [token_action : {"GRANT", "REVOKE", "ACK"}, filename : Files,
             client_id : Clients, start_byte : Int, end_byte : Int]

ASSUME NoRequestAssumption == NoRequest \notin Files \union [filename : Files, token : Token]

-----------------------------------------------------------------------------
(* The stream, as gRPC provides it: two queues and the half-close.  A call  *)
(* is none, open, answered (the client has read a message) or done (the     *)
(* client has half-closed it, or is gone: Read returns false either way).   *)

CallPhases == {"none", "open", "answered", "done"}

\* stream->Write of the handler; a client that is done reads nothing more.
\* Mutant: a CLOSE is never acknowledged.
WriteButNoAck(c, msgs) ==
  responses' = IF call[c] = "done" \/ msgs[1].token_action = "ACK" THEN responses
               ELSE [responses EXCEPT ![c] = @ \o msgs]

Write(c, msgs) ==
  responses' = IF call[c] = "done" THEN responses
               ELSE [responses EXCEPT ![c] = @ \o msgs]

-----------------------------------------------------------------------------
(* Tokens.                                                                 *)

\* The token with another range.
Part(token, first, last) ==
  [client_id |-> token.client_id, token_type |-> token.token_type,
   start_byte |-> first, end_byte |-> last]

\* Mutant: ranges that only share a boundary byte do not overlap.
OverlapsInside(a, b) == a.end_byte > b.start_byte /\ a.start_byte < b.end_byte

\* Mutant: ranges that touch overlap.
OverlapsTouching(a, b) == a.end_byte + 1 >= b.start_byte /\ a.start_byte <= b.end_byte + 1

Overlaps(a, b) == a.end_byte >= b.start_byte /\ a.start_byte <= b.end_byte

\* Mutant: only a WRITE that is already held conflicts.
ConflictsIfHeldForWrite(existing, requested) ==
  Overlaps(existing, requested) /\ existing.token_type = "WRITE"

Conflicts(existing, requested) ==
  /\ Overlaps(existing, requested)
  /\ "WRITE" \in {existing.token_type, requested.token_type}

\* Anything that is not a READ asks for a WRITE token.
RequestedToken(c) ==
  [client_id  |-> c,
   token_type |-> IF request[c].token_type = "READ" THEN "READ" ELSE "WRITE",
   start_byte |-> request[c].start_byte, end_byte |-> request[c].end_byte]

\* tokens.begin(), and what erase(it) returns: the slot the next element took.
\* Mutants: a loop that starts before the vector, one that skips an element.
BeforeBegin == 0
Begin == 1
SkipOne(i) == i + 1
AfterErase(i) == i

\* What the reference `existing` to slot i reads: the live element there, or
\* what the erased last element left behind.
Slot(tokens, i, stale) == IF i <= Len(tokens) THEN tokens[i] ELSE stale

\* The two tests for a remainder.  Mutant: off by one.
StartsAtOrBefore(existing, requested) == existing.start_byte <= requested.start_byte
StartsBefore(existing, requested) == existing.start_byte < requested.start_byte
EndsAfter(existing, requested) == existing.end_byte > requested.end_byte

\* erase(it), then the two push_backs, each testing what the reference reads.
EraseAndSplit(tokens, i, requested) ==
  LET erased   == RemoveAt(tokens, i)
      existing == Slot(erased, i, tokens[i])
      left     == IF StartsBefore(existing, requested)
                  THEN Append(erased, Part(existing, existing.start_byte, requested.start_byte - 1))
                  ELSE erased
      again    == Slot(left, i, tokens[i])
  IN  IF EndsAfter(again, requested)
      THEN Append(left, Part(again, requested.end_byte + 1, again.end_byte))
      ELSE left

\* push_back doubles a full vector.
Grown(cap, len) == IF len <= cap THEN cap ELSE IF cap = 0 THEN 1 ELSE 2 * cap

Mergeable(token, requested) ==
  token.token_type = requested.token_type /\ Overlaps(token, requested)

\* Mutant: the token moves to the range asked for.
HullOfRequest(token, requested) ==
  Part(token, requested.start_byte, requested.end_byte)

Hull(token, requested) ==
  Part(token,
    IF token.start_byte <= requested.start_byte THEN token.start_byte ELSE requested.start_byte,
    IF token.end_byte >= requested.end_byte THEN token.end_byte ELSE requested.end_byte)

Message(action, f, token) ==
  [token_action |-> action, filename |-> f, client_id |-> token.client_id,
   start_byte |-> token.start_byte, end_byte |-> token.end_byte]

\* The ACK of a CLOSE leaves the range of the message at its default.
CloseAck(f, c) ==
  [token_action |-> "ACK", filename |-> f, client_id |-> c,
   start_byte |-> 0, end_byte |-> 0]

-----------------------------------------------------------------------------
(* The handler thread of client c (one per open stream).  Its locals        *)
(* request, it and conflicting are reset where they go out of scope.        *)

Running == health # "crashed"

Table(c) == token_table[request[c].filename]

\* Read the next request and take the mutex.  A CLOSE goes on in
\* release_tokens, anything else in split_tokens.
ReadRequest(c) ==
  /\ Running
  /\ call[c] # "none"
  /\ pc[c] = "read"
  /\ requests[c] # <<>>
  /\ token_table_mutex = NoClient
  /\ LET req == Head(requests[c])
     IN  /\ request' = [request EXCEPT ![c] = req]
         /\ pc' = [pc EXCEPT ![c] = IF req.token_type = "CLOSE" THEN "release" ELSE "split"]
  /\ token_table_mutex' = c
  /\ it' = [it EXCEPT ![c] = Begin]
  /\ requests' = [requests EXCEPT ![c] = Tail(@)]
  /\ UNCHANGED <<token_table, capacity, conflicting, call, responses, health>>

\* The handler is inside a loop over the vector, at a live element.
At(c, label) ==
  /\ Running
  /\ pc[c] = label
  /\ it[c] <= Len(Table(c))

\* Mutant: the loop forgets ++it.
ScanKeepStuck(c) ==
  /\ At(c, "split")
  /\ ~Conflicts(Table(c)[it[c]], RequestedToken(c))
  /\ UNCHANGED tokenVars

\* split_tokens: the element does not conflict, ++it.
ScanKeep(c) ==
  /\ At(c, "split")
  /\ ~Conflicts(Table(c)[it[c]], RequestedToken(c))
  /\ it' = [it EXCEPT ![c] = @ + 1]
  /\ UNCHANGED <<token_table, capacity, token_table_mutex, pc, request,
                 conflicting, health, streamVars>>

\* split_tokens: the element conflicts; erase it and push the remainders.  The
\* iterator stays, so that it reads the element that moved into the slot,
\* unless a push_back reallocated: then it dangles and the loop goes on from
\* anywhere, or the process dies.
SplitErase(c) ==
  /\ At(c, "split")
  /\ LET f        == request[c].filename
         existing == Table(c)[it[c]]
         split    == EraseAndSplit(Table(c), it[c], RequestedToken(c))
         dangling == Len(split) > capacity[f]
     IN  /\ Conflicts(existing, RequestedToken(c))
         /\ conflicting' = [conflicting EXCEPT ![c] = Append(@, existing)]
         /\ token_table' = [token_table EXCEPT ![f] = split]
         /\ capacity' = [capacity EXCEPT ![f] = Grown(@, Len(split))]
         /\ \/ /\ ~dangling
               /\ it' = [it EXCEPT ![c] = AfterErase(@)]
               /\ UNCHANGED health
            \/ dangling /\ health' = "crashed" /\ UNCHANGED it
            \/ /\ dangling
               /\ health' = "wild"
               /\ \E k \in 1..Len(split) + 1 : it' = [it EXCEPT ![c] = k]
  /\ UNCHANGED <<token_table_mutex, pc, request, streamVars>>

Revokes(c) ==
  [k \in 1..Len(conflicting[c]) |->
     Message("REVOKE", request[c].filename, conflicting[c][k])]

\* The answer to a request.  Mutant: the REVOKEs are written first.
AnswerRevokesFirst(c, granted) ==
  Revokes(c) \o <<Message("GRANT", request[c].filename, granted)>>

Answer(c, granted) ==
  <<Message("GRANT", request[c].filename, granted)>> \o Revokes(c)

\* The end of a StreamToken turn: drop the mutex, write the GRANT and then one
\* REVOKE per conflicting token, and wait for acknowledgements if there are any.
GrantRevoke(c, granted) ==
  /\ token_table_mutex' = NoClient
  /\ Write(c, Answer(c, granted))
  /\ IF conflicting[c] = <<>>
     THEN /\ pc' = [pc EXCEPT ![c] = "read"]
          /\ request' = [request EXCEPT ![c] = NoRequest]
     ELSE /\ pc' = [pc EXCEPT ![c] = "await_ack"]
          /\ UNCHANGED request
  /\ it' = [it EXCEPT ![c] = Begin]
  /\ UNCHANGED <<conflicting, call, requests, health>>

\* split_tokens is over; the iterator of a sound loop is at end().
SplitOver(c) == Running /\ pc[c] = "split" /\ it[c] > Len(Table(c))

\* consolidate_token_ranges: the first token of the same type that overlaps
\* absorbs the request, and is what is granted.
GrantMerge(c) ==
  /\ SplitOver(c)
  /\ \E k \in 1..Len(Table(c)) :
       LET granted == Hull(Table(c)[k], RequestedToken(c))
       IN  /\ Mergeable(Table(c)[k], RequestedToken(c))
           /\ \A j \in 1..k-1 : ~Mergeable(Table(c)[j], RequestedToken(c))
           /\ token_table' = [token_table EXCEPT ![request[c].filename][k] = granted]
           /\ GrantRevoke(c, granted)
  /\ UNCHANGED capacity

\* consolidate_token_ranges: no such token, push the request.
GrantNew(c) ==
  /\ SplitOver(c)
  /\ \A k \in 1..Len(Table(c)) : ~Mergeable(Table(c)[k], RequestedToken(c))
  /\ LET f == request[c].filename
     IN  /\ token_table' = [token_table EXCEPT ![f] = Append(@, RequestedToken(c))]
         /\ capacity' = [capacity EXCEPT ![f] = Grown(@, Len(token_table[f]) + 1)]
  /\ GrantRevoke(c, RequestedToken(c))

\* release_tokens: remove_if and erase, one element at a time.
ReleaseErase(c) ==
  /\ At(c, "release")
  /\ Table(c)[it[c]].client_id = c
  /\ token_table' = [token_table EXCEPT ![request[c].filename] = RemoveAt(@, it[c])]
  /\ it' = [it EXCEPT ![c] = AfterErase(@)]
  /\ UNCHANGED <<capacity, token_table_mutex, pc, request, conflicting,
                 health, streamVars>>

ReleaseKeep(c) ==
  /\ At(c, "release")
  /\ Table(c)[it[c]].client_id # c
  /\ it' = [it EXCEPT ![c] = @ + 1]
  /\ UNCHANGED <<token_table, capacity, token_table_mutex, pc, request,
                 conflicting, health, streamVars>>

\* Drop the mutex and acknowledge the CLOSE.
ReleaseDone(c) ==
  /\ Running
  /\ pc[c] = "release"
  /\ it[c] > Len(Table(c))
  /\ token_table_mutex' = NoClient
  /\ Write(c, <<CloseAck(request[c].filename, c)>>)
  /\ pc' = [pc EXCEPT ![c] = "read"]
  /\ request' = [request EXCEPT ![c] = NoRequest]
  /\ it' = [it EXCEPT ![c] = Begin]
  /\ UNCHANGED <<token_table, capacity, conflicting, call, requests, health>>

\* revoke_tokens_and_wait_for_ack: a message is read and, ACK or not, changes
\* nothing the loop tests: it erases from the member revoke_tokens, which is
\* always empty, and the loop tests its const argument.
AwaitAck(c) ==
  /\ Running
  /\ pc[c] = "await_ack"
  /\ requests[c] # <<>>
  /\ requests' = [requests EXCEPT ![c] = Tail(@)]
  /\ UNCHANGED <<serverVars, call, responses>>

\* The call is over; nothing is left in its queues.
EndCall(c) ==
  /\ call' = [call EXCEPT ![c] = "none"]
  /\ requests' = [requests EXCEPT ![c] = <<>>]
  /\ responses' = [responses EXCEPT ![c] = <<>>]

\* Read returns false after the half-close: the handler returns OK and Finish
\* returns at the client, which reads nothing more.
HandlerReturn(c) ==
  /\ Running
  /\ pc[c] = "read"
  /\ call[c] = "done"
  /\ requests[c] = <<>>
  /\ EndCall(c)
  /\ UNCHANGED serverVars

Handler(c) ==
  \/ ReadRequest(c)
  \/ ScanKeep(c) \/ SplitErase(c) \/ GrantMerge(c) \/ GrantNew(c)
  \/ ReleaseErase(c) \/ ReleaseKeep(c) \/ ReleaseDone(c)
  \/ AwaitAck(c) \/ HandlerReturn(c)

-----------------------------------------------------------------------------
(* A client of the protocol: it opens a stream with one request, as         *)
(* pfs_read, pfs_write and pfs_close do, and reads the answer.  It may go   *)
(* on reading and acknowledge every REVOKE, or half-close as soon as it has *)
(* the answer, which is what the library does, and its process may die.     *)

RequestFor(f, type, r) ==
  [filename |-> f, token_type |-> type, start_byte |-> r.start_byte, end_byte |-> r.end_byte]

\* The fields a CLOSE leaves at their default.
NoRange == [start_byte |-> 0, end_byte |-> 0]

OpenCall(c, req) ==
  /\ call[c] = "none"
  /\ call' = [call EXCEPT ![c] = "open"]
  /\ requests' = [requests EXCEPT ![c] = <<req>>]
  /\ UNCHANGED responses

ClientCall(c) ==
  /\ Running
  /\ \E f \in Files :
       \/ \E r \in ReadRanges : OpenCall(c, RequestFor(f, "READ", r))
       \/ \E r \in WriteRanges : OpenCall(c, RequestFor(f, "WRITE", r))
       \/ OpenCall(c, RequestFor(f, "CLOSE", NoRange))
  /\ UNCHANGED serverVars

ClientRead(c) ==
  /\ call[c] \in {"open", "answered"}
  /\ responses[c] # <<>>
  /\ responses' = [responses EXCEPT ![c] = Tail(@)]
  /\ call' = [call EXCEPT ![c] = "answered"]
  /\ LET msg == Head(responses[c])
         ack == [filename |-> msg.filename, token_type |-> "ACK",
                 start_byte |-> msg.start_byte, end_byte |-> msg.end_byte]
     IN  requests' = IF msg.token_action = "REVOKE"
                     THEN [requests EXCEPT ![c] = Append(@, ack)]
                     ELSE requests
  /\ UNCHANGED serverVars

\* The client writes and reads no more; what it has not read is dropped.
HangUp(c) ==
  /\ call' = [call EXCEPT ![c] = "done"]
  /\ responses' = [responses EXCEPT ![c] = <<>>]
  /\ UNCHANGED serverVars

\* WritesDone, after the request has been answered, and Finish.
ClientDone(c) ==
  /\ call[c] = "answered"
  /\ HangUp(c)
  /\ UNCHANGED requests

\* The client's process dies: gRPC cancels the call, and a message under way
\* may or may not arrive.
ClientDies(c) ==
  /\ call[c] \in {"open", "answered"}
  /\ HangUp(c)
  /\ requests' \in {requests, [requests EXCEPT ![c] = <<>>]}

\* The server process died: Read returns false and Finish an error.
ClientBroken(c) ==
  /\ health = "crashed"
  /\ call[c] # "none"
  /\ EndCall(c)
  /\ UNCHANGED serverVars

Client(c) ==
  \/ ClientCall(c) \/ ClientRead(c) \/ ClientDone(c)
  \/ ClientDies(c) \/ ClientBroken(c)

-----------------------------------------------------------------------------
TokenInit ==
  /\ token_table = [f \in Files |-> <<>>]
  /\ capacity = [f \in Files |-> 0]
  /\ token_table_mutex = NoClient
  /\ pc = [c \in Clients |-> "read"]
  /\ request = [c \in Clients |-> NoRequest]
  /\ it = [c \in Clients |-> Begin]
  /\ conflicting = [c \in Clients |-> <<>>]
  /\ call = [c \in Clients |-> "none"]
  /\ requests = [c \in Clients |-> <<>>]
  /\ responses = [c \in Clients |-> <<>>]
  /\ health = "sound"

Next == \E c \in Clients : Handler(c) \/ Client(c)

Spec == TokenInit /\ [][Next]_tokenVars

\* A handler that can run does run; one that waits for the mutex gets it in
\* time (the mutex is held for one pass over a vector, and a futex wakes its
\* waiters); a client in a call reads its answers and half-closes.
ClientFinishesCall(c) == ClientRead(c) \/ ClientDone(c) \/ ClientBroken(c)

Fairness ==
  \A c \in Clients : /\ WF_tokenVars(Handler(c))
                     /\ SF_tokenVars(ReadRequest(c))
                     /\ WF_tokenVars(ClientFinishesCall(c))

FairSpec == Spec /\ Fairness

-----------------------------------------------------------------------------
(* Properties.                                                              *)

TypeOK ==
  /\ token_table \in [Files -> Seq(Token)]
  /\ capacity \in [Files -> Nat]
  /\ token_table_mutex \in Clients \union {NoClient}
  /\ pc \in [Clients -> {"read", "split", "release", "await_ack"}]
  /\ request \in [Clients -> Request \union {NoRequest}]
  /\ it \in [Clients -> Nat \ {0}]
  /\ conflicting \in [Clients -> Seq(Token)]
  /\ call \in [Clients -> CallPhases]
  /\ requests \in [Clients -> Seq(Request)]
  /\ responses \in [Clients -> Seq(Response)]
  /\ health \in {"sound", "wild", "crashed"}

Sound == health = "sound"

TokensOf(f) == {token_table[f][k] : k \in 1..Len(token_table[f])}

\* Disjoint ranges; tokens that may be held together.
Apart(t, u) == t.end_byte < u.start_byte \/ u.end_byte < t.start_byte

Compatible(t, u) == Apart(t, u) \/ (t.token_type = "READ" /\ u.token_type = "READ")

NonEmpty(r) == r.start_byte <= r.end_byte

\* Splitting never leaves a token with an empty or inverted range behind: a
\* remainder is pushed only where one is left (split_tokens, lines 228-235).
RangesNonEmpty == \A f \in Files : \A t \in TokensOf(f) : NonEmpty(t)

\* The loop of split_tokens does what it is for although it erases and appends
\* to the vector it walks: what the iterator has passed does not conflict with
\* the request (lines 221-239).
PassedAgree(c) ==
  pc[c] = "split" => \A k \in 1..Len(Table(c)) :
    k < it[c] => Compatible(Table(c)[k], RequestedToken(c))

\* That holds until the iterator dangles, which takes a conflict of its own.
NeverDangled(c) == Sound \/ conflicting[c] = <<>>

PassedTokensAgree == \A c \in Clients : NeverDangled(c) => PassedAgree(c)

\* A handler met a conflict on file f; it waits for an acknowledgement.
Contested(f) ==
  \E c \in Clients : conflicting[c] # <<>> /\ request[c].filename = f

Exclusive(f) ==
  \A i, j \in 1..Len(token_table[f]) :
    i # j => Compatible(token_table[f][i], token_table[f][j])

\* Until a request on a file meets a conflict, its tokens exclude each other,
\* whatever is granted, merged and released in between, and whatever a dangling
\* iterator has done to other files (lines 149-155, 162-168).
ExclusiveUntilContested == \A f \in Files : ~Contested(f) => Exclusive(f)

\* Once a client can read the ACK of its CLOSE the table holds nothing of it on
\* that file, and no other handler puts anything back (lines 130-144, 162-168).
ClosedHoldsNothing ==
  \A c \in Clients : \A k \in 1..Len(responses[c]) :
    responses[c][k].token_action = "ACK" =>
      \A t \in TokensOf(responses[c][k].filename) : t.client_id # c

\* A step that answers a WRITE request of c leaves a token of c over exactly
\* the range asked for, and no other token in the file overlaps it.
WriteGranted(c) ==
  LET f == request[c].filename
  IN  \E k \in 1..Len(token_table'[f]) :
        /\ token_table'[f][k] = RequestedToken(c)
        /\ \A j \in 1..Len(token_table'[f]) :
             j # k => Apart(token_table'[f][j], RequestedToken(c))

\* A WRITE grant is exclusive at the moment it is given, even when the request
\* had to split and revoke the tokens of others (lines 149-157).
GrantStep ==
  Sound => \A c \in Clients :
    pc[c] = "split" /\ pc'[c] # "split" /\ request[c].token_type = "WRITE"
      => WriteGranted(c)

WriteGrantExclusive == [][GrantStep]_tokenVars

\* The token n places ahead of the iterator is one to take away.
ConflictAhead(c, n) ==
  /\ it[c] + n <= Len(Table(c))
  /\ Conflicts(Table(c)[it[c] + n], RequestedToken(c))

\* What a turn of the loop leaves ahead of the iterator to take away was ahead
\* of it before, and one place further.
TurnAdvances(c) ==
  \A n \in 0..Len(Table(c))' : ConflictAhead(c, n)' => ConflictAhead(c, n + 1)

Turn(c) ==
  /\ pc[c] = "split" /\ pc'[c] = "split"
  /\ it'[c] # it[c] \/ conflicting'[c] # conflicting[c]

\* The loop of split_tokens ends, and its handler drops the mutex that everybody
\* needs, although it pushes to the vector it walks: no remainder, right or
\* spurious, conflicts with the request again (lines 221-239), until the
\* iterator dangles.
TurnStep == Sound' => \A c \in Clients : Turn(c) => TurnAdvances(c)

SplitLoopAdvances == [][TurnStep]_tokenVars

-----------------------------------------------------------------------------
(* The service behind the handlers: what a request in split_tokens asks for *)
(* and what release_tokens gives back.                                      *)

Asked(c) ==
  IF pc[c] = "split"
  THEN [filename |-> request[c].filename, token |-> RequestedToken(c)]
  ELSE NoRequest

HeldTokens == [f \in Files |-> TokensOf(f)]
ContestedFiles == {f \in Files : Contested(f)}
AskedTokens == [c \in Clients |-> Asked(c)]
ClosingFiles == [c \in Clients |-> IF pc[c] = "release" THEN request[c].filename ELSE NoRequest]

Service == INSTANCE LockService WITH
  Nobody <- NoRequest,
  held <- HeldTokens,
  contested <- ContestedFiles,
  asked <- AskedTokens,
  closing <- ClosingFiles,
  broken <- ~Sound

\* The handlers, which walk and change a shared vector element by element and
\* talk to their clients over streams that break, are a lock service: one step
\* per grant, per conflict and per token given back (lines 117-253).
ImplementsLockService == Service!LockSpec

-----------------------------------------------------------------------------
(* The inductive invariant behind the safety properties.                    *)

\* Who holds the mutex, and what the locals of a handler are good for.
HandlerInv ==
  \A c \in Clients :
    /\ token_table_mutex = c <=> pc[c] \in {"split", "release"}
    /\ pc[c] # "read" => request[c] \in Request
    /\ conflicting[c] # <<>> => pc[c] \in {"split", "await_ack"}

\* One request, one answer: what can be in transit, by where the handler is.
StreamInvOf(c) ==
  /\ pc[c] \in {"split", "release"} => requests[c] = <<>> /\ responses[c] = <<>>
  /\ pc[c] = "read" =>
       /\ Len(requests[c]) + Len(responses[c]) <= 1
       /\ \A k \in 1..Len(responses[c]) : responses[c][k].token_action # "REVOKE"
  /\ pc[c] = "await_ack" =>
       \A k \in 1..Len(responses[c]) : responses[c][k].token_action # "ACK"
  /\ Running /\ call[c] = "none" =>
       pc[c] = "read" /\ requests[c] = <<>> /\ responses[c] = <<>>

StreamInv == \A c \in Clients : StreamInvOf(c)

\* No range is empty, in the table, in a handler or in transit.
RangeInvOf(c) ==
  /\ pc[c] # "read" => NonEmpty(request[c])
  /\ \A k \in 1..Len(conflicting[c]) : NonEmpty(conflicting[c][k])
  /\ \A k \in 1..Len(requests[c]) : NonEmpty(requests[c][k])
  /\ \A k \in 1..Len(responses[c]) : NonEmpty(responses[c][k])

RangeInv == RangesNonEmpty /\ \A c \in Clients : RangeInvOf(c)

\* What release_tokens has passed is not the client's.
ReleasedPrefixOf(c) ==
  pc[c] = "release" => \A k \in 1..Len(Table(c)) :
    k < it[c] => Table(c)[k].client_id # c

ReleasedPrefix == \A c \in Clients : ReleasedPrefixOf(c)

TokenInv ==
  /\ TypeOK
  /\ HandlerInv
  /\ StreamInv
  /\ RangeInv
  /\ PassedTokensAgree
  /\ ExclusiveUntilContested
  /\ ReleasedPrefix
  /\ ClosedHoldsNothing

\* Until a conflict, no token reaches over one that comes before it in the
\* vector, because consolidate_token_ranges widens the first that it can: so no
\* token is there twice (lines 241-253).
ReachesOver(t, u) == t.start_byte <= u.start_byte /\ u.end_byte <= t.end_byte

NoneTwice(f) ==
  \A i, j \in 1..Len(token_table[f]) :
    i < j => ~ReachesOver(token_table[f][j], token_table[f][i])

\* It takes a conflict to break the service.
BrokenByConflict == Sound \/ \E f \in Files : Contested(f)

\* What it takes to be a lock service.
ServiceInv ==
  /\ TokenInv
  /\ \A f \in Files : ~Contested(f) => NoneTwice(f)
  /\ BrokenByConflict

-----------------------------------------------------------------------------
(* What README.md says of the service, and the code does not do.            *)

\* The client has read and acknowledged every REVOKE, and its ACKs have arrived.
AllAcknowledged(c) ==
  /\ pc[c] = "await_ack"
  /\ call[c] = "answered"
  /\ requests[c] = <<>>
  /\ responses[c] = <<>>

\* "revoke_tokens_and_wait_for_ack: Revokes conflicting tokens and ensures
\* acknowledgment from clients" (README.md:35): the wait ends when every REVOKE
\* is acknowledged.
RevokeWaitEnds == \A c \in Clients : AllAcknowledged(c) ~> pc[c] = "read"

=============================================================================
