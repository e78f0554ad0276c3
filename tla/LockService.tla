------------------------------ MODULE LockService ------------------------------
(***************************************************************************)
(* What the token service promises to its clients, without handlers,       *)
(* streams, vectors and iterators: per file a set of tokens, granted and   *)
(* given back one at a time.  TokenServer implements it.                   *)
(*                                                                         *)
(* Until two requests on a file meet in a conflict, all its tokens can be  *)
(* held together.  From then on the file is contested for good, and all    *)
(* that is left is that a WRITE token is exclusive at the moment it is     *)
(* granted and that a client that closes holds nothing.  A service that is *)
(* broken promises nothing.                                                *)
(***************************************************************************)
EXTENDS Integers

CONSTANTS
  Clients,  \* client ids
  Files,    \* file names
  Nobody    \* a client asks for nothing, or closes no file

VARIABLES
  held,       \* per file: the tokens that are held
  contested,  \* the files on which a conflict has been met
  asked,      \* per client: the file and the token it is waiting for, or Nobody
  closing,    \* per client: the file it is closing, or Nobody
  broken      \* nothing is promised any more

lockVars == <<held, contested, asked, closing, broken>>

Apart(t, u) == t.end_byte < u.start_byte \/ u.end_byte < t.start_byte

Compatible(t, u) == Apart(t, u) \/ (t.token_type = "READ" /\ u.token_type = "READ")

Covers(t, u) ==
  /\ t.token_type = u.token_type
  /\ t.start_byte <= u.start_byte /\ u.end_byte <= t.end_byte

\* Only the tokens of f change.
ElsewhereSame(f) == \A g \in Files \ {f} : held'[g] = held[g]

Answered(c) == asked' = [asked EXCEPT ![c] = Nobody]

Ask(c) ==
  /\ asked[c] = Nobody
  /\ asked'[c] # Nobody
  /\ asked'[c].filename \in Files /\ asked'[c].token.client_id = c
  /\ asked' = [asked EXCEPT ![c] = asked'[c]]
  /\ UNCHANGED <<held, contested, closing, broken>>

\* The token asked for.
GrantNew(c) ==
  /\ asked[c] # Nobody
  /\ LET f == asked[c].filename
         t == asked[c].token
     IN  /\ f \notin contested
         /\ \A u \in held[f] : Compatible(u, t)
         /\ held' = [held EXCEPT ![f] = @ \union {t}]
  /\ Answered(c)
  /\ UNCHANGED <<contested, closing, broken>>

\* A READ may be granted by widening a READ token, whoever owns that.
GrantWider(c) ==
  /\ asked[c] # Nobody
  /\ LET f == asked[c].filename
     IN  /\ f \notin contested
         /\ \E t \in held[f], u \in held'[f] :
              /\ t.token_type = "READ"
              /\ u.client_id = t.client_id
              /\ Covers(u, t) /\ Covers(u, asked[c].token)
              /\ \A v \in held[f] \ {t} : Compatible(v, u)
              /\ held' = [held EXCEPT ![f] = (@ \ {t}) \union {u}]
  /\ Answered(c)
  /\ UNCHANGED <<contested, closing, broken>>

\* A token that covers the request; if it is a WRITE token nobody else holds
\* one of those bytes at that moment.
GrantContested(c) ==
  /\ asked[c] # Nobody
  /\ asked[c].filename \in contested
  /\ ElsewhereSame(asked[c].filename)
  /\ \E t \in held'[asked[c].filename] :
       /\ Covers(t, asked[c].token)
       /\ t.token_type = "WRITE" =>
            /\ t.client_id = c
            /\ \A u \in held'[asked[c].filename] \ {t} : Apart(u, t)
  /\ Answered(c)
  /\ UNCHANGED <<contested, closing, broken>>

\* A request that conflicts with a token that is held: the tokens of the file
\* are taken from their owners, split and mixed up.
Contest(c) ==
  /\ asked[c] # Nobody
  /\ LET f == asked[c].filename
     IN  /\ \E t \in held[f] : ~Compatible(t, asked[c].token)
         /\ contested' = contested \union {f}
         /\ ElsewhereSame(f)
  /\ UNCHANGED <<asked, closing, broken>>

StartClose(c) ==
  /\ closing[c] = Nobody
  /\ closing'[c] \in Files
  /\ closing' = [closing EXCEPT ![c] = closing'[c]]
  /\ UNCHANGED <<held, contested, asked, broken>>

\* A client that closes gives back its own tokens, and no other.
Release(c) ==
  /\ closing[c] # Nobody
  /\ \E t \in held[closing[c]] :
       t.client_id = c /\ held' = [held EXCEPT ![closing[c]] = @ \ {t}]
  /\ UNCHANGED <<contested, asked, closing, broken>>

FinishClose(c) ==
  /\ closing[c] # Nobody
  /\ \A t \in held[closing[c]] : t.client_id # c
  /\ closing' = [closing EXCEPT ![c] = Nobody]
  /\ UNCHANGED <<held, contested, asked, broken>>

\* The service breaks, which takes a conflict.
Break == broken' /\ contested' # {}

LockInit ==
  /\ held = [f \in Files |-> {}]
  /\ contested = {}
  /\ asked = [c \in Clients |-> Nobody]
  /\ closing = [c \in Clients |-> Nobody]
  /\ broken = FALSE

LockNext ==
  \/ \E c \in Clients :
       \/ Ask(c) \/ GrantNew(c) \/ GrantWider(c) \/ GrantContested(c) \/ Contest(c)
       \/ StartClose(c) \/ Release(c) \/ FinishClose(c)
  \/ Break

LockSpec == LockInit /\ [][LockNext]_lockVars

=============================================================================
