------------------------------- MODULE Fetches -------------------------------
(***************************************************************************)
(* The client side: tcp_t::connect() (tcp.h 130-172) and tls_t::connect(), *)
(* http::fetch() and https::fetch() on top of them, several at a time.     *)
(*                                                                         *)
(* As in Servers one thread runs everything and a callback that waits for  *)
(* the header turns the loop itself: the callbacks nest.                   *)
(***************************************************************************)
EXTENDS Naturals, Sequences

CONSTANTS
    Calls,          \* calls of fetch()
    Methods         \* methods they use, of "GET" and "HEAD"

VARIABLES
    method,         \* of each call
    at,             \* how far it is
    peer,           \* what its server did: [up, sent, end]
    hand,           \* units of the answer its reader has
    answer,         \* what its promise came to
    stack           \* calls whose callback reads the header, outermost first

vars == <<method, at, peer, hand, answer, stack>>

\* A connection is under way, made or refused; an answer has two units, the
\* first line and the headers.
Init ==
    /\ method \in [Calls -> Methods]
    /\ at = [c \in Calls |-> "executor"]
    /\ peer = [c \in Calls |-> [up |-> "coming", sent |-> 0, end |-> FALSE]]
    /\ hand = [c \in Calls |-> 0]
    /\ answer = [c \in Calls |-> "pending"]
    /\ stack = <<>>

-----------------------------------------------------------------------------
(* The other side.                                                         *)

Peer(c) ==
    /\ at[c] # "executor"
    /\ \/ peer[c].up = "coming"
          /\ \E u \in {"made", "refused"} : peer' = [peer EXCEPT ![c].up = u]
       \/ peer[c].up = "made" /\ peer[c].sent < 2 /\ ~peer[c].end
          /\ peer' = [peer EXCEPT ![c].sent = @ + 1]
       \/ peer[c].up = "made" /\ ~peer[c].end
          /\ peer' = [peer EXCEPT ![c].end = TRUE]
    /\ UNCHANGED <<method, at, hand, answer, stack>>

-----------------------------------------------------------------------------

Top == stack[Len(stack)]

Over(c) == hand[c] = 2 \/ (peer[c].end /\ peer[c].sent = hand[c])

\* Tasks run when no callback does, or when the innermost one waits.
CanRun == stack # <<>> => ~Over(Top) /\ peer[Top].sent = hand[Top]

Moves(c, p) == at' = [at EXCEPT ![c] = p]

\* res() and rej(): the first of them counts (promise.h).
Settles(c, r) ==
    answer' = IF answer[c] = "pending" THEN [answer EXCEPT ![c] = r] ELSE answer

\* The executor: an URL that is none and a host nobody knows are refused.
Execute(c) ==
    /\ at[c] = "executor" /\ CanRun
    /\ \/ Moves(c, "connecting") /\ UNCHANGED answer
       \/ Moves(c, "over") /\ Settles(c, "rejected")
    /\ UNCHANGED <<method, peer, hand, stack>>

\* _connect() == -1: onError.
Refused(c) ==
    /\ at[c] = "connecting" /\ peer[c].up = "refused" /\ CanRun
    /\ Moves(c, "over")
    /\ Settles(c, "rejected")
    /\ UNCHANGED <<method, peer, hand, stack>>

\* The request is written and the answer waited for; after HEAD the socket
\* is closed, and a closed socket is not polled.
Connected(c) ==
    /\ at[c] = "connecting" /\ peer[c].up = "made" /\ CanRun
    /\ Moves(c, IF method[c] = "HEAD" THEN "over" ELSE "waiting")
    /\ UNCHANGED <<method, peer, hand, answer, stack>>

\* stream::readable()
First(c) ==
    /\ at[c] = "waiting" /\ peer[c].sent > 0 /\ CanRun
    /\ Moves(c, "reading")
    /\ hand' = [hand EXCEPT ![c] = peer[c].sent]
    /\ stack' = Append(stack, c)
    /\ UNCHANGED <<method, peer, answer>>

Left(c) ==
    /\ at[c] = "waiting" /\ peer[c].sent = 0 /\ peer[c].end /\ CanRun
    /\ Moves(c, "over")
    /\ Settles(c, "rejected")
    /\ UNCHANGED <<method, peer, hand, stack>>

\* The innermost callback: http_t::read_header() until the headers are in,
\* or the server hangs up after the first line.
More ==
    /\ stack # <<>> /\ ~Over(Top) /\ hand[Top] < peer[Top].sent
    /\ hand' = [hand EXCEPT ![Top] = peer[Top].sent]
    /\ UNCHANGED <<method, at, peer, answer, stack>>

Ends ==
    /\ stack # <<>> /\ Over(Top)
    /\ Moves(Top, "over")
    /\ Settles(Top, "resolved")
    /\ stack' = SubSeq(stack, 1, Len(stack) - 1)
    /\ UNCHANGED <<method, peer, hand>>

Task(c) == Execute(c) \/ Refused(c) \/ Connected(c) \/ First(c) \/ Left(c)

Program == More \/ Ends \/ \E c \in Calls : Task(c)

Next == Program \/ \E c \in Calls : Peer(c)

Spec == Init /\ [][Next]_vars

\* The loop runs its tasks; a server answers all or hangs up at last.
Fairness ==
    /\ WF_vars(More \/ Ends) /\ SF_vars(\E c \in Calls : Task(c))
    /\ WF_vars(\E c \in Calls : Peer(c))

FairSpec == Spec /\ Fairness

-----------------------------------------------------------------------------
(* Properties.                                                             *)

TypeOK ==
    /\ method \in [Calls -> Methods]
    /\ at \in [Calls -> {"executor", "connecting", "waiting", "reading", "over"}]
    /\ \A c \in Calls : peer[c].up \in {"coming", "made", "refused"}
    /\ hand \in [Calls -> 0..2]
    /\ answer \in [Calls -> {"pending", "resolved", "rejected"}]
    /\ stack \in Seq(Calls)

\* Every call of fetch() that waits for an answer comes to one, although the
\* callbacks of others may hold it up: except of HEAD, whose socket
\* write_header() closes before anything is read (http.h 311).
FetchSettles ==
    \A c \in Calls : method[c] # "HEAD" ~> answer[c] # "pending"
=============================================================================
