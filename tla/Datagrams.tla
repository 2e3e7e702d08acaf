------------------------------ MODULE Datagrams ------------------------------
(***************************************************************************)
(* udp_t (udp.h) and the datagram side of socket_t (posix/socket.h): how a *)
(* server or a client is opened and closed, and to whom what it writes     *)
(* goes while the network loses, repeats and reorders datagrams.  The      *)
(* program pipes the socket in onConnect and answers what it hears, in the *)
(* listener of onData or later, as examples/15-UDP.cpp does.               *)
(*                                                                         *)
(* Operators whose name starts with Bad are the definition that follows    *)
(* them with one plausible mistake in it; no specification uses them.      *)
(***************************************************************************)
EXTENDS Integers, Sequences, FiniteSets

CONSTANTS
    Peers, Remote,  \* the other ends; the one a client connects to
    Nobody,         \* an address of zeros
    MaxSent,        \* bound on the datagrams of a peer
    MaxHeard,       \* bound on the datagrams that are read
    Buffer, Room    \* the size of NODE::buffer; of the queue of the system

VARIABLES
    state,          \* NODE::state of the udp_t
    handle,         \* the program has the udp_t
    task,           \* the task of listen() or connect(): "none", "queued", "done"
    said,           \* what the udp_t told its program, in order
    server,         \* FS_STATE_SERVER of the socket
    address,        \* server_addr, client_addr and tmp_addr
    piped,          \* the socket: "no", "poll", "stopped"
    sent,           \* history: how many datagrams each peer sent
    wire,           \* the datagrams on their way: [from, id, size]
    inbox,          \* those that arrived
    heard,          \* what onData passed on, in order
    later,          \* those to be answered later
    answers         \* history: [to, of: what was heard, prompt]

udpVars  == <<state, handle, task, said>>
sockVars == <<server, address, piped>>
netVars  == <<sent, wire, inbox>>
vars == <<udpVars, sockVars, netVars, heard, later, answers>>

Init ==
    /\ state = {} /\ handle = TRUE /\ task = "none" /\ said = <<>>
    /\ server = FALSE /\ piped = "no"
    /\ address = [server |-> Nobody, client |-> Nobody, tmp |-> Nobody]
    /\ sent = [p \in Peers |-> 0] /\ wire = {} /\ inbox = <<>>
    /\ heard = <<>> /\ later = {} /\ answers = <<>>

-----------------------------------------------------------------------------
(* The peers and the network.                                              *)

PeerSends(p, n) ==
    /\ task # "none" /\ sent[p] < MaxSent
    /\ sent' = [sent EXCEPT ![p] = @ + 1]
    /\ wire' = wire \cup {[from |-> p, id |-> sent[p] + 1, size |-> n]}
    /\ UNCHANGED <<udpVars, sockVars, inbox, heard, later, answers>>

Loses == \E d \in wire : wire' = wire \ {d} /\ UNCHANGED inbox

\* A datagram arrives, for the last time or not, at a socket that is bound.
Arrives ==
    \E d \in wire :
        /\ server \/ piped = "poll"
        /\ Len(inbox) < Room
        /\ inbox' = Append(inbox, d)
        /\ wire' = wire \ {d} \/ wire' = wire

Network ==
    /\ Loses \/ Arrives
    /\ UNCHANGED <<udpVars, sockVars, sent, heard, later, answers>>

-----------------------------------------------------------------------------
(* listen() and connect(): a socket that cannot be made or bound leaves    *)
(* the udp_t used.                                                         *)

Says(e) == said' = Append(said, e)

Refused ==
    /\ handle /\ Len(said) < 3 /\ state # {}
    /\ IF "CLOSED" \in state THEN UNCHANGED said ELSE Says("onError")
    /\ UNCHANGED <<state, handle, task, sockVars>>

Fails ==
    /\ handle /\ state = {}
    /\ state' = {"USED"} /\ Says("onError")
    /\ UNCHANGED <<handle, task, sockVars>>

Opens ==
    /\ handle /\ state = {}
    /\ state' = {"USED"} /\ task' = "queued"
    /\ server' \in BOOLEAN
    /\ address' = [address EXCEPT !.server = IF server' THEN Nobody ELSE Remote]
    /\ UNCHANGED <<handle, said, piped>>

\* free(): onClose, and nobody listens any more.
BadFreed(st) == state' = st \cup {"CLOSED"} /\ Says("onClose")

Freed(st) ==
    IF "CLOSED" \in st THEN UNCHANGED <<state, said>>
    ELSE state' = {"CLOSED"} /\ Says("onClose")

\* The task: onOpen and onConnect, where the program pipes the socket, unless
\* the udp_t was closed before.  Then its copy of the udp_t goes.
Task ==
    /\ task = "queued"
    /\ task' = "done"
    /\ IF "CLOSED" \in state
       THEN UNCHANGED <<state, said, piped>>
       ELSE /\ piped' = "poll"
            /\ IF handle THEN Says("onConnect") /\ UNCHANGED state
               ELSE state' = {"CLOSED"} /\ said' = said \o <<"onConnect", "onClose">>
    /\ UNCHANGED <<handle, server, address>>

Close == handle /\ Freed(state) /\ UNCHANGED <<handle, task, sockVars>>

Drop ==
    /\ handle /\ handle' = FALSE
    /\ IF task = "queued" THEN UNCHANGED <<state, said>> ELSE Freed(state)
    /\ UNCHANGED <<task, sockVars>>

Udp ==
    /\ Refused \/ Fails \/ Opens \/ Task \/ Close \/ Drop
    /\ UNCHANGED <<netVars, heard, later, answers>>

-----------------------------------------------------------------------------
(* The socket.                                                             *)

\* get_read_address() and get_write_address().
ReadAddress(a)  == IF server THEN a.client ELSE a.server
WriteAddress(a) == IF server THEN a.tmp ELSE a.server

\* recvfrom() leaves the sender's address.
Received(a, p) ==
    IF server THEN [a EXCEPT !.client = p] ELSE [a EXCEPT !.server = p]

\* set_write_address( get_read_address() ).
BadTurned(a) == a

Turned(a) == IF server THEN [a EXCEPT !.tmp = a.client] ELSE a

Answer(a, i, now) == Append(answers, [to |-> WriteAddress(a), of |-> i, prompt |-> now])

\* An empty datagram looks like the end of a stream, and stops the socket.
ReadsEmpty ==
    /\ Head(inbox).size = 0
    /\ piped' = "stopped"
    /\ address' = Received(address, Head(inbox).from)
    /\ UNCHANGED <<heard, later, answers>>

\* What does not fit into the buffer is lost.
ReadsOne ==
    LET d == Head(inbox)
        a == Received(address, d.from)
        i == Len(heard) + 1
    IN  /\ d.size # 0 /\ Len(heard) < MaxHeard
        /\ heard' = Append(heard, [d EXCEPT !.size = IF @ > Buffer THEN Buffer ELSE @])
        /\ \/ /\ address' = Turned(a)
              /\ answers' = Answer(Turned(a), i, TRUE) /\ UNCHANGED later
           \/ address' = a /\ later' = later \cup {i} /\ UNCHANGED answers
           \/ address' = a /\ UNCHANGED <<later, answers>>
        /\ UNCHANGED piped

Reads ==
    /\ piped = "poll" /\ inbox # <<>>
    /\ ReadsEmpty \/ ReadsOne
    /\ inbox' = Tail(inbox)
    /\ UNCHANGED <<udpVars, server, sent, wire>>

\* A later answer goes to whoever was read last.
AnswersLate ==
    /\ piped = "poll"
    /\ \E i \in later :
        /\ address' = Turned(address)
        /\ answers' = Answer(Turned(address), i, FALSE)
        /\ later' = later \ {i}
    /\ UNCHANGED <<udpVars, server, piped, netVars, heard>>

-----------------------------------------------------------------------------
Next ==
    \/ \E p \in Peers, n \in {0, Buffer + 1} : PeerSends(p, n)
    \/ Network \/ Udp \/ Reads \/ AnswersLate

Spec == Init /\ [][Next]_vars

FairSpec == Spec /\ WF_vars(Reads)

-----------------------------------------------------------------------------
Position(e) == {i \in DOMAIN said : said[i] = e}

(* What is heard is the beginning of a datagram that its peer sent; an     *)
(* answer given in the listener goes to the one who is answered, whatever  *)
(* was repeated or overtaken, a later one to whoever was heard by then.    *)
Attributed ==
    /\ \A i \in DOMAIN heard :
        /\ heard[i].id \in 1..sent[heard[i].from]
        /\ heard[i].size \in 1..Buffer
    /\ \A i \in DOMAIN answers :
        /\ answers[i].to \in {heard[j].from : j \in DOMAIN heard}
        /\ answers[i].prompt => answers[i].to = heard[answers[i].of].from

(* The program hears of one connection at most, and of none after onClose, *)
(* which it hears once; nothing is read before.                            *)
OpenedOnce ==
    /\ Cardinality(Position("onConnect")) <= 1
    /\ Cardinality(Position("onClose")) = (IF "CLOSED" \in state THEN 1 ELSE 0)
    /\ \A i \in Position("onConnect"), j \in Position("onClose") : i < j
    /\ piped # "no" => Position("onConnect") # {}

(* What arrived at a socket that is piped is read, unless an empty datagram *)
(* stops it.                                                               *)
Waits == inbox # <<>> /\ piped = "poll"
Heard == inbox = <<>> \/ piped = "stopped" \/ Len(heard) = MaxHeard

AllHeard == Waits ~> Heard
=============================================================================
