------------------------------ MODULE MCServers ------------------------------
(* Servers with two or three clients and, apart from them, two or three    *)
(* calls of fetch(): the topic of a behaviour is one or the other.         *)
EXTENDS Servers

CONSTANTS c1, c2, c3

Serves(p, t, C, S) == [proto |-> p, tls |-> t, crowd |-> C, talk |-> S]

AllScenes == {Serves("tcp", FALSE, {c1, c2, c3}, {"plain"}),
              Serves("tcp", TRUE, {c1, c2}, {"plain"}),
              Serves("http", FALSE, {c1, c2, c3}, {"plain"}),
              Serves("http", TRUE, {c1, c2}, {"plain", "bad"}),
              Serves("ws", FALSE, {c1}, {"plain", "ws"}),
              Serves("tcp", FALSE, {}, {"plain"})}

-----------------------------------------------------------------------------

CONSTANTS Calls, Methods

VARIABLES topic, method, at, peer, hand, answer, callbacks

Fetching == INSTANCE Fetches WITH stack <- callbacks

fetchVars == <<method, at, peer, hand, answer, callbacks>>

allVars == <<topic, vars, fetchVars>>

NoClients == Serves("tcp", FALSE, {}, {"plain"})

MCInit ==
    /\ topic \in {"server", "fetch"}
    /\ Init /\ Fetching!Init
    /\ topic = "server" => scene # NoClients /\ \A c \in Calls : method[c] = "GET"
    /\ topic = "fetch" => scene = NoClients

Serving(A) == topic = "server" /\ A /\ UNCHANGED <<topic, fetchVars>>

Apart(A) == topic = "fetch" /\ A /\ UNCHANGED <<topic, vars>>

MCNext ==
    \/ Serving(Next)
    \/ Apart(Fetching!Next)

MCSpec ==
    /\ MCInit /\ [][MCNext]_allVars
    /\ WF_allVars(Serving(Handler)) /\ SF_allVars(Serving(Door))
    /\ SF_allVars(Serving(\E c \in Clients : Task(c)))
    /\ WF_allVars(Serving(\E c \in Clients : Send(c) \/ Hangup(c)))
    /\ WF_allVars(Apart(Fetching!More \/ Fetching!Ends))
    /\ SF_allVars(Apart(\E c \in Calls : Fetching!Task(c)))
    /\ WF_allVars(Apart(\E c \in Calls : Fetching!Peer(c)))

(* A client that asks is answered, and a call of fetch() is settled, unless *)
(* it asks for the head of a document only (http.h 311 reads a body then).  *)
AllAnswered ==
    /\ Answered
    /\ \A c \in Calls : topic = "fetch" /\ method[c] # "HEAD" ~> answer[c] # "pending"

=============================================================================
