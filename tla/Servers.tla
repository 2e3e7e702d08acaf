------------------------------- MODULE Servers -------------------------------
(***************************************************************************)
(* The servers: tcp_t and tls_t accepting clients (tcp.h 65-126, tls.h     *)
(* 69-135), stream::readable() waiting for the first bytes of each, the    *)
(* header read of http::server() and https::server(), the handshake of     *)
(* ws::server() and wss::server().                                         *)
(*                                                                         *)
(* All of it runs in one thread.  A handler that waits for more bytes      *)
(* calls process::next() itself, so that handlers nest: `stack` holds the  *)
(* clients whose handlers are under way, and only the innermost moves.     *)
(*                                                                         *)
(* What a client sends is counted in units: the hello of TLS, then the     *)
(* first line of the request, then its headers; of plain TCP one unit.     *)
(* That an awaken task is called, and that a descriptor which has         *)
(* something to read gets its task woken, is what Loop and Kernel show.    *)
(*                                                                         *)
(* Operators whose name starts with Bad are the definition that follows    *)
(* them with one plausible mistake in it; no specification uses them.      *)
(***************************************************************************)
EXTENDS Integers, Sequences, FiniteSets, FiniteSetsExt

CONSTANTS
    Clients,
    Scenes,         \* [proto, tls, crowd, talk]: what is served, to which
                    \* clients, and what these say
    MaxBatch        \* NODEPP_MAX_BATCH_SIZE

PROTOCOLS == {"tcp", "http", "ws"}

\* A request, one to upgrade, or no HTTP at all.
SPEECHES == {"plain", "ws", "bad"}

ASSUME ServersAssumption ==
    /\ MaxBatch \in Nat
    /\ Scenes \subseteq [proto: PROTOCOLS, tls: BOOLEAN, crowd: SUBSET Clients,
                    talk: SUBSET SPEECHES]
    /\ Scenes # {}
    /\ IsFiniteSet(Clients)

VARIABLES
    scene,
    cl,             \* the clients
    backlog,        \* connections the system made, not accepted
    door,           \* the accepting task: "awake" or "resting"
    enb,            \* *enb: clients accepted and not yet done with
    stack,          \* handlers under way, the outermost first
    tasks,          \* upgraded clients whose task is in the loop
    skipped,        \* onConnect.skip()
    closed          \* the server was closed

vars == <<scene, cl, backlog, door, enb, stack, tasks, skipped, closed>>

\* speech  what it says
\* sent, end     units sent, and whether it hung up
\* got, hand     units read, and those the header reader has
\* at, job       how far the server is with it, and its reading task
\* called, greeted  times the handler and onConnect were called for it
Absent == [speech |-> "plain", sent |-> 0, end |-> FALSE, got |-> 0, hand |-> 0,
           at |-> "none", job |-> "off", open |-> TRUE, upgraded |-> FALSE,
           called |-> 0, greeted |-> 0]

Hello == IF scene.tls THEN 1 ELSE 0
Units == Hello + IF scene.proto = "tcp" THEN 1 ELSE 2

Init ==
    /\ scene \in Scenes
    /\ cl = [c \in Clients |-> Absent]
    /\ backlog = <<>> /\ door = "awake" /\ enb = 0
    /\ stack = <<>> /\ tasks = {} /\ skipped = FALSE /\ closed = FALSE

Top == stack[Len(stack)]
Pop == stack' = SubSeq(stack, 1, Len(stack) - 1)
Set(c, r) == cl' = [cl EXCEPT ![c] = r]

-----------------------------------------------------------------------------
(* The clients.  What arrives wakes the task that waits for it.            *)

Woken(d) == IF d.job = "resting" THEN "awake" ELSE d.job

Connect(c) ==
    /\ cl[c].at = "none" /\ c \in scene.crowd
    /\ \E s \in scene.talk : Set(c, [cl[c] EXCEPT !.at = "backlog", !.speech = s])
    /\ backlog' = Append(backlog, c)
    /\ door' = "awake"
    /\ UNCHANGED <<scene, enb, stack, tasks, skipped, closed>>

Send(c) ==
    /\ cl[c].at # "none" /\ ~cl[c].end /\ cl[c].sent < Units
    /\ Set(c, [cl[c] EXCEPT !.sent = @ + 1, !.job = Woken(cl[c])])
    /\ UNCHANGED <<scene, backlog, door, enb, stack, tasks, skipped, closed>>

Hangup(c) ==
    /\ cl[c].at # "none" /\ ~cl[c].end
    /\ Set(c, [cl[c] EXCEPT !.end = TRUE, !.job = Woken(cl[c])])
    /\ UNCHANGED <<scene, backlog, door, enb, stack, tasks, skipped, closed>>

-----------------------------------------------------------------------------
(* Tasks of the loop.  They run when no handler does, or when the          *)
(* innermost one waits and turns the loop itself.                          *)

Unread(c) == cl[c].sent - cl[c].got

CanRun == stack # <<>> => Unread(Top.c) = 0 /\ ~cl[Top.c].end

BadAcceptFull ==
    /\ door = "awake" /\ enb > MaxBatch /\ CanRun
    /\ door' = "resting"
    /\ UNCHANGED <<scene, cl, backlog, enb, stack, tasks, skipped, closed>>

\* As many as can be wait already.  The accepting task stays awake: its
\* socket is not marked as waiting, the last accept() having succeeded.
AcceptFull ==
    /\ door = "awake" /\ enb > MaxBatch /\ CanRun
    /\ UNCHANGED vars

AcceptNone ==
    /\ door = "awake" /\ enb <= MaxBatch /\ backlog = <<>> /\ CanRun
    /\ door' = "resting"
    /\ UNCHANGED <<scene, cl, backlog, enb, stack, tasks, skipped, closed>>

\* The promise of stream::readable() puts its executor into the loop.
Accept ==
    /\ door = "awake" /\ enb <= MaxBatch /\ backlog # <<>> /\ CanRun
    /\ Set(Head(backlog), [cl[Head(backlog)] EXCEPT !.at = "new"])
    /\ backlog' = Tail(backlog)
    /\ enb' = enb + 1
    /\ UNCHANGED <<scene, door, stack, tasks, skipped, closed>>

\* The executor polls the client's socket.
Register(c) ==
    /\ cl[c].at = "new" /\ CanRun
    /\ Set(c, [cl[c] EXCEPT !.at = "reading", !.job = "awake"])
    /\ UNCHANGED <<scene, backlog, door, enb, stack, tasks, skipped, closed>>

Leaves(c, d) == [d EXCEPT !.at = "done", !.job = "off"]

\* onConnect.emit( cli ) for client d.
Greets(d) == IF closed \/ skipped THEN d ELSE [d EXCEPT !.greeted = @ + 1]

Reads(c) == cl[c].at = "reading" /\ cl[c].job = "awake" /\ CanRun

\* Nothing, or only (part of) the hello: ssl_t::_connect().
ReadBlocks(c) ==
    /\ Reads(c)
    /\ cl[c].sent <= Max({Hello, cl[c].got}) /\ ~cl[c].end
    /\ Set(c, [cl[c] EXCEPT !.got = cl[c].sent, !.job = "resting"])
    /\ UNCHANGED <<scene, backlog, door, enb, stack, tasks, skipped, closed>>

BadReadFails(c) ==
    /\ Reads(c)
    /\ cl[c].sent <= Max({Hello, cl[c].got}) /\ cl[c].end
    /\ Set(c, [Leaves(c, cl[c]) EXCEPT !.got = cl[c].sent, !.open = FALSE])
    /\ UNCHANGED <<scene, backlog, door, enb, stack, tasks, skipped, closed>>

\* It left before it said anything: the promise is rejected, and finally()
\* gives its place back.
ReadFails(c) ==
    /\ Reads(c)
    /\ cl[c].sent <= Max({Hello, cl[c].got}) /\ cl[c].end
    /\ Set(c, [Leaves(c, cl[c]) EXCEPT !.got = cl[c].sent, !.open = FALSE])
    /\ enb' = enb - 1
    /\ UNCHANGED <<scene, backlog, door, stack, tasks, skipped, closed>>

\* onSocket.emit() while its listener is under way for another client does
\* nothing (event.h 110), and neither does it once the server is closed.
Busy == \E i \in DOMAIN stack : stack[i].stage = "hand"

Stage == IF scene.proto = "ws" /\ ~Busy /\ ~closed THEN "hand" ELSE "func"

\* The first bytes: the handlers are called, or the client is greeted.
ReadFirst(c) ==
    LET d == [cl[c] EXCEPT !.got = cl[c].sent, !.job = "off",
                           !.hand = cl[c].sent - Hello]
    IN  /\ Reads(c)
        /\ cl[c].sent > Max({Hello, cl[c].got})
        /\ IF scene.proto = "tcp"
           THEN /\ Set(c, Greets(Leaves(c, d)))
                /\ enb' = enb - 1
                /\ UNCHANGED stack
           ELSE /\ Set(c, [d EXCEPT !.at = "handling"])
                /\ stack' = Append(stack, [c |-> c, stage |-> Stage, first |-> d.hand])
                /\ UNCHANGED enb
        /\ UNCHANGED <<scene, backlog, door, tasks, skipped, closed>>

\* The task of an upgraded client.
Upgrade(c) ==
    /\ c \in tasks /\ CanRun
    /\ tasks' = tasks \ {c}
    /\ skipped' = FALSE
    /\ Set(c, [cl[c] EXCEPT !.open = TRUE, !.greeted = IF closed THEN @ ELSE @ + 1])
    /\ UNCHANGED <<scene, backlog, door, enb, stack, closed>>

\* tcp_t::free(): the listeners go, the accepting task stays.
CloseServer ==
    /\ ~closed /\ CanRun
    /\ closed' = TRUE
    /\ UNCHANGED <<scene, cl, backlog, door, enb, stack, tasks, skipped>>

-----------------------------------------------------------------------------
(* The innermost handler.  http_t::read_header() ends with the headers,    *)
(* at once if the first line is not HTTP's, and when the client hangs up.  *)

Over(d) == ~d.open \/ d.hand >= 2 \/ d.speech = "bad" \/ (d.end /\ d.sent = d.got)

ReadMore ==
    /\ stack # <<>> /\ ~Over(cl[Top.c]) /\ Unread(Top.c) > 0
    /\ Set(Top.c, [cl[Top.c] EXCEPT !.got = @ + Unread(Top.c), !.hand = @ + Unread(Top.c)])
    /\ UNCHANGED <<scene, backlog, door, enb, stack, tasks, skipped, closed>>

ToFunc == stack' = [stack EXCEPT ![Len(stack)].stage = "func"]

\* generator::ws::server(): the 101 is written, the socket stopped.
HandUpgrades ==
    /\ stack # <<>> /\ Top.stage = "hand" /\ Over(cl[Top.c])
    /\ cl[Top.c].hand >= 2 /\ cl[Top.c].speech = "ws"
    /\ Set(Top.c, [cl[Top.c] EXCEPT !.upgraded = TRUE, !.open = FALSE])
    /\ tasks' = tasks \cup {Top.c}
    /\ ToFunc
    /\ UNCHANGED <<scene, backlog, door, enb, skipped, closed>>

\* Not one to upgrade: what the first read brought is given back, and
\* onConnect is not to be emitted.
HandDeclines ==
    /\ stack # <<>> /\ Top.stage = "hand" /\ Over(cl[Top.c])
    /\ ~(cl[Top.c].hand >= 2 /\ cl[Top.c].speech = "ws")
    /\ Set(Top.c, [cl[Top.c] EXCEPT !.hand = Top.first])
    /\ skipped' = TRUE
    /\ ToFunc
    /\ UNCHANGED <<scene, backlog, door, enb, tasks, closed>>

\* What http::server() and then the listener of the promise do with client
\* d once its header is over.
BadHandled(d) ==
    IF d.upgraded THEN d
    ELSE IF d.speech = "bad" \/ ~d.open THEN Greets([d EXCEPT !.open = FALSE])
    ELSE Greets([d EXCEPT !.called = @ + 1])

Handled(d) ==
    IF d.upgraded THEN d
    ELSE IF d.speech = "bad" \/ ~d.open THEN [d EXCEPT !.open = FALSE]
    ELSE Greets([d EXCEPT !.called = @ + 1])

FuncEnds ==
    /\ stack # <<>> /\ Top.stage = "func" /\ Over(cl[Top.c])
    /\ Set(Top.c, Leaves(Top.c, Handled(cl[Top.c])))
    /\ Pop
    /\ enb' = enb - 1
    /\ UNCHANGED <<scene, backlog, door, tasks, skipped, closed>>

-----------------------------------------------------------------------------

Handler == ReadMore \/ HandUpgrades \/ HandDeclines \/ FuncEnds

Door == AcceptFull \/ AcceptNone \/ Accept

Task(c) == Register(c) \/ ReadBlocks(c) \/ ReadFails(c) \/ ReadFirst(c) \/ Upgrade(c)

Next ==
    \/ Handler \/ Door \/ CloseServer
    \/ \E c \in Clients : Connect(c) \/ Send(c) \/ Hangup(c) \/ Task(c)

Spec == Init /\ [][Next]_vars

\* A handler goes on; tasks that stay in the loop are run again (Loop), as
\* often as the loop is turned; every client says all it has to, or leaves.
\* Each client needs finitely many steps, so one condition for all will do.
Fairness ==
    /\ WF_vars(Handler) /\ SF_vars(Door) /\ SF_vars(\E c \in Clients : Task(c))
    /\ WF_vars(\E c \in Clients : Send(c) \/ Hangup(c))

FairSpec == Spec /\ Fairness

-----------------------------------------------------------------------------
(* Properties.                                                             *)

Client == [speech: SPEECHES, sent: 0..Units, end: BOOLEAN, got: 0..Units, hand: 0..Units,
           at: {"none", "backlog", "new", "reading", "handling", "done"},
           job: {"off", "awake", "resting"}, open: BOOLEAN,
           upgraded: BOOLEAN, called: 0..2, greeted: 0..2]

TypeOK ==
    /\ scene \in Scenes
    /\ cl \in [Clients -> Client]
    /\ backlog \in Seq(Clients) /\ door \in {"awake", "resting"} /\ enb \in Nat
    /\ tasks \subseteq Clients /\ skipped \in BOOLEAN /\ closed \in BOOLEAN

\* Every accepted client has one place until it is done with, whether it
\* spoke, failed or left, and there are never more than the limit and one.
SlotsExact ==
    /\ enb = Cardinality({c \in Clients : cl[c].at \in {"new", "reading", "handling"}})
    /\ enb <= MaxBatch + 1

\* A client is handled and greeted at most once, and exactly when it should:
\* of a server that is open, those that said what they had to say.
GreetedOnce ==
    \A c \in Clients :
        LET d == cl[c] IN
        /\ d.called <= 1 /\ d.greeted <= 1
        /\ d.at = "done" /\ ~closed =>
             CASE scene.proto = "tcp"  -> d.greeted = 1 <=> d.hand > 0
               [] scene.proto = "http" ->
                    /\ d.called = 1 <=> d.hand > 0 /\ d.speech # "bad"
                    /\ d.greeted = d.called
               [] scene.proto = "ws"   -> d.greeted = 1 => d.upgraded

\* A client that connects is done with at last.
Answered == \A c \in Clients : cl[c].at = "backlog" ~> cl[c].at = "done"
=============================================================================
