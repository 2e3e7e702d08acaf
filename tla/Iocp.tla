--------------------------------- MODULE Iocp ---------------------------------
(***************************************************************************)
(* kernel_t on the completion ports of Windows: windows/iocp.h, the turn   *)
(* of windows/kernel.h 13-247 around it, and the operations of             *)
(* windows/socket.h and windows/file.h that go through it.                 *)
(*                                                                         *)
(* A descriptor has a node in iocp_t::que (its pd) with two halves, each   *)
(* of which has at most one operation under way.  Whatever an operation    *)
(* came to is taken by the next call for the same half; the packet that    *)
(* the port delivers only says whom to call, by the key the descriptor was *)
(* associated with.  poll_add hands over the pd by value before the node   *)
(* is made, so a descriptor nothing was read from or written to before has *)
(* the key 0, which names nobody.                                          *)
(*                                                                         *)
(* Chunks, results and kinds are those of Rings.  Left out: the timeouts   *)
(* of sockets, descriptors that are given again, file offsets, and the     *)
(* memory of an operation that free() gives back while the system still    *)
(* writes to it.                                                           *)
(***************************************************************************)
EXTENDS Integers, Sequences, FiniteSetsExt, SequencesExt

CONSTANTS Fds, Scenes, Nil, MaxIn, MaxOut, Room,
          MaxWakes      \* bound on the packets with key 0 that are told apart

VARIABLES
    kind, sock,     \* the descriptors and what the network did to them
    key,            \* the key of a descriptor at the port: none, zero or own
    nodes,          \* que: the descriptors that have a node
    flight,         \* halves the system works on
    packets, batch, \* at the port; taken from it and still to be delivered
    order, act,     \* kv_queue: the polled descriptors, the cursor
    jobs,           \* polled descriptors that are USED, each by one coroutine
    spin,           \* descriptors polled by a plain task
    chores, dead,   \* other tasks of ev_queue; one that is not reaped yet
    phase           \* where in process::next() the thread is

sockVars == <<kind, sock, nodes, flight>>
portVars == <<key, packets, batch>>
kvVars   == <<order, act>>
loopVars == <<jobs, spin, chores, dead>>
vars     == <<sockVars, portVars, kvVars, loopVars, phase>>

KvQueue == INSTANCE CursorList WITH Nodes <- Fds, line <- order, cursor <- act

Polled == KvQueue!Members
InUse  == {f \in Fds : kind[f] # "none"}

FreeHalf == [mode |-> "free", res |-> 0]

Fresh == [in |-> <<>>, came |-> 0, end |-> "no", cut |-> FALSE,
          room |-> Room, out |-> <<>>, todo |-> 1, taken |-> <<>>,
          waiting |-> FALSE, open |-> TRUE,
          half |-> [read |-> FreeHalf, write |-> FreeHalf]]

None == [own |-> {}, zero |-> 0]

Init ==
    /\ kind \in Scenes
    /\ sock = [f \in Fds |-> [Fresh EXCEPT !.open = f \in InUse]]
    /\ key = [f \in Fds |-> "none"] /\ nodes = {} /\ flight = {}
    /\ packets = None /\ batch = None
    /\ order = <<>> /\ act = Nil
    /\ jobs = {} /\ spin = {} /\ chores = 1 /\ dead = FALSE
    /\ phase = "look"

-----------------------------------------------------------------------------
(* The system calls: as in Rings, but a failure that is found at once, or  *)
(* that an operation ends with, is read as a count of zero, unless the     *)
(* operation is to accept or to connect.                                   *)

Connects(k, d) == k = "client" /\ d.taken = <<>>

Accepts(k) == k \in {"server", "calm"}

HalfToRead(k, d) == IF Accepts(k) \/ Connects(k, d) THEN "write" ELSE "read"

Yields(k, d, h) == h = HalfToRead(k, d)

Failure(k, d) == IF Accepts(k) \/ Connects(k, d) THEN -1 ELSE 0

Fails(k, d, h) ==
    IF Yields(k, d, h) THEN d.in = <<>> /\ d.end = "rst" ELSE d.cut

Outcome(k, d, h) ==
    IF Fails(k, d, h) THEN Failure(k, d)
    ELSE IF Yields(k, d, h)
         THEN IF d.in # <<>> THEN Head(d.in) ELSE IF d.end = "fin" THEN 0 ELSE -2
         ELSE IF d.room > 0 THEN d.todo ELSE -2

Done(k, d, h) ==
    LET c == Outcome(k, d, h) IN
    CASE c <= 0          -> d
      [] Yields(k, d, h) -> [d EXCEPT !.in = Tail(@)]
      [] OTHER           -> [d EXCEPT !.room = @ - 1, !.out = Append(@, c)]

-----------------------------------------------------------------------------
(* One call of iocp_t.  s: the socket d, its kind k, the halves the system *)
(* has in work (q), whether a packet was posted (p), what GetLastError()   *)
(* would say (e) and the result (c).                                       *)

Answer(s, c) == [s EXCEPT !.c = c]

\* The call is made.  is_blocked() looks at the last error whether the call
\* failed or not, so one that succeeded under a stale error is taken for one
\* that is pending; the system posts a packet for it all the same.
Tries(s, h) ==
    LET c    == Outcome(s.k, s.d, h)
        done == [s EXCEPT !.d = Done(s.k, s.d, h), !.p = TRUE]
    IN  CASE c = -2 ->
               Answer([s EXCEPT !.d.half[h].mode = "used", !.q = @ \cup {h},
                                !.e = "again"], -2)
          [] Fails(s.k, s.d, h) -> Answer([s EXCEPT !.e = "other"], c)
          [] s.e = "again" ->
               Answer([done EXCEPT !.d.half[h] = [mode |-> "done", res |-> c]], -2)
          [] OTHER -> Answer(done, c)

\* io_consumer(): the result, once.
Consumer(s, h) ==
    IF s.d.half[h].mode = "done"
    THEN Answer([s EXCEPT !.d.half[h] = FreeHalf], s.d.half[h].res)
    ELSE Answer(s, -2)

Call(s, h) == IF s.d.half[h].mode = "free" THEN Tries(s, h) ELSE Consumer(s, h)

Read(s)     == Call(s, "read")
Write(s)    == Call(s, "write")
Recv(s)     == Call(s, "read")
Send(s)     == Call(s, "write")
RecvFrom(s) == Call(s, "read")
SendTo(s)   == Call(s, "write")
Accept(s)   == Call(s, "write")
Connect(s)  == Call(s, "write")

\* A closed socket fails; every call leaves in WAITING whether it blocked.
Marked(s, t) == IF ~s.d.open THEN Answer(s, -1) ELSE [t EXCEPT !.d.waiting = t.c = -2]

SocketRead(s)  == Marked(s, IF s.k = "dgram" THEN RecvFrom(s) ELSE Recv(s))
SocketWrite(s) == Marked(s, IF s.k = "dgram" THEN SendTo(s) ELSE Send(s))
FileRead(s)    == Marked(s, Read(s))
FileWrite(s)   == Marked(s, Write(s))
SockAccept(s)  == Marked(s, Accept(s))
SockConnect(s) == Marked(s, Connect(s))

Receives(s) ==
    CASE s.k = "pipe"   -> FileRead(s)
      [] Accepts(s.k)   -> SockAccept(s)
      [] OTHER          -> SocketRead(s)

Sends(s) == IF s.k = "pipe" THEN FileWrite(s) ELSE SocketWrite(s)

-----------------------------------------------------------------------------
(* The listeners: one that takes whatever there is and one that writes.    *)

Closed(s) == [s EXCEPT !.d.open = FALSE]

Took(s) == IF s.c > 0 THEN [s EXCEPT !.d.taken = Append(@, s.c)]
           ELSE IF s.c = -2 THEN s ELSE Closed(s)

Taking(s) ==
    LET t[i \in 0..(MaxIn + 1)] ==
            IF i = 0 THEN Answer(s, 1)
            ELSE IF t[i - 1].c > 0 THEN Took(Receives(t[i - 1])) ELSE t[i - 1]
    IN  t[MaxIn + 1]

Gave(s) == IF s.c > 0 THEN [s EXCEPT !.d.todo = @ + 1]
           ELSE IF s.c = -2 THEN s ELSE Closed(s)

Giving(s) ==
    LET t[i \in 0..MaxOut] ==
            IF i = 0 THEN Answer(s, 1)
            ELSE IF t[i - 1].c > 0 /\ t[i - 1].d.todo <= MaxOut
                 THEN Gave(Sends(t[i - 1])) ELSE t[i - 1]
    IN  t[MaxOut]

Writes(k) == k \in {"stream", "dgram", "pipe"}

\* The last error is what some call of the thread left, here or elsewhere.
Errors == {"again", "other"}

Started(f, e) == [k |-> kind[f], d |-> sock[f], q |-> {}, p |-> FALSE, e |-> e, c |-> 0]

Emission(f, e) ==
    LET t == Taking(Started(f, e)) IN IF Writes(t.k) /\ t.d.open THEN Giving(t) ELSE t

\* wake(): a packet with key 0.
Woken(p) == [p EXCEPT !.zero = IF @ < MaxWakes THEN @ + 1 ELSE @]

\* The packet for an operation of f.
Posted(p, f) == CASE key[f] = "own"  -> [p EXCEPT !.own = @ \cup {f}]
                  [] key[f] = "zero" -> Woken(p)
                  [] OTHER           -> p

\* The sockets, the work of the system and the port after call t.
After(f, t) ==
    /\ sock' = [sock EXCEPT ![f] = t.d]
    /\ flight' = flight \cup {[f |-> f, h |-> h] : h \in t.q}
    /\ packets' = IF t.p THEN Posted(packets, f) ELSE packets
    /\ nodes' = nodes \cup {f}

\* kv.callback()
Verdict(d) == IF ~d.open THEN -1 ELSE IF d.waiting THEN 0 ELSE 1

-----------------------------------------------------------------------------
(* The network and the system.                                             *)

Outside == UNCHANGED <<kind, nodes, key, batch, kvVars, loopVars, phase>>

Arrive(f) ==
    /\ f \in InUse /\ sock[f].came < MaxIn /\ sock[f].end = "no"
    /\ sock' = [sock EXCEPT ![f].came = @ + 1, ![f].in = Append(@, sock[f].came + 1)]
    /\ UNCHANGED <<flight, packets>> /\ Outside

PeerEnds(f) ==
    /\ f \in InUse /\ kind[f] # "calm" /\ sock[f].end = "no"
    /\ \/ sock' = [sock EXCEPT ![f].end = "fin"]
       \/ sock' = [sock EXCEPT ![f].end = "rst", ![f].cut = TRUE, ![f].in = <<>>]
    /\ UNCHANGED <<flight, packets>> /\ Outside

PeerReads(f) ==
    /\ Writes(kind[f]) /\ sock[f].room < Room
    /\ sock' = [sock EXCEPT ![f].room = @ + 1]
    /\ UNCHANGED <<flight, packets>> /\ Outside

\* An operation ends: its result is in the OVERLAPPED, and a packet with the
\* key of its descriptor at the port.
Complete(o) ==
    LET d == sock[o.f]
        c == Outcome(kind[o.f], d, o.h)
    IN  /\ o \in flight /\ c # -2
        /\ flight' = flight \ {o}
        /\ sock' = [sock EXCEPT ![o.f] =
              [Done(kind[o.f], d, o.h) EXCEPT !.half[o.h] = [mode |-> "done", res |-> c]]]
        /\ packets' = Posted(packets, o.f)
        /\ Outside

System == \/ \E f \in Fds : Arrive(f) \/ PeerEnds(f) \/ PeerReads(f)
          \/ \E o \in flight : Complete(o)

-----------------------------------------------------------------------------
(* The poll entries.                                                       *)

Cursor == IF act = Nil THEN order[1] ELSE act

\* The entry holds the last handle of a socket that was closed: with it the
\* node goes and what the system still had in work is cancelled.
RemoveEntry(f, c) ==
    /\ order' = KvQueue!Drop(f)
    /\ act' = IF c # f THEN c ELSE IF Len(order) = 1 THEN Nil ELSE KvQueue!After(f)

Freed(f, at, fl, p) ==
    /\ nodes' = nodes \ {f}
    /\ flight' = {o \in fl : o.f # f}
    /\ packets' = IF \E o \in fl : o.f = f THEN Posted(p, f) ELSE p
    /\ sock' = at

\* invoker( nullptr )
LookNone == order = <<>> /\ UNCHANGED <<sock, nodes, flight, packets, kvVars>>

LookDrop ==
    /\ order # <<>> /\ Cursor \notin jobs /\ Verdict(sock[Cursor]) = -1
    /\ RemoveEntry(Cursor, Cursor)
    /\ Freed(Cursor, sock, flight, packets)

LookSkip ==
    /\ order # <<>> /\ Cursor \in jobs
    /\ act' = KvQueue!After(Cursor)
    /\ UNCHANGED <<sock, nodes, flight, packets, order>>

LookEmit ==
    /\ order # <<>> /\ Cursor \notin jobs /\ Verdict(sock[Cursor]) # -1
    /\ \E e \in Errors : After(Cursor, Emission(Cursor, e))
    /\ act' = KvQueue!After(Cursor)
    /\ UNCHANGED order

Look == LookNone \/ LookDrop \/ LookSkip \/ LookEmit

Turn ==
    /\ phase = "look"
    /\ order # <<>> \/ jobs # {} \/ spin # {} \/ chores > 0 \/ dead
    /\ Look
    /\ phase' = "loop"
    /\ UNCHANGED <<kind, key, batch, loopVars>>

-----------------------------------------------------------------------------
(* ev_queue.next(): one task is run or reaped; what it returns decides     *)
(* whether this turn reaches the port.                                     *)

AfterLoop == phase' \in {"look", "wait"}

Tasks == jobs # {} \/ spin # {} \/ chores > 0 \/ dead

LoopIdle ==
    /\ phase = "loop" /\ ~dead /\ jobs = {} /\ spin = {}
    /\ phase' = "wait"
    /\ UNCHANGED <<sockVars, portVars, kvVars, loopVars>>

Reap ==
    /\ phase = "loop" /\ dead
    /\ dead' \in BOOLEAN
    /\ phase' = "look"
    /\ UNCHANGED <<sockVars, portVars, kvVars, jobs, spin, chores>>

\* The coroutine of invoker( f ).
JobEmit(f, t) ==
    LET v == Verdict(t.d) IN
    /\ IF v = -1
       THEN /\ RemoveEntry(f, act)
            /\ Freed(f, [sock EXCEPT ![f] = t.d],
                     flight \cup {[f |-> f, h |-> h] : h \in t.q}, packets)
       ELSE After(f, t) /\ UNCHANGED kvVars
    /\ jobs' = IF v = 1 THEN jobs ELSE jobs \ {f}
    /\ dead' = (dead \/ v # 1)

JobOrphan(f) ==
    /\ jobs' = jobs \ {f} /\ dead' = TRUE
    /\ UNCHANGED <<sock, nodes, flight, packets, kvVars>>

RunJob(f) ==
    /\ phase = "loop" /\ f \in jobs
    /\ IF f \in Polled THEN \E e \in Errors : JobEmit(f, Emission(f, e)) ELSE JobOrphan(f)
    /\ AfterLoop
    /\ UNCHANGED <<kind, key, batch, spin, chores>>

\* The listener as a plain task, run at every turn.
RunSpin(f) ==
    /\ phase = "loop" /\ f \in spin
    /\ \E e \in Errors : LET t == Emission(f, e) IN
          /\ After(f, t)
          /\ spin' = IF t.d.open THEN spin ELSE spin \ {f}
          /\ dead' = (dead \/ ~t.d.open)
    /\ AfterLoop
    /\ UNCHANGED <<kind, key, batch, kvVars, jobs, chores>>

-----------------------------------------------------------------------------
(* What the program does in a task of its own.                             *)

\* poll_add: a descriptor that is not at the port yet is associated with it
\* under the pd it has, and only then gets its node and its entry.
Associate(f) ==
    /\ key[f] = "none"
    /\ key' = [key EXCEPT ![f] = IF f \in nodes THEN "own" ELSE "zero"]
    /\ nodes' = nodes \cup {f}
    /\ order' = Append(order, f)
    /\ jobs' = jobs \cup {f}
    /\ packets' = Woken(packets)
    /\ UNCHANGED <<act, spin>>

\* A second association fails.
Fallback(f) ==
    /\ key[f] # "none"
    /\ spin' = spin \cup {f}
    /\ packets' = Woken(packets)
    /\ UNCHANGED <<key, nodes, kvVars, jobs>>

PollAdd(f) ==
    /\ f \in InUse \ (Polled \cup spin) /\ sock[f].open
    /\ ~Connects(kind[f], sock[f])
    /\ Associate(f) \/ Fallback(f)
    /\ UNCHANGED <<sock, flight>>

\* tcp_t::connect(): tried at every turn until it is connected.
Connecting(f) ==
    /\ Connects(kind[f], sock[f]) /\ sock[f].open
    /\ \E e \in Errors : After(f, Took(SockConnect(Started(f, e))))
    /\ UNCHANGED <<key, kvVars, jobs, spin>>

\* clear( address ): the entry goes, the node stays.
Off(f) ==
    /\ f \in Polled /\ kind[f] # "calm" /\ sock[f].open
    /\ RemoveEntry(f, act)
    /\ UNCHANGED <<sock, nodes, flight, packets, key, jobs, spin>>

Close(f) ==
    /\ f \in Polled /\ kind[f] # "calm" /\ sock[f].open
    /\ sock' = [sock EXCEPT ![f].open = FALSE]
    /\ UNCHANGED <<nodes, flight, packets, key, kvVars, jobs, spin>>

RunChore ==
    /\ phase = "loop" /\ chores > 0
    /\ \E f \in Fds : PollAdd(f) \/ Connecting(f) \/ Off(f) \/ Close(f)
    /\ AfterLoop
    /\ UNCHANGED <<kind, batch, chores, dead>>

EndChore ==
    /\ phase = "loop" /\ chores > 0
    /\ \A f \in InUse : sock[f].open => f \in Polled \cup spin
    /\ chores' = chores - 1 /\ dead' = TRUE
    /\ AfterLoop
    /\ UNCHANGED <<sockVars, portVars, kvVars, jobs, spin>>

-----------------------------------------------------------------------------
(* iocp_t::next() and the packets.                                         *)

Ready == jobs # {} \/ spin # {} \/ dead

Asleep == phase = "wait" /\ packets = None /\ ~Tasks

Wait ==
    /\ phase = "wait" /\ (packets # None \/ Tasks)
    /\ batch' = packets /\ packets' = None
    /\ phase' = "deliver"
    /\ UNCHANGED <<sockVars, key, kvVars, loopVars>>

\* invoker( address ): one coroutine for an entry that has none.
Invoked(f) ==
    /\ jobs' = jobs \cup {f}
    /\ packets' = IF f \in jobs THEN packets ELSE Woken(packets)
    /\ UNCHANGED <<sock, nodes, flight, kvVars>>

DeliverOwn(f) ==
    /\ phase = "deliver" /\ f \in batch.own
    /\ IF f \in Polled THEN Invoked(f) ELSE Look /\ UNCHANGED jobs
    /\ batch' = [batch EXCEPT !.own = @ \ {f}]
    /\ UNCHANGED <<kind, key, spin, chores, dead, phase>>

DeliverZero ==
    /\ phase = "deliver" /\ batch.zero > 0
    /\ Look
    /\ batch' = [batch EXCEPT !.zero = @ - 1]
    /\ UNCHANGED <<kind, key, loopVars, phase>>

Delivered ==
    /\ phase = "deliver" /\ batch = None
    /\ phase' = "look"
    /\ UNCHANGED <<sockVars, portVars, kvVars, loopVars>>

Thread ==
    \/ Turn \/ LoopIdle \/ Reap \/ RunChore \/ EndChore
    \/ \E f \in Fds : RunJob(f) \/ RunSpin(f) \/ DeliverOwn(f)
    \/ Wait \/ DeliverZero \/ Delivered

Next == Thread \/ System

MayMove == ~Asleep /\ (phase = "look" => order # <<>> \/ Tasks)

-----------------------------------------------------------------------------
(* Properties, which MCRings states together with those of Rings.          *)

Upto(n) == [i \in 1..n |-> i]

\* What a finished operation of half h holds that was not asked for yet.
Held(f, h) == IF sock[f].half[h].mode = "done" /\ sock[f].half[h].res > 0
              THEN <<sock[f].half[h].res>> ELSE <<>>

\* Nothing is lost, doubled or out of order between the peer and the
\* program, whatever ended at once and whatever the port announced.
Exact ==
    \A f \in Fds :
        LET d == sock[f] IN
        /\ d.taken = Upto(Len(d.taken)) /\ d.out = Upto(Len(d.out))
        /\ d.open /\ ~d.cut =>
             /\ d.taken \o Held(f, HalfToRead(kind[f], d)) \o d.in = Upto(d.came)
             /\ Writes(kind[f]) => Len(d.out) = d.todo - 1 + Len(Held(f, "write"))

Quiet(f) == sock[f].open /\ ~sock[f].cut

\* A descriptor with the key 0 is only looked at when the cursor comes by,
\* twice for every packet: two of them are served, three might not be.
Announced(f) == key[f] = "own" \/ Len(order) <= 2

\* When the thread sleeps, every announced descriptor has what it waits for
\* with the system.
NoneForgotten ==
    Asleep =>
        \A f \in Polled : Quiet(f) /\ Announced(f) =>
             /\ \A h \in {"read", "write"} : sock[f].half[h].mode # "done"
             /\ [f |-> f, h |-> HalfToRead(kind[f], sock[f])] \in flight
             /\ Writes(kind[f]) /\ sock[f].todo <= MaxOut => [f |-> f, h |-> "write"] \in flight
=============================================================================
