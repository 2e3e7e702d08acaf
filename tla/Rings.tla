-------------------------------- MODULE Rings --------------------------------
(***************************************************************************)
(* kernel_t on io_uring, the default on Linux: the rings of posix/uring.h  *)
(* (submit, complete, consume), the turn of posix/kernel.h 13-243 around   *)
(* them, and the operations of socket.h and file.h that go through them.   *)
(*                                                                         *)
(* A socket has a node in uring_t::que with two halves; each half has at   *)
(* most one operation under way and remembers what it came to until the    *)
(* program asks again.  The operating system completes operations between  *)
(* any two steps of the thread.                                            *)
(*                                                                         *)
(* Nothing cancels an operation.  What it names outlives its socket: the   *)
(* descriptor number, which the system looks at when it takes the          *)
(* operation, and the address of the node (its pd), where the result goes. *)
(* Both may be another socket's by then.                                   *)
(*                                                                         *)
(* Data is counted in chunks, numbered in the order they were sent.  The   *)
(* results are those of the code: -2 would block, -1 failed, 0 the end,    *)
(* n > 0 chunk n.  A socket keeps at most one poll entry here and its      *)
(* listeners are those of one kind; Kernel has entries that come and go,   *)
(* and the same invoker, on epoll.                                         *)
(*                                                                         *)
(* Operators whose name starts with Bad are the definition that follows    *)
(* them with one plausible mistake in it; no specification uses them.      *)
(***************************************************************************)
EXTENDS Integers, Sequences, FiniteSetsExt, SequencesExt

CONSTANTS
    Fds,            \* descriptors
    Scenes,         \* which kind each of them is of
    Nil,
    Entries,        \* NODEPP_MAX_BATCH_SIZE, the length of the submission ring
    MaxIn,          \* bound on the chunks a peer sends
    MaxOut,         \* bound on the chunks the program writes
    Room,           \* chunks a send buffer holds
    MaxLives,       \* bound on the sockets that get one descriptor number
    Reopened,       \* bound: the kinds of which a number is given again
    Addresses,      \* where nodes may lie
    Balks           \* TRUE: io_uring_enter may take less than it is given

\* stream, dgram  connected socket, datagram socket: read and written
\* pipe           file_t: read and written
\* server         accepts
\* client         connects, then reads
\* calm           a server whose peers do not end, and which stays open
\* none           not in use
KINDS == {"stream", "dgram", "pipe", "server", "client", "calm", "none"}

ASSUME RingsAssumption ==
    /\ Scenes \subseteq [Fds -> KINDS] /\ Scenes # {}
    /\ Entries \in Nat \ {0} /\ Room \in Nat \ {0} /\ MaxLives \in Nat \ {0}
    /\ MaxIn \in Nat /\ MaxOut \in Nat /\ Reopened \subseteq KINDS
    /\ Fds \subseteq Addresses /\ Nil \notin Addresses
    /\ Balks \in BOOLEAN

VARIABLES
    kind,           \* what each descriptor is
    sock,           \* the sockets, with what the network did to them
    life,           \* which socket a descriptor number stands for
    node,           \* the address of its node, Nil if it has none
    heirs,          \* sockets that an operation of another one was done on
                    \* or had its result: history, no step depends on it
    sque,           \* operations the program asked for
    ring,           \* the submission ring: written, not taken by the system
    flight,         \* operations the system works on
    cq,             \* the completion ring
    borrow,         \* poll entries to call
    bell,           \* the eventfd is not zero
    errno,          \* "again" if the last error of the thread is one that
                    \* means "blocked", "other" if not
    order, act,     \* kv_queue: the polled descriptors, the cursor
    jobs,           \* polled descriptors that are USED, each by one coroutine
    chores, dead,   \* other tasks of ev_queue; one that is not reaped yet
    phase           \* where in process::next() the thread is

nameVars == <<life, node, heirs>>
netVars  == <<kind, sock, nameVars>>
ringVars == <<sque, ring, flight, cq, borrow>>
kvVars   == <<order, act>>
loopVars == <<jobs, chores, dead>>
vars == <<netVars, ringVars, bell, errno, kvVars, loopVars, phase>>

KvQueue == INSTANCE CursorList WITH Nodes <- Fds, line <- order, cursor <- act

Polled == KvQueue!Members

\* An operation: half h of the node at n, descriptor f, asked for by the
\* socket that f stood for.
Op(f, h) == [f |-> f, h |-> h, n |-> node[f], by |-> life[f]]

\* o was asked for by the socket that f stands for now.
Own(f, o) == o.f = f /\ o.by = life[f]

InUse == {f \in Fds : kind[f] # "none"}

FreeHalf == [mode |-> "free", res |-> 0]

Fresh == [in |-> <<>>, came |-> 0, end |-> "no", cut |-> FALSE,
          room |-> Room, out |-> <<>>, todo |-> 1, taken |-> <<>>,
          waiting |-> FALSE, open |-> TRUE,
          half |-> [read |-> FreeHalf, write |-> FreeHalf]]

Init ==
    /\ kind \in Scenes
    /\ sock = [f \in Fds |-> [Fresh EXCEPT !.open = f \in InUse]]
    /\ life = [f \in Fds |-> 1] /\ heirs = {}
    /\ node = [f \in Fds |-> IF f \in InUse THEN f ELSE Nil]
    /\ sque = <<>> /\ ring = <<>> /\ flight = {} /\ cq = <<>> /\ borrow = <<>>
    /\ bell = TRUE /\ errno = "other"
    /\ order = SetToSeq(InUse) /\ act = Nil
    /\ jobs = InUse /\ chores = 1 /\ dead = FALSE
    /\ phase = "look"

-----------------------------------------------------------------------------
(* The system calls.  accept() and connect() go through the half that      *)
(* sends, and yield what came in.                                          *)

InHalf(k) == IF k \in {"server", "calm", "client"} THEN "write" ELSE "read"

\* The client reads once it is connected.
HalfToRead(k, d) == IF k = "client" /\ d.taken # <<>> THEN "read" ELSE InHalf(k)

Yields(k, d, h) == h = HalfToRead(k, d)

\* What the call comes to on socket d now.
Outcome(k, d, h) ==
    IF Yields(k, d, h)
    THEN IF d.in # <<>> THEN Head(d.in)
         ELSE IF d.end = "fin" THEN 0 ELSE IF d.end = "rst" THEN -1 ELSE -2
    ELSE IF d.cut THEN -1 ELSE IF d.room > 0 THEN d.todo ELSE -2

\* An error is reported once; what follows it is the end of the stream.
Done(k, d, h) ==
    LET c == Outcome(k, d, h) IN
    IF Yields(k, d, h)
    THEN [d EXCEPT !.in = IF c > 0 THEN Tail(@) ELSE @,
                   !.end = IF c = -1 THEN "fin" ELSE @]
    ELSE IF c > 0 THEN [d EXCEPT !.room = @ - 1, !.out = Append(@, c)] ELSE d

\* is_blocked(): a reset counts as blocked, a broken pipe does not.
Blocks(k, d, h) ==
    \/ Outcome(k, d, h) = -2
    \/ Yields(k, d, h) /\ Outcome(k, d, h) = -1

-----------------------------------------------------------------------------
(* One call of uring_t.  s: the socket d, its kind k, the halves it hands  *)
(* in (q), errno (e) and the result (c).                                   *)

Answer(s, c) == [s EXCEPT !.c = c]

\* The call is tried at once, and handed in when it would block.
Tries(s, h) ==
    LET done == [s EXCEPT !.d = Done(s.k, s.d, h)] IN
    IF Blocks(s.k, s.d, h)
    THEN Answer([done EXCEPT !.d.half[h].mode = "used",
                             !.q = Append(@, h), !.e = "again"], -2)
    ELSE Answer(IF Outcome(s.k, s.d, h) = -1 THEN [done EXCEPT !.e = "other"] ELSE done,
                Outcome(s.k, s.d, h))

\* io_consumer(): the result, once.  Whether an error is one of those that
\* mean "blocked" is read off errno, which belongs to some earlier call.
Consumer(s, h) ==
    IF s.d.half[h].mode = "done"
    THEN Answer([s EXCEPT !.d.half[h] = FreeHalf],
                IF s.d.half[h].res >= 0 THEN s.d.half[h].res
                ELSE IF s.e = "again" THEN -2 ELSE -1)
    ELSE Answer(s, -2)

Call(s, h) == IF s.d.half[h].mode = "free" THEN Tries(s, h) ELSE Consumer(s, h)

Read(s)     == Call(s, "read")
Write(s)    == Call(s, "write")
Recv(s)     == Call(s, "read")
Send(s)     == Call(s, "write")
RecvFrom(s) == Call(s, "read")
SendTo(s)   == Call(s, "write")
Accept(s)   == Call(s, "write")
Connect(s)  == Call(s, "write")

\* __read, __write, _accept and _connect: a closed socket fails, and every
\* call leaves in WAITING whether it blocked.
Marked(s, t) == IF ~s.d.open THEN Answer(s, -1)
                ELSE [t EXCEPT !.d.waiting = t.c = -2]

SocketRead(s)  == Marked(s, IF s.k = "dgram" THEN RecvFrom(s) ELSE Recv(s))
SocketWrite(s) == Marked(s, IF s.k = "dgram" THEN SendTo(s) ELSE Send(s))
FileRead(s)    == Marked(s, Read(s))
FileWrite(s)   == Marked(s, Write(s))

Receives(s) ==
    CASE s.k = "pipe"   -> FileRead(s)
      [] s.k \in {"server", "calm"} -> Marked(s, Accept(s))
      [] s.k = "client" /\ s.d.taken = <<>> -> Marked(s, Connect(s))
      [] OTHER          -> SocketRead(s)

Sends(s) == IF s.k = "pipe" THEN FileWrite(s) ELSE SocketWrite(s)

-----------------------------------------------------------------------------
(* The listeners of an entry: one that takes whatever there is, and one    *)
(* that writes.  A failure or the end closes the socket.                   *)

Took(s) ==
    CASE s.c > 0         -> [s EXCEPT !.d.taken = Append(@, s.c)]
      [] s.c \in {0, -1} -> [s EXCEPT !.d.open = FALSE]
      [] OTHER           -> s

Taking(s) ==
    LET t[i \in 0..(MaxIn + 2)] ==
            IF i = 0 THEN Answer(s, 1)
            ELSE IF t[i - 1].c > 0 THEN Took(Receives(t[i - 1])) ELSE t[i - 1]
    IN  t[MaxIn + 2]

Gave(s) ==
    CASE s.c > 0  -> [s EXCEPT !.d.todo = @ + 1]
      [] s.c = -1 -> [s EXCEPT !.d.open = FALSE]
      [] OTHER    -> s

Giving(s) ==
    LET t[i \in 0..MaxOut] ==
            IF i = 0 THEN Answer(s, 1)
            ELSE IF t[i - 1].c > 0 /\ t[i - 1].d.todo <= MaxOut
                 THEN Gave(Sends(t[i - 1])) ELSE t[i - 1]
    IN  t[MaxOut]

Writes(k) == k \in {"stream", "dgram", "pipe"}

\* event.emit() of the entry of f.
Emission(f) ==
    LET t == Taking([k |-> kind[f], d |-> sock[f], q |-> <<>>, e |-> errno, c |-> 0])
    IN  IF Writes(t.k) /\ t.d.open THEN Giving(t) ELSE t

\* The sockets, what was handed in and errno after it.
Emits(f) ==
    LET t == Emission(f) IN
    /\ sock' = [sock EXCEPT ![f] = t.d]
    /\ sque' = sque \o [i \in DOMAIN t.q |-> Op(f, t.q[i])]
    /\ errno' = t.e

\* kv.callback()
Verdict(d) == IF ~d.open THEN -1 ELSE IF d.waiting THEN 0 ELSE 1

-----------------------------------------------------------------------------
(* The network and the system.                                             *)

Arrive(f) ==
    /\ f \in InUse /\ sock[f].came < MaxIn /\ sock[f].end = "no"
    /\ sock' = [sock EXCEPT ![f].came = @ + 1, ![f].in = Append(@, sock[f].came + 1)]
    /\ UNCHANGED <<kind, nameVars, ringVars, bell, errno, kvVars, loopVars, phase>>

\* A reset throws away what was not read.
PeerEnds(f) ==
    /\ f \in InUse /\ kind[f] # "calm" /\ sock[f].end = "no"
    /\ \/ sock' = [sock EXCEPT ![f].end = "fin"]
       \/ sock' = [sock EXCEPT ![f].end = "rst", ![f].cut = TRUE, ![f].in = <<>>]
    /\ UNCHANGED <<kind, nameVars, ringVars, bell, errno, kvVars, loopVars, phase>>

PeerReads(f) ==
    /\ Writes(kind[f]) /\ sock[f].room < Room
    /\ sock' = [sock EXCEPT ![f].room = @ + 1]
    /\ UNCHANGED <<kind, nameVars, ringVars, bell, errno, kvVars, loopVars, phase>>

\* The socket that the system took the operation for is gone.
Gone(o) == o.on # life[o.f] \/ node[o.f] = Nil

\* The system completes an operation on the socket it was taken for.
Complete(o) ==
    LET d == sock[o.f]
        c == Outcome(kind[o.f], d, o.h)
    IN  /\ o \in flight
        /\ flight' = flight \ {o}
        /\ IF Gone(o)
           THEN /\ \E r \in {-1, 0, 1} : cq' = Append(cq, [o |-> o, res |-> r])
                /\ UNCHANGED <<sock, heirs>>
           ELSE /\ c # -2 /\ cq' = Append(cq, [o |-> o, res |-> c])
                /\ sock' = [sock EXCEPT ![o.f] = Done(kind[o.f], d, o.h)]
                /\ heirs' = IF Own(o.f, o) THEN heirs ELSE heirs \cup {o.f}
        /\ bell' = TRUE
        /\ UNCHANGED <<kind, life, node, sque, ring, borrow, errno, kvVars,
                       loopVars, phase>>

System == \/ \E f \in Fds : Arrive(f) \/ PeerEnds(f) \/ PeerReads(f)
          \/ \E o \in flight : Complete(o)

-----------------------------------------------------------------------------
(* The poll entries (kernel.h 43-60, 82-122).                              *)

Cursor == IF act = Nil THEN order[1] ELSE act

RemoveEntry(f, c) ==
    /\ order' = KvQueue!Drop(f)
    /\ act' = IF c # f THEN c ELSE IF Len(order) = 1 THEN Nil ELSE KvQueue!After(f)

\* invoker( nullptr )
LookNone == order = <<>> /\ UNCHANGED <<sock, sque, errno, kvVars>>

LookDrop ==
    /\ order # <<>> /\ Cursor \notin jobs /\ Verdict(sock[Cursor]) = -1
    /\ RemoveEntry(Cursor, Cursor)
    /\ UNCHANGED <<sock, sque, errno>>

LookSkip ==
    /\ order # <<>> /\ Cursor \in jobs
    /\ act' = KvQueue!After(Cursor)
    /\ UNCHANGED <<sock, sque, errno, order>>

LookEmit ==
    /\ order # <<>> /\ Cursor \notin jobs /\ Verdict(sock[Cursor]) # -1
    /\ Emits(Cursor)
    /\ act' = KvQueue!After(Cursor)
    /\ UNCHANGED order

Turn ==
    /\ phase = "look"
    /\ order # <<>> \/ jobs # {} \/ chores > 0 \/ dead
    /\ LookNone \/ LookDrop \/ LookSkip \/ LookEmit
    /\ phase' = "loop"
    /\ UNCHANGED <<kind, nameVars, ring, flight, cq, borrow, bell, loopVars>>

-----------------------------------------------------------------------------
(* ev_queue.next(): one task is run or reaped; what it returns decides     *)
(* whether this turn reaches the rings.                                    *)

AfterLoop == phase' \in {"look", "submit"}

Tasks == jobs # {} \/ chores > 0 \/ dead

LoopIdle ==
    /\ phase = "loop" /\ ~dead /\ jobs = {}
    /\ phase' = "submit"
    /\ UNCHANGED <<netVars, ringVars, bell, errno, kvVars, loopVars>>

Reap ==
    /\ phase = "loop" /\ dead
    /\ dead' \in BOOLEAN
    /\ phase' = "look"
    /\ UNCHANGED <<netVars, ringVars, bell, errno, kvVars, jobs, chores>>

\* The coroutine of invoker( f ).
RunJob(f) ==
    /\ phase = "loop" /\ f \in jobs
    /\ IF f \in Polled
       THEN /\ Emits(f)
            /\ LET v == Verdict(sock'[f]) IN
               /\ IF v = -1 THEN RemoveEntry(f, act) ELSE UNCHANGED kvVars
               /\ jobs' = IF v = 1 THEN jobs ELSE jobs \ {f}
               /\ dead' = (dead \/ v # 1)
       ELSE /\ jobs' = jobs \ {f} /\ dead' = TRUE
            /\ UNCHANGED <<sock, sque, errno, kvVars>>
    /\ AfterLoop
    /\ UNCHANGED <<kind, nameVars, ring, flight, cq, borrow, bell, chores>>

\* The program closes a socket,
Close(f) ==
    /\ sock[f].open /\ kind[f] # "calm"
    /\ sock' = [sock EXCEPT ![f].open = FALSE]
    /\ UNCHANGED <<nameVars, order, jobs, bell, errno>>

\* or opens and polls a new one, which gets the number of one that is gone.
\* Its node is made where no node is, be it where one was.
Reopen(f) ==
    /\ f \in InUse \ (Polled \cup jobs) /\ life[f] < MaxLives
    /\ kind[f] \in Reopened
    /\ \E a \in Addresses \ {node[g] : g \in Polled \cup jobs} :
          node' = [g \in Fds |-> IF g = f THEN a
                                 ELSE IF node[g] = a THEN Nil ELSE node[g]]
    /\ life' = [life EXCEPT ![f] = @ + 1]
    /\ heirs' = heirs \ {f}
    /\ sock' = [sock EXCEPT ![f] = Fresh]
    /\ order' = Append(order, f)
    /\ jobs' = jobs \cup {f} /\ bell' = TRUE
    /\ UNCHANGED errno

\* or a call of its own fails.
Fails ==
    /\ errno' = "other"
    /\ UNCHANGED <<sock, nameVars, order, jobs, bell>>

RunChore ==
    /\ phase = "loop" /\ chores > 0
    /\ Fails \/ \E f \in Fds : Close(f) \/ Reopen(f)
    /\ \/ UNCHANGED <<chores, dead>>
       \/ chores' = chores - 1 /\ dead' = TRUE
    /\ AfterLoop
    /\ UNCHANGED <<kind, ringVars, act>>

-----------------------------------------------------------------------------
(* uring_t::next()                                                         *)

\* io_submit(): as much of sque as the ring has room for is written to it;
\* what the system says it took, and no more, leaves sque.
Submit ==
    /\ phase = "submit"
    /\ LET z    == Min({Len(sque), Entries - Len(ring)})
           full == ring \o SubSeq(sque, 1, z)
       IN  \E x \in IF Balks THEN -1..z ELSE {z} :
             /\ ring' = SubSeq(full, Max({x, 0}) + 1, Len(full))
             /\ flight' = flight \cup
                  {full[i] @@ [on |-> life[full[i].f]] : i \in 1..x}
             /\ sque' = SubSeq(sque, Max({x, 0}) + 1, Len(sque))
    /\ phase' = "consume"
    /\ UNCHANGED <<netVars, cq, borrow, bell, errno, kvVars, loopVars>>

\* io_consume(): a result goes to the node at its address, if there is one;
\* the entry that polls the node is to be called.
BadAt(f, c) == c.o.f = f

At(f, c) == c.o.n = node[f]

TakeResults ==
    /\ sock' = [f \in Fds |-> [sock[f] EXCEPT !.half =
          [h \in {"read", "write"} |->
              LET rs == SelectSeq(cq, LAMBDA c : At(f, c) /\ c.o.h = h)
              IN  IF rs = <<>> THEN @[h] ELSE [mode |-> "done", res |-> Last(rs).res]]]]
    /\ heirs' = heirs \cup {f \in Fds : \E c \in ToSet(cq) :
                                c.o.n = node[f] /\ ~Own(f, c.o)}
    /\ cq' = <<>>

BadConsume == TakeResults /\ borrow' = borrow

Consume ==
    /\ TakeResults
    /\ LET due == SelectSeq(cq, LAMBDA c : \E f \in Polled : At(f, c))
       IN  borrow' = borrow \o [i \in DOMAIN due |->
                                   CHOOSE f \in Polled : At(f, due[i])]

BadConsumeFirst ==
    /\ phase = "consume"
    /\ phase' = "wait"
    /\ UNCHANGED <<netVars, ringVars, bell, errno, kvVars, loopVars>>

ConsumeFirst ==
    /\ phase = "consume"
    /\ Consume
    /\ phase' = "wait"
    /\ UNCHANGED <<kind, life, node, sque, ring, flight, bell, errno, kvVars, loopVars>>

\* poll() of the eventfd, when nothing is due and no task is ready: without
\* limit if no task is left, until a timer of one otherwise.
Ready == jobs # {} \/ dead

Asleep == phase = "wait" /\ borrow = <<>> /\ ~Tasks /\ ~bell

Wait ==
    /\ phase = "wait"
    /\ \/ (borrow # <<>> \/ Tasks) /\ phase' = "deliver"
       \/ borrow = <<>> /\ ~Ready /\ (bell \/ chores > 0) /\ phase' = "again"
    /\ UNCHANGED <<netVars, ringVars, bell, errno, kvVars, loopVars>>

ConsumeAgain ==
    /\ phase = "again"
    /\ Consume
    /\ phase' = "drain"
    /\ UNCHANGED <<kind, life, node, sque, ring, flight, bell, errno, kvVars, loopVars>>

Drain ==
    /\ phase = "drain"
    /\ bell' = FALSE
    /\ phase' = "deliver"
    /\ UNCHANGED <<netVars, ringVars, errno, kvVars, loopVars>>

\* invoker( address ) for each of io_queue(); loop_add rings the bell.
Deliver ==
    LET due == {f \in ToSet(borrow) : f \in Polled /\ f \notin jobs} IN
    /\ phase = "deliver"
    /\ jobs' = jobs \cup due
    /\ bell' = (bell \/ due # {})
    /\ borrow' = <<>>
    /\ phase' = "look"
    /\ UNCHANGED <<netVars, sque, ring, flight, cq, errno, kvVars, chores, dead>>

Thread ==
    \/ Turn \/ LoopIdle \/ Reap \/ RunChore \/ (\E f \in Fds : RunJob(f))
    \/ Submit \/ ConsumeFirst \/ Wait \/ ConsumeAgain \/ Drain \/ Deliver

Next == Thread \/ System

Spec == Init /\ [][Next]_vars

-----------------------------------------------------------------------------
(* Fairness: the thread goes on, a coroutine that stays in the loop is run *)
(* again, the front of the loop passes, so that the thread reaches the     *)
(* rings, and finished tasks are removed (Loop), the system completes what *)
(* it can of the sockets that live, a peer takes what it was sent.  The    *)
(* first two are WF_vars(Thread) and SF_vars(RunJob(f)) written out: what  *)
(* enables them is said by a cheap formula.                                *)

MayMove == ~Asleep /\ (phase = "look" => order # <<>> \/ Tasks)

Fairness ==
    /\ <>[]MayMove => []<><<Thread>>_vars
    /\ \A f \in Fds : []<>(phase = "loop" /\ f \in jobs) => []<><<RunJob(f)>>_vars
    /\ []<>(phase = "submit" \/ ~MayMove)
    /\ []<>(jobs # {} \/ ~dead)
    /\ \A f \in Fds : []<>(sock[f].room > 0)
    /\ WF_vars(\E o \in flight : ~Gone(o) /\ Complete(o))

FairSpec == Spec /\ Fairness

-----------------------------------------------------------------------------
(* Properties.                                                             *)

TypeOK ==
    /\ kind \in Scenes
    /\ \A f \in Fds :
          /\ sock[f].came \in 0..MaxIn /\ sock[f].room \in 0..Room
          /\ sock[f].todo \in 1..(MaxOut + 1)
          /\ \A h \in {"read", "write"} :
                /\ sock[f].half[h].mode \in {"free", "used", "done"}
                /\ sock[f].half[h].res \in -1..Max({MaxIn, MaxOut})
    /\ life \in [Fds -> 1..MaxLives] /\ heirs \subseteq Fds
    /\ node \in [Fds -> Addresses \cup {Nil}]
    /\ \A f, g \in Fds : f # g /\ node[f] # Nil => node[f] # node[g]
    /\ Len(ring) <= Entries
    /\ \A o \in flight : o.f \in Fds /\ o.on \in 1..MaxLives
    /\ ToSet(borrow) \subseteq Fds /\ jobs \subseteq Fds
    /\ Polled \subseteq Fds /\ act \in Polled \cup {Nil}
    /\ bell \in BOOLEAN /\ dead \in BOOLEAN /\ chores \in Nat
    /\ errno \in {"again", "other"}
    /\ phase \in {"look", "loop", "submit", "consume", "wait", "again",
                  "drain", "deliver"}

Upto(n) == [i \in 1..n |-> i]

\* What completed operations of half h of f brought that the program has not
\* asked for yet.
Held(f, h) ==
    LET rs == SelectSeq(cq, LAMBDA c : Own(f, c.o) /\ c.o.h = h /\ c.res > 0)
    IN  (IF sock[f].half[h].mode = "done" /\ sock[f].half[h].res > 0
         THEN <<sock[f].half[h].res>> ELSE <<>>) \o [i \in DOMAIN rs |-> rs[i].res]

\* Nothing is lost, doubled or out of order between the peer and the
\* program, in either direction, whatever was tried at once and whatever
\* went through the rings: what an open socket took, what its completed
\* operations hold and what waits in the system is what came; what was sent
\* is what the program was told of, and at most what a completion holds.
\* This is so for every socket as long as no operation of another one was
\* done on it, nor had its result: not for one that has the number of an
\* operation still in sque, nor at the address of one still in flight.
Exact ==
    \A f \in Fds \ heirs :
        LET d == sock[f] IN
        /\ d.taken = Upto(Len(d.taken)) /\ d.out = Upto(Len(d.out))
        /\ d.open /\ ~d.cut =>
             /\ d.taken \o Held(f, HalfToRead(kind[f], d)) \o d.in = Upto(d.came)
             /\ Writes(kind[f]) =>
                  Len(d.out) = d.todo - 1 + Len(Held(f, "write"))

\* The operation of half h is with the system, which will ring the bell.
InFlight(f, h) == \E o \in flight : Own(f, o) /\ o.h = h

Quiet(f) == sock[f].open /\ ~sock[f].cut /\ f \notin heirs

\* When the thread sleeps without limit no result waits in the completion
\* ring or in a half, and every polled socket that has something to read,
\* or something left to write, has the operation with the system.
NoneForgotten ==
    Asleep =>
        /\ cq = <<>>
        /\ \A f \in Polled : Quiet(f) =>
             /\ \A h \in {"read", "write"} : sock[f].half[h].mode # "done"
             /\ InFlight(f, HalfToRead(kind[f], sock[f]))
             /\ Writes(kind[f]) /\ sock[f].todo <= MaxOut => InFlight(f, "write")

\* What arrives at a socket that stays open is taken by the program.
Served ==
    \A f \in Fds : []<>(Quiet(f) => Len(sock[f].taken) = sock[f].came)

\* What the program has to write is written.
Written ==
    \A f \in Fds : []<>(Quiet(f) /\ Writes(kind[f]) => sock[f].todo = MaxOut + 1)
=============================================================================
