-------------------------------- MODULE Kernel -------------------------------
(***************************************************************************)
(* kernel_t of posix/kernel.h on epoll (lines 249-571): the poll entries,  *)
(* the invoker, the turn of next() and the sleep in epoll_wait, over the   *)
(* scheduler that Loop describes (here only how many of its tasks there    *)
(* are) and over the listeners that stream.h and the servers hang on a     *)
(* polled descriptor.                                                      *)
(*                                                                         *)
(* A socket is a record, and what one call of a listener does to the       *)
(* sockets (generator.h: read, write, pipe; stream.h: readable; the        *)
(* WAITING bit of socket.h) an operator.  Data is counted in chunks: what  *)
(* one recv() takes and one send() gives.  A descriptor has one WAITING    *)
(* bit, which every read and every write of it sets or clears: "the last   *)
(* one would have blocked".                                                *)
(*                                                                         *)
(* One thread turns the kernel; the network may act between any two of its *)
(* steps.  An entry is named by the address of its node in kv_queue.  That *)
(* address is remembered by the socket (pd), by the handle of a poll, by   *)
(* the coroutine of the invoker, by epoll and by the batch of events being *)
(* delivered, and all of them may outlive the entry.                       *)
(*                                                                         *)
(* Left out: timeouts of polls (every call under src/include passes 0),    *)
(* listeners that turn the kernel themselves, several kernels.             *)
(*                                                                         *)
(* Operators whose name starts with Bad are the definition that follows    *)
(* them with one plausible mistake in it; no specification uses them.      *)
(***************************************************************************)
EXTENDS Integers, Sequences, FiniteSetsExt

CONSTANTS
    Fds,            \* the sockets of the program
    Nil,
    Out,            \* Out[f]: where stream::pipe( f, out ) writes to, or Nil
    MaxIn,          \* bound on chunks that wait to be read
    MaxRoom,        \* chunks a send buffer holds
    Addrs,          \* addresses of kv_queue nodes
    Bell,           \* the event of the eventfd
    Kinds,          \* Kinds[f]: the listeners the program hangs on f
    MaxEars,        \* bound on the listeners of an entry
    Reuse           \* TRUE: malloc may return an address that is remembered

ASSUME SocketsAssumption ==
    /\ Nil \notin Fds
    /\ Out \in [Fds -> Fds \cup {Nil}]
    /\ MaxIn \in Nat \ {0}
    /\ MaxRoom \in Nat \ {0}

\* once   stream::readable: takes one chunk and leaves
\* pipe   stream::pipe( f )
\* relay  stream::pipe( f, Out[f] )
KINDS == {"once", "pipe", "relay"}

\* at: the coWait the generator is parked in, "write" with a chunk in hand.
Listener == [fd : Fds, kind : KINDS, at : {"start", "read", "write"}]

Hung(f, k) == [fd |-> f, kind |-> k, at |-> "start"]

Socket == [in      : 0..MaxIn,  \* chunks in the receive buffer
           eof     : BOOLEAN,   \* the peer has sent its last one
           room    : 0..MaxRoom,\* free chunks of the send buffer
           borrow  : 0..1,      \* chunk that readable() took for its caller
           waiting : BOOLEAN,   \* FS_STATE_WAITING
           status  : {"open", "stopped", "closed"}] \* FS_STATE_STOP, FS_STATE_CLOSE

Fresh == [in |-> 0, eof |-> FALSE, room |-> MaxRoom, borrow |-> 0,
          waiting |-> FALSE, status |-> "open"]

\* is_available(): a stopped socket is none either, until it is resumed.
Available(d) == d.status = "open"

Unread(d) == d.in > 0 \/ d.eof

Goes(s, at) == [s |-> s, at |-> at]
Leaves(s)   == Goes(s, "end")

\* recv() has nothing: the listener waits for the next event.
Blocked(s, f) == Goes([s EXCEPT ![f].waiting = TRUE], "read")

\* close(), stop() and resume() of some sockets.  What is closed stays closed.
Turned(s, fs, from, to) ==
    [g \in Fds |-> IF g \in fs /\ s[g].status = from THEN [s[g] EXCEPT !.status = to]
                   ELSE s[g]]

Shut(s, fs)    == Turned(s, fs, "open", "closed")
Stop(s, f)     == Turned(s, {f}, "open", "stopped")
Resumed(s, fs) == Turned(s, fs, "stopped", "open")

-----------------------------------------------------------------------------
\* A chunk that is already there is given again.  A closed socket and an ended
\* one make readable() reject.
Once(s, l) ==
    LET f == l.fd
        d == s[f]
    IN  IF d.borrow = 1 \/ ~Available(d) THEN Leaves(s)
        ELSE IF ~Unread(d) THEN Blocked(s, f)
        ELSE Leaves([s EXCEPT ![f].in = Max({0, d.in - 1}),
                              ![f].borrow = Min({1, d.in}),
                              ![f].waiting = FALSE])

\* What a generator finds when it starts: its sockets resumed.
Begun(s, l, fs) == IF l.at = "start" THEN Resumed(s, fs) ELSE s

\* Reads until recv() would block; the end of the stream stops the socket.  The
\* first read takes what readable() left, one under way does not look again.
Pipe(s, l) ==
    LET f == l.fd
        t == Begun(s, l, {f})
        d == t[f]
    IN  IF ~Available(d) THEN Leaves(t)
        ELSE IF d.eof THEN Leaves(Stop([t EXCEPT ![f].in = 0, ![f].waiting = FALSE], f))
        ELSE Blocked([t EXCEPT ![f].in = 0,
                               ![f].borrow = IF l.at = "read" /\ d.in = 0
                                             THEN @ ELSE 0], f)

\* The send buffer of g is full: a chunk stays in hand, "left" wait to be read.
\* Every read clears the bit of f, every write that blocks sets that of g.
BadHold(s, f, g, left) ==
    Goes([s EXCEPT ![f].in = left, ![f].waiting = TRUE], "write")

Hold(s, f, g, left) ==
    Goes([s EXCEPT ![f].in = left, ![f].waiting = @ /\ s[f].in = left,
                   ![g].waiting = TRUE], "write")

\* Reads a chunk, writes it, and so on.  A read or a write that is under way
\* asks its own socket only; the loop asks both, and its end closes both.
Relay(s, l) ==
    LET f     == l.fd
        g     == Out[f]
        t     == Begun(s, l, {f, g})
        d     == t[f]
        up    == Available(d)
        held  == IF l.at = "write" THEN 1 ELSE 0
        todo  == held + (IF up THEN d.in ELSE 0)
        moved == Min({todo, t[g].room})
        sent  == [t EXCEPT ![g].room = @ - moved,
                           ![g].waiting = @ /\ moved = 0]
        dry   == IF up THEN [sent EXCEPT ![f].in = 0] ELSE sent
        Ends(z) == Leaves(Shut(IF z[f].eof /\ z[f].in = 0 THEN Stop(z, f) ELSE z, {f, g}))
    IN  IF Available(t[g])
        THEN IF moved < todo THEN Hold(sent, f, g, d.in + held - moved - 1)
             ELSE IF up /\ ~d.eof THEN Blocked(dry, f)
             ELSE Ends(dry)
        ELSE IF l.at # "read" THEN Leaves(Shut(t, {f, g}))
        ELSE IF up /\ ~Unread(d) THEN Blocked(t, f)
        ELSE Ends(t)

Heard(s, l) ==
    CASE l.kind = "once"  -> Once(s, l)
      [] l.kind = "pipe"  -> Pipe(s, l)
      [] l.kind = "relay" -> Relay(s, l)

\* event.emit(): the listeners in turn; one that returns -1 is erased.
Emission(s, hung) ==
    LET e[i \in 0..Len(hung)] ==
            IF i = 0 THEN [s |-> s, ears |-> <<>>]
            ELSE LET h == Heard(e[i - 1].s, hung[i])
                 IN  [s    |-> h.s,
                      ears |-> IF h.at = "end" THEN e[i - 1].ears
                              ELSE Append(e[i - 1].ears, [hung[i] EXCEPT !.at = h.at])]
    IN  e[Len(hung)]

-----------------------------------------------------------------------------
(* The kernel.                                                             *)

ASSUME KernelAssumption ==
    /\ Nil \notin Addrs /\ Bell \notin Addrs
    /\ Kinds \in [Fds -> SUBSET KINDS]
    /\ \A f \in Fds : "relay" \in Kinds[f] => Out[f] # Nil /\ "once" \notin Kinds[f]
    /\ MaxEars \in Nat \ {0}
    /\ Reuse \in BOOLEAN

VARIABLES
    sock,           \* the sockets, with what the network did to them
    order, act,     \* kv_queue: the live entries, the cursor
    fdOf,           \* kevent_t::fd, Nil at a free address
    ears,           \* kevent_t::event, the listeners in order
    used,           \* entries with KV_STATE_USED
    jobs,           \* coroutines of the invoker in ev_queue, by address
    chores,         \* other tasks of ev_queue, ready or asleep on a timer
    dead,           \* some ended tasks of ev_queue are not reaped yet
    armed,          \* entries on the ready list of epoll
    bell,           \* the eventfd is not zero
    batch,          \* what epoll_wait returned and is still to be delivered
    phase,          \* where in process::next() the thread is
    pd              \* obj->pd of a socket, also kept by the handles of its polls

kvVars   == <<order, act, fdOf, ears, used, armed>>
loopVars == <<jobs, chores, dead>>
vars     == <<sock, kvVars, loopVars, bell, batch, phase, pd>>

KvQueue == INSTANCE CursorList WITH Nodes <- Addrs, line <- order, cursor <- act

Live == {a \in Addrs : fdOf[a] # Nil}

\* Nothing in ev_queue that could be run or reaped but chores, and nothing.
NoJob  == (\A a \in Addrs : jobs[a] = 0) /\ ~dead
NoTask == NoJob /\ chores = 0

Init ==
    /\ sock = [f \in Fds |-> Fresh]
    /\ order = <<>> /\ act = Nil
    /\ fdOf = [a \in Addrs |-> Nil]
    /\ ears = [a \in Addrs |-> <<>>]
    /\ used = {} /\ armed = {}
    /\ jobs = [a \in Addrs |-> 0]
    /\ chores = 1 /\ dead = FALSE
    /\ bell = TRUE /\ batch = {} /\ phase = "deliver"
    /\ pd = [f \in Fds |-> Nil]

-----------------------------------------------------------------------------
(* The network.  An entry is registered for reading, edge-triggered: each  *)
(* arrival puts it on the ready list; room to write does not.              *)

Entries(f) == {a \in Live : fdOf[a] = f}

Arrive(f) ==
    /\ sock[f].in < MaxIn /\ ~sock[f].eof
    /\ sock' = [sock EXCEPT ![f].in = @ + 1]
    /\ armed' = armed \cup Entries(f)
    /\ UNCHANGED <<order, act, fdOf, ears, used, loopVars, bell, batch, phase, pd>>

PeerEnds(f) ==
    /\ ~sock[f].eof
    /\ sock' = [sock EXCEPT ![f].eof = TRUE]
    /\ armed' = armed \cup Entries(f)
    /\ UNCHANGED <<order, act, fdOf, ears, used, loopVars, bell, batch, phase, pd>>

PeerReads(f) ==
    /\ sock[f].room < MaxRoom
    /\ sock' = [sock EXCEPT ![f].room = @ + 1]
    /\ UNCHANGED <<kvVars, loopVars, bell, batch, phase, pd>>

Network == \E f \in Fds : Arrive(f) \/ PeerEnds(f) \/ PeerReads(f)

-----------------------------------------------------------------------------
(* remove(), and the test every entry carries (kv.callback).               *)

Cursor == IF act = Nil THEN order[1] ELSE act

\* c is the cursor when remove() is called.
Remove(a, c) ==
    /\ order' = KvQueue!Drop(a)
    /\ act' = IF c # a THEN c ELSE IF Len(order) = 1 THEN Nil ELSE KvQueue!After(a)
    /\ fdOf' = [fdOf EXCEPT ![a] = Nil]
    /\ ears' = [ears EXCEPT ![a] = <<>>]
    /\ used' = used \ {a}
    /\ armed' = armed \ {a}

Verdict(d) == IF ~Available(d) THEN -1 ELSE IF d.waiting THEN 0 ELSE 1

-----------------------------------------------------------------------------
(* invoker( nullptr ): a look at the entry under the cursor.               *)

LookNone == order = <<>> /\ UNCHANGED <<sock, kvVars>>

LookDrop ==
    /\ order # <<>>
    /\ \/ ears[Cursor] = <<>>
       \/ Cursor \notin used /\ Verdict(sock[fdOf[Cursor]]) = -1
    /\ Remove(Cursor, Cursor)
    /\ UNCHANGED sock

LookSkip ==
    /\ order # <<>>
    /\ ears[Cursor] # <<>> /\ Cursor \in used
    /\ act' = KvQueue!After(Cursor)
    /\ UNCHANGED <<sock, order, fdOf, ears, used, armed>>

LookEmit ==
    LET e == Emission(sock, ears[Cursor]) IN
    /\ order # <<>>
    /\ ears[Cursor] # <<>> /\ Cursor \notin used
    /\ Verdict(sock[fdOf[Cursor]]) # -1
    /\ sock' = e.s
    /\ ears' = [ears EXCEPT ![Cursor] = e.ears]
    /\ act' = KvQueue!After(Cursor)
    /\ UNCHANGED <<order, fdOf, used, armed>>

Look == LookNone \/ LookDrop \/ LookSkip \/ LookEmit

\* invoker( address ): one coroutine for an entry that has none.  loop_add
\* wakes the kernel.
Invoked(a) ==
    [jobs |-> IF a \in used THEN jobs ELSE [jobs EXCEPT ![a] = @ + 1],
     used |-> used \cup {a}]

-----------------------------------------------------------------------------
(* What the program does in a task of its own: poll, turn a poll off,      *)
(* close a socket, read what was announced, or just come back.             *)

Remembered(a, f) ==
    \/ \E g \in Fds \ {f} : pd[g] = a
    \/ jobs[a] > 0 \/ a \in batch

PollNew(f, k) ==
    /\ pd[f] \notin Live
    /\ \E a \in Addrs \ Live :
          /\ jobs[a] < 2
          /\ Remembered(a, f) => Reuse
          /\ order' = Append(order, a)
          /\ fdOf' = [fdOf EXCEPT ![a] = f]
          /\ ears' = [ears EXCEPT ![a] = <<Hung(f, k)>>]
          /\ armed' = IF Unread(sock[f]) THEN armed \cup {a} ELSE armed
          /\ used' = Invoked(a).used /\ jobs' = Invoked(a).jobs
          /\ pd' = [pd EXCEPT ![f] = a]
    /\ UNCHANGED act

\* The entry is looked up by the address the socket remembers.
PollMore(f, k) ==
    LET a == pd[f] IN
    /\ a \in Live
    /\ Len(ears[a]) < MaxEars
    /\ ears' = [ears EXCEPT ![a] = Append(@, Hung(f, k))]
    /\ used' = Invoked(a).used /\ jobs' = Invoked(a).jobs
    /\ UNCHANGED <<order, act, fdOf, armed, pd>>

Poll(f, k) ==
    /\ Available(sock[f])
    /\ k \in Kinds[f]
    /\ PollNew(f, k) \/ PollMore(f, k)
    /\ bell' = (bell \/ jobs' # jobs)
    /\ UNCHANGED sock

\* kernel_t::clear( address ): the whole entry goes.
Off(f) ==
    /\ pd[f] \in Live
    /\ Remove(pd[f], act)
    /\ UNCHANGED <<sock, jobs, bell, pd>>

Close(f) ==
    /\ Available(sock[f])
    /\ sock' = Shut(sock, {f})
    /\ UNCHANGED <<kvVars, jobs, bell, pd>>

\* read() of the chunk that readable() announced.
Take(f) ==
    /\ sock[f].borrow = 1 /\ Available(sock[f])
    /\ sock' = [sock EXCEPT ![f].borrow = 0]
    /\ UNCHANGED <<kvVars, jobs, bell, pd>>

Idle == UNCHANGED <<sock, kvVars, jobs, bell, pd>>

Act ==
    \/ \E f \in Fds : Off(f) \/ Close(f) \/ Take(f) \/ \E k \in KINDS : Poll(f, k)
    \/ Idle

-----------------------------------------------------------------------------
(* next().                                                                 *)

\* process::wait() leaves when nothing is left to wait for.
ShouldClose == NoTask /\ order = <<>>

\* A turn starts when the events of the last one are delivered; one that
\* returns before epoll_wait has none.
Turn ==
    /\ phase = "deliver" /\ batch = {} /\ ~ShouldClose
    /\ Look
    /\ phase' = "loop"
    /\ UNCHANGED <<loopVars, bell, batch, pd>>

\* ev_queue.next(): one task is run or reaped; what it returns decides
\* whether this turn also looks at epoll.
AfterLoop == phase' \in {"deliver", "wait"}

\* Nothing is ready.
LoopIdle ==
    /\ phase = "loop"
    /\ NoJob
    /\ phase' = "wait"
    /\ UNCHANGED <<sock, kvVars, loopVars, bell, batch, pd>>

Reap ==
    /\ phase = "loop" /\ dead
    /\ dead' \in BOOLEAN
    /\ phase' = "deliver"
    /\ UNCHANGED <<sock, kvVars, jobs, chores, bell, batch, pd>>

RunChore ==
    /\ phase = "loop" /\ chores > 0
    /\ Act
    /\ \/ UNCHANGED <<chores, dead>>
       \/ chores' = chores - 1 /\ dead' = TRUE
    /\ AfterLoop
    /\ UNCHANGED batch

EndJob(a) == jobs' = [jobs EXCEPT ![a] = @ - 1] /\ dead' = TRUE

\* The coroutine of invoker( a ).
JobOrphan(a) ==
    /\ a \notin Live
    /\ EndJob(a)
    /\ UNCHANGED <<sock, kvVars>>

BadJobRest(a, e) ==
    /\ Verdict(e.s[fdOf[a]]) = 0
    /\ ears' = [ears EXCEPT ![a] = e.ears]
    /\ EndJob(a)
    /\ UNCHANGED <<order, act, fdOf, used, armed>>

\* Nothing to read or no room: wait for the next event of epoll.
JobRest(a, e) ==
    /\ Verdict(e.s[fdOf[a]]) = 0
    /\ used' = used \ {a}
    /\ ears' = [ears EXCEPT ![a] = e.ears]
    /\ EndJob(a)
    /\ UNCHANGED <<order, act, fdOf, armed>>

JobEmit(a) ==
    LET e == Emission(sock, ears[a])
        v == Verdict(e.s[fdOf[a]])
    IN  /\ a \in Live
        /\ sock' = e.s
        /\ \/ v = -1 /\ Remove(a, act) /\ EndJob(a)
           \/ JobRest(a, e)
           \/ /\ v = 1
              /\ ears' = [ears EXCEPT ![a] = e.ears]
              /\ UNCHANGED <<order, act, fdOf, used, armed, jobs, dead>>

RunJob(a) ==
    /\ phase = "loop" /\ jobs[a] > 0
    /\ JobOrphan(a) \/ JobEmit(a)
    /\ AfterLoop
    /\ UNCHANGED <<chores, bell, batch, pd>>

\* epoll_wait: without limit when no task is left and there are entries.
Boundless == NoTask /\ order # <<>>

\* epoll drops an entry from its list when what made it ready is gone.
Due == {a \in armed : Unread(sock[fdOf[a]])} \cup (IF bell THEN {Bell} ELSE {})

Asleep == phase = "wait" /\ Boundless /\ Due = {}

Wait ==
    /\ phase = "wait" /\ ~Asleep
    /\ batch' = Due
    /\ armed' = {}
    /\ phase' = "deliver"
    /\ UNCHANGED <<sock, order, act, fdOf, ears, used, loopVars, bell, pd>>

Ring ==
    /\ phase = "deliver" /\ Bell \in batch
    /\ Look
    /\ bell' = FALSE
    /\ batch' = batch \ {Bell}
    /\ UNCHANGED <<loopVars, phase, pd>>

Deliver(a) ==
    /\ phase = "deliver" /\ a \in batch
    /\ IF a \in Live
       THEN /\ used' = Invoked(a).used /\ jobs' = Invoked(a).jobs
            /\ bell' = (bell \/ a \notin used)
       ELSE UNCHANGED <<used, jobs, bell>>
    /\ batch' = batch \ {a}
    /\ UNCHANGED <<sock, order, act, fdOf, ears, armed, chores, dead, phase, pd>>

Loop == LoopIdle \/ Reap \/ RunChore \/ \E a \in Addrs : RunJob(a)

Thread == Turn \/ Loop \/ Wait \/ Ring \/ (\E a \in Addrs : Deliver(a))

Next == Thread \/ Network

Spec == Init /\ [][Next]_vars

-----------------------------------------------------------------------------
(* Fairness: the thread goes on; a coroutine that stays in the loop is run *)
(* again and again (Loop's EveryTaskRuns); a peer that was sent data takes *)
(* it at some point.                                                       *)

Fairness ==
    /\ WF_vars(Thread)
    /\ \A a \in Addrs : SF_vars(RunJob(a))
    /\ \A f \in Fds : WF_vars(PeerReads(f))

FairSpec == Spec /\ Fairness

-----------------------------------------------------------------------------
\* The entries, the coroutines and what is remembered of them have their types.
TypeOK ==
    /\ sock \in [Fds -> Socket]
    /\ KvQueue!Members = Live /\ Len(order) = Cardinality(Live)
    /\ act \in Live \cup {Nil}
    /\ fdOf \in [Addrs -> Fds \cup {Nil}]
    /\ \A a \in Addrs : Len(ears[a]) <= MaxEars /\ \A i \in DOMAIN ears[a] :
                            ears[a][i] \in Listener
    /\ used \subseteq Live /\ armed \subseteq Live
    /\ jobs \in [Addrs -> 0..2]
    /\ chores \in 0..1 /\ dead \in BOOLEAN
    /\ bell \in BOOLEAN /\ batch \subseteq Addrs \cup {Bell}
    /\ phase \in {"loop", "wait", "deliver"}
    /\ pd \in [Fds -> Addrs \cup {Nil}]

\* A live entry is marked USED exactly as long as one coroutine serves it,
\* whatever polls, removals and stale events come in between: a mark without
\* a coroutine would silence the descriptor for ever, two coroutines would
\* run its listeners inside one another (kernel.h 375-395).
UsedIsServed == \A a \in Live : jobs[a] = IF a \in used THEN 1 ELSE 0

\* The thread never sleeps without limit on a descriptor with something to
\* read and somebody to read it, unless epoll is about to say so: no event is
\* lost between the read that would have blocked, the end of the coroutine
\* and epoll_wait (kernel.h 350-355, 386-390, 543).
NoLostWakeup ==
    Asleep => \A a \in Live :
        LET d == sock[fdOf[a]] IN ears[a] # <<>> /\ Available(d) => ~Unread(d)

\* A coroutine does not end while its relay holds a chunk it could not write:
\* room to write raises no event (kernel.h 293-296), so nothing would start
\* another one.
NoChunkAbandoned ==
    [][\A a \in used : a \in Live' /\ a \notin used' =>
          \A i \in DOMAIN ears'[a] : ears'[a][i].at # "write"]_vars

-----------------------------------------------------------------------------
(* Liveness.                                                               *)

Polled(f) == \E a \in Live : \E i \in DOMAIN ears[a] : ears[a][i].fd = f

Neglected(f) == Polled(f) /\ Unread(sock[f]) /\ Available(sock[f])

Takes(f) == sock'[f].in < sock[f].in

\* What arrives at a polled socket is read, or the socket is closed, or the
\* poll ends.
Served == \A f \in Fds : <>[]Neglected(f) => []<><<Takes(f)>>_vars
=============================================================================
