# nodepp in TLA+

nodepp is a header-only C++ runtime for asynchronous programs: a cooperative
event loop, stackless coroutines, events, promises, and on top of them files,
sockets, servers, protocols and worker threads. This directory holds TLA+
specifications of it, model-checking runs, and proofs that hold for every value
of the constants. Paths below are relative to `src/include/nodepp/`.

## The system and its parts

| Part | State | Operations | What makes it correct |
|---|---|---|---|
| Scheduler, `loop_t` (`loop.h`) | queues `queue`, `normal` with a cursor, `blocked`; a flag per task | `add`, `off`, `clear`, `next`; a callback yields, ends, sleeps or blocks | no task lost, doubled, started twice, freed while it runs or woken early; ready tasks run |
| Linked queue, `queue_t` (`queue.h`) | doubly linked nodes, cursor `act` | `push`, `insert`, `erase`, `next`, `prev`, `move`, `swap` | behaves as a sequence with a cursor |
| Events, `event_t` (`event.h`) | listeners, deferred removals, `STOP`/`USED`/`KILL` bits | `add`, `once`, `on`, `off`, `clear`, `emit`, `stop`, `resume` | each listener once per emission; only those with a reason leave |
| Observers, `observer_t` (`observer.h`) | a value and an event per field | `set`, `watch`, `once`, `unwatch`, `clear` | a watcher knows the value the field has |
| Promises, `promise_t` (`promise.h`) | state bits, value, three events | settle, `then`/`fail`/`finally`, `off`, `get_value`, `await` | settled once; each reaction called once, in order; `await` returns |
| `promise::all`, `promise::any` | a coroutine with a position and a count | one look per turn | the answer is sound and comes |
| Kernel (`posix/kernel.h`, `posix/uring.h`, `windows/kernel.h`, `windows/iocp.h`) | poll entries, operations in flight, sleep flag, timeout | `poll_add`, `loop_add`, `wake`, `next`, `await` | no wake-up is lost; a result reaches who asked for it, unless its address passed on |
| Clock (`posix/sleep.h`, `nodepp.h`) | a cached stamp per thread | `next_time_interval`, `now` | moves while anybody waits for it |
| Workers (`posix/worker.h`, `mutex.h`, `invoker.h`) | thread state, parent kernel reference | start, run, free | the parent outlives the worker and then goes on |
| Channels (`channel.h`) | a queue, a limit, a mutex | `read`, `write`, `clear` | nothing lost or doubled across threads |
| Processes (`popen.h`, `cluster.h`) | a child, its pipes, the tasks that read them | `open`, `close`, `kill`, `free` | what the child wrote is told, its end as well |
| Streams (`posix/file.h`, `posix/socket.h`, `stream.h`, `generator.h`) | state bits, buffer, borrowed bytes | `read`, `write`, `line`, `pipe`, `close` | bytes in order, closed once and told |
| Servers (`tcp.h`, `tls.h`, `http.h`, `ws.h`), datagrams (`udp.h`) | clients that wait for their first read | accept, handshake, close; send and hear | places come back, each client is greeted once, a message comes from who sent it |
| Files (`fs.h`) | descriptors of one process, partial writes | copy, append, write, remove, list | no job harms what another one keeps |
| Memory (`ptr.h`, `atomic.h`, `allocator.h`) | counts, views, pages of blocks | copy, move, slice, free | a node lives exactly as long as it is held |
| Containers and text (`array.h`, `string.h`, `map.h`, `regex.h`, `url.h`, `path.h`, `json.h`, `encoder.h`, `crypto.h`, `zlib.h`) | values | functions | the answer is the right one |

How they interact. `process::next()` moves the clock of its thread and turns the
kernel, which turns the loop; the loop calls one task. A task is a function or a
coroutine and may do anything: add and turn off tasks, emit events, settle
promises, or call `process::next()` again, which is what `await` does. So turns
nest, and every structure that is walked while callbacks run can change under
the walk. That, rather than threads, is where most of the difficulty is: the
scheduler holds two node pointers across a callback, `emit` holds two, a promise
emits inside its own emission, a server reads a header with `await` and so
accepts and handles others in the middle of a handler. Streams are files whose
generators are polled by the loop and woken by the kernel; a server is a stream
that makes streams. Threads meet in workers, channels and `wake()`.

## The modules

Abstract ones: `TaskPool` (what a loop promises) and `CursorList` (what `queue_t`
promises). A name in brackets is the run that has the module.

**Scheduling** [`loop`]. `TaskPool`: tasks enter, are started while they are open
and not running, sleep and wake, and leave only after they were shut. There is
no order, no cursor and no time in it. `Loop` is `loop_t` of the FULL engine, one
action per operation; `Lite` is the LITE one (one queue, delays that are yielded
until their time) with the kernel built into it. Both implement `TaskPool`.

| Loop | code |
|---|---|
| `queue`, `normal`, `act`, `blocked` | `NODE` of `loop.h:40-44`; `act` is the cursor of `normal` |
| `flag` | `task_t::flag` |
| `stack` | the tasks whose callback is on the C++ stack |
| `left`, and `wake` and `owed` of a sleeper | `(uchar_32)-1 - now`; `wake_time - now`; the delay asked for, minus the time since |
| `Add`, `Off`, `Clear` | `add`, `off(task)`, `clear()` |
| `Tick` | `next_time_interval()` at the head of `process::next()` |
| `LoopNext` | `next()`: wake the expired sleepers (`FirstExpired`, `WakeUp`), then `NothingReady`, `SkipUsed`, `ReapClosed` or `RunTask` |
| `ReturnCleared/Yield/End/Delay/Block` | line 98, GOT1, GOT2, GOT3, GOT4 of `normal_queue_next` |

Between `RunTask` and its `Return` the callback acts, in any interleaving of the
other actions: this is the only place the code can be re-entered, everything
else in a turn is one atomic step of one thread. Deadlines are kept relative to
the clock, and values below zero as -1 (all that expired are treated alike), so
that time needs no bound. A queue node is named by its task; that no task is
queued twice is itself an invariant (`NoTaskLost`). `Disciplined = TRUE` states
what the code needs of its callbacks: none runs the loop, or adds a task to a
loop it cleared, while a frame of the stack belongs to a task that was closed.
Without it the code uses a freed node (`loop.h:98-132` after the nested turn
deleted it), which has no meaning in C++ and none here.

**Events** [`event`]. `Event` is `event_t`: `que`, `tmp`, `state` are the fields of
`NODE`; `cur` and `nxt` are `x` and `y` of `emit`; `at` and `flag` are the handle
(`task_t::auth`, `task_t::flag`). Addresses are explicit, because `off` finds its
node by address and an address is used again after `clear` or `erase`.
`EmitStart`, `CallReturns`, `SweepOne` and `EmitEnd` are the parts of `emit`
between which callbacks, or nothing, can act. `Disciplined = TRUE` restricts `off`
to handles of live listeners that do not free themselves in the running emission;
without it a stale handle removes an innocent listener. `excused`, `present` and
`called` are history. `Observers` is `observer_t` with watchers that call it back.

**Promises** [`promises`]. `Promise` is `promise_t`. Its events are taken as `Event`
leaves them (every listener is a `once` listener: called, then erased), and one
`stack` holds the emissions and the calls of `await` that are active. `Settle` is a
call of `res` or `rej` up to its first callback, `CallbackReturns` everything
between one callback and the next, including the step from the outcome's
listeners to those of `finally`. `GetValue` stands for `get_value()` and for the
destructor. `Combinators` is the coroutine of `all` and `any`, one action per turn,
with promises that settle or are turned off between two looks.

**Kernels.** `Kernel` [`kernel`, `kernel_live`] is `kernel_t` on epoll. Its first part
says what one call of a listener (`readable()`, `pipe(a)`, `pipe(a, b)`) does to the
sockets, as functions of the sockets and the listener: `Once`, `Pipe`, `Relay`, and
`Emission`, which calls all of an entry. Data are counted in chunks: what one `recv`
takes and one `send` gives.

| Kernel | code |
|---|---|
| `order`, `act` | `kv_queue` and its cursor, a `CursorList` |
| `fdOf`, `ears`, `used` | `kevent_t::fd`, `kevent_t::event`, `KV_STATE_USED` |
| `jobs`, `chores`, `dead` | the coroutines of `invoker`, the other tasks, ended tasks that are not reaped: all of `ev_queue` |
| `armed`, `bell`, `batch` | the ready list of epoll, the eventfd, the events that are being delivered |
| `pd` | the address a socket remembers |
| `Poll`, `Off` | `poll_add` with its `invoker(addr)` and `wake`; `off(task)` |
| `Turn`, `Look` | the head of `next()`, `invoker(nullptr)` |
| `LoopIdle`, `Reap`, `RunChore`, `RunJob` | `ev_queue.next()`: nothing ready, an ended task, a task of the program, the coroutine of an entry |
| `Wait`, `Ring`, `Deliver` | `epoll_wait`, the eventfd's event, an entry's event |

The network acts between any two steps of the thread: chunks arrive, the peer
ends, the peer makes room. Whether a turn that ran a task goes on to epoll
depends on where the task stood in `normal` (`loop.h:82`); the model lets it go
either way. `Reuse = FALSE` states what the code needs of `malloc`: that it gives
no entry the address of a former one that somebody remembers.
`Rings` [`rings`] is the kernel on io_uring: operations are submitted, complete in
any order and leave their result in the node they name. Nothing cancels them when
their socket goes, and what they name is used again: the descriptor number, which
the system looks at when it takes the operation out of `sque`, and the address of
the node, by which `io_consume` finds it. The model reopens numbers whatever is
queued or in flight and lets the new node lie where the old one was (`node`,
`Addresses`), and it remembers in `heirs` the sockets that met an operation of a
former one: one that was done on them, or whose result they got. The code
does nothing for these, and the properties speak of all the others. `Iocp` is the
same question for the Windows completion port, without descriptors used again.

**Threads and processes** [`workers`]. `Channel` is `channel_t` under its mutex;
`Workers` extends it with `worker_t`: the node from its constructor to the end of
its thread, held by the thread, by handles and by the invoker, with the reference
on the kernel of its maker and the wake-up. `Processes` is `popen_t` and `cluster_t`:
a child, two pipes, the two reading tasks, `kill` and the destructor.

**Streams** [`carriers`]. `Carriers` gives every generator as a function of the bytes at
hand (lines, pipes, ranges, chunked bodies, ws frames) and puts a writer, a network
that cuts and joins, and a reader around them. `Lifetimes` is a `file_t` or
`socket_t` from open to free: its bits, its events, who holds a copy
[also `held_streams`]. `Datagrams` is `udp_t` of a server and of a client, with
datagrams lost, doubled and out of order.

**Servers** [`servers`]. `Servers`: the accepting task with its limit, the wait for the
first bytes, the header read that runs other handlers inside this one, the ws
handshake, for tcp, tls, http, https and ws. `Fetches`: `connect` and `fetch`, inside
one another.

**Memory** [`memory`]. `Pointers` is `ptr_t` with counts shared by threads,
`Allocator` the block allocator, `Invokers` `invoker_t` and `handler_t` whose
callbacks are taken away under it, `Files` the jobs of `fs.h` over inodes, names and
partial writes, and `QueueList` `queue_t` pointer by pointer: `next`, `prev`, `sign`,
`fst`, `lst`, `act`, `length`, one action per member function, any address as
argument, live or not. `Loop`, `Event` and `Kernel` use sequences with a cursor;
`QueueList` implementing `CursorList` is why they may.

**Text** [`texts`]. Functions, checked against what they are for over every small
input: `Arrays` (sequences), `Regex` (both engines), `Formats` (strings, maps, url,
query, cookie, path, json), `Codecs` (encoders, ciphers, compressors, keys: what
they buffer, emit and give back; the arithmetic of OpenSSL and zlib is external).

The `MC` modules join the modules of a run side by side and give the inputs. The
definitions whose names start with `Bad` are plausible mistakes. Each stands
before the definition it spoils and says which line is missing; putting one in
the place of the other must break the property it is meant for.

## The runs

| Run | What it shows | States |
|---|---|---|
| `loop` | `NoTaskLost`, `RunningAlive`, `NoEarlyWake`, `PoolKept` (both engines implement `TaskPool`); under fairness `EveryTaskRuns`, `DelayEnds` | 52 thousand |
| `event` | `LeaveExactly`, `WalkAlive`, `OncePerEmission` of events, `InStep` of observers, `EmissionEnds` | 718 thousand |
| `promises` | `CalledFittingly`, `NoReactionLost`, `SettledOnce`, `AnswerSound`, `AnswersCome` | 746 thousand |
| `kernel` | `NoLostWakeup`, `NoChunkAbandoned`, with a socket relayed to another one | 3.3 million |
| `kernel_live` | `Served`, with two listeners on one entry | 114 thousand |
| `workers` | `SelfAlive`, `Conserved`, `ChildTold`, `EndsAreHeard` | 183 thousand |
| `texts` | `ContainersRight`, `MatchesRight`, `ParsedRight`, `CodesRight` | 184 thousand |
| `carriers` | `StreamsIntact`, `ToldOnce`, `Attributed`, `AllDone` | 258 thousand |
| `rings` | `DataExact`, `NoneLeftBehind`, `AllServed`, on io_uring and on the completion port | 733 thousand |
| `servers` | `SlotsExact`, `GreetedOnce`, `AllAnswered` | 118 thousand |
| `memory` | `HandlesExact`, `StoredExact`, `ImplementsList` | 531 thousand |
| `held_streams` | `EndIsClosed` fails: a stream whose own listener holds it never hears of its end | |

Bounds. `loop`: three tasks are enough for a running task, one under the cursor
and one asleep; nesting of two puts a turn inside a callback; delays of 1 and 2
with a clock that moves by 2 give deadlines that are met, passed, equal and out
of order; a horizon of 3 is passed while tasks sleep. A task that left may be
added again, so runs are unbounded. `event`: two listeners of kind `on`, one
`once`, one `add` that answers as it likes, and three addresses for four
listeners, so that addresses are used again; two fields and two values for three
watchers. `promises`: two promises, three callbacks and three frames let an
`await` run above the emission of another promise and a callback settle, attach
and await; the combinators look at up to four promises in any initial states.
`kernel`: two sockets, the inner one relayed to the outer one, and three
addresses, so that an entry can go and another come while events for both are in
flight; one chunk in a buffer and room for one give empty, full and blocked;
addresses are symmetric. `kernel_live`: one socket, two addresses, two listeners,
two chunks. In both, `chores` is one task of the program that polls, turns off,
closes and reads as it likes until it ends. `workers`: two workers with two values
each for a channel of three, so that it fills; a child with two pipes of up to two
chunks. `carriers`: messages of up to three bytes in buffers of three, with every
cut; two peers that exchange datagrams. `rings`: one descriptor that lives
twice, at one of two addresses, so that a late completion meets the number and
the node of another socket, or either alone; two that stay open; what the operation of
a socket that is gone comes to is any of an error, an end or a chunk; queues of
eight never fill.
`servers`: three clients and a batch of one pass the limit. `memory`: five list nodes
are one more than an operation touches; three handles on two nodes in two threads;
two pages and blocks of two sizes; three frames of callbacks; two jobs on three
files. `texts`: sizes of eight bits, and for every topic all inputs (texts, patterns,
programs of operations) up to a length of its own, grown a symbol at a time.

`CHECK_DEADLOCK FALSE` where the system may stop: a program may be done, a thread
may sleep while its peers are silent, nodes and inputs may be used up.

Fairness. `process::wait` calls `process::next` for ever, and each call reads the
clock and turns the loop: weak fairness of `Tick`, strong of `Turn` (a turn is
possible between callbacks only). A callback returns: strong fairness of its
`Return`, because nested turns interrupt it. `emit` is a loop of C++ that runs on:
weak fairness of its steps. Where a module has a loop of its own (`Kernel`, `Rings`,
`Servers`, `Fetches`), its thread goes on (weak) and every coroutine in the loop is
run again and again (strong: this is `EveryTaskRuns` of run `loop`). Worker threads
go on, by the operating system's own fairness. Of the world outside it is assumed
that an operation on a socket that lives completes once it can, that a peer reads at some time what was
sent to it, that data written is delivered, and that a `fetch`ed server speaks or
hangs up. No data has to arrive, no task has to end, nobody has to add, settle,
turn off or clear anything; where progress needs that, the property says so
(`EveryTaskRuns`, `EmissionEnds`, `AnswersCome` name what may go on for ever). When a
run joins modules, the fairness of each is required while it is that module's turn
to act, since otherwise the joint specification would demand steps of parts that
do not run.

Some claims that the code shows to fail were runs of their own once and are named
here instead, so that the runs that hold have room: a ready task starves under
timers that are always due (`loop.h:67,125`, against `test/task.cpp:29`); a stale
handle removes another listener (`event.h:88`; `Event` with `Disciplined = FALSE`);
`any` rejects beside a fulfilled promise (`promise.h:219`); `queue_t::swap` of
neighbours breaks the list (`queue.h:360-369`; `QueueList` with `SwapNeighbours =
TRUE`); `read_body` loops for ever on a short body (`http.h:234`, against
`examples/13-HTTP-POST-Method.cpp:17`); two web socket clients share one `skip()`
(`ws.h:79`, against `examples/16-WS-Server.cpp:23-25`); a connection that was reset
looks like one that would block (`socket.h:145-151`, against
`benchmark/valgrind_benchmark/readme.md:101,114`).

The regex engine of the LITE build, the strings, the encoders and ciphers, the
jobs of `fs.h` and `popen_t` were also compared with programs built from the headers.

## What is proved

Every theorem holds for every value of the constants that satisfies the named
`ASSUME`s of its module, which say what the source says (an address is not null,
delays are positive). What a theorem needs beyond them is a hypothesis in its
statement:

| Hypothesis | says | because |
|---|---|---|
| `Disciplined` (`LoopProofs`, `EventProofs`) | callbacks follow the discipline above | without it the code uses freed memory, or is wrong |
| `OneByOne` (`ServersProofs!GreetedRight` only) | a web socket server has one client at a time | with two the shared `skip()` makes the property false |
| `Plainly` (`KernelProofs`) | `MaxEars = 1`, `~Reuse`, a relay's target is no relay's source | each is a limit of the code, named below: two relays of one descriptor share its `WAITING` bit, and TLC finds `NoChunkAbandoned` violated with `MaxEars = 2` |
| `KernelAssumption` (an `ASSUME` of `Kernel`, for proofs and runs) | a descriptor that is relayed has no `once` listener besides, and every relay has a target | a limit of the model: `Relay` leaves out the chunk that a `readable()` of the same descriptor leaves for the next read |
| `~SwapNeighbours` (`MemoryProofs`, of the list) | no client swaps two adjacent nodes | `swap` breaks the list then |

| Module | Theorems | of the properties of |
|---|---|---|
| `LoopProofs` | `Invariance`, `TypeCorrect`, `NoneLost`, `CursorSafe`, `FramesSafe`, `SleepersUnmarked`, `SortedSleepers`, `NoEarly`, `Implements`, `LiteImplements`, `PoolsKept` | `loop`: all but liveness |
| `EventProofs` | `Invariance`, `LeavesExactly`, `WalkSafe`, `EachOnce`, `ObserversInvariance`, `ListenersInStep` | `event`: all but liveness |
| `PromiseProofs` | `Invariance`, `CallsFit`, `NoneLeft`, `FirstDecides`, `AnswersRight` | `promises`: all but liveness |
| `KernelProofs` | `Invariance`, `MarkedIsServed`, `NoneUnheard`, `ChunksKept` | `kernel`: all |
| `WorkersProofs` | `ChannelInvariance`, `ChannelConserved`, `WorkersInvariance`, `WorkersSelfAlive`, `ChildInvariance`, `ChildHeard` | `workers`: all but liveness |
| `MemoryProofs` | `Invariance`, `ListImplemented`, `OperationsKept`, `HandlesRight`, `StoredRight` | `memory`: all |
| `CarriersProofs` | `ToldRight`, `AttributedRight` | `carriers`: those of the stream's life and of datagrams |
| `ServersProofs` | `Invariance`, `PlacesExact`, `GreetedRight` | `servers`: those of the servers, but liveness |

Each has the same layout: the conjuncts of the invariant, lemmas about the
operators, one lemma per action, `NextIInv` or its like which joins them, then the
temporal theorems. TLC checked each invariant on the configuration of its run
before it was proved. Why each is as it is:

- **Loop.** `IInv` is `TypeOK`, `NoTaskLost`, `CursorValid`, `RunningAlive` and
  `SleepersFree`, none inductive alone. That the cursor stays valid across `erase`
  needs that no task is queued twice; that nothing is queued twice after a delay
  needs that the returning task is still in `normal`, which is `RunningAlive`; that
  it is needs that a turn reaps no task that runs, which holds because a running
  task is `USED`, or `CLOSED` and then no turn may start (`MayEnter`); and a woken
  task can be started only if sleepers are not `USED`. For deadlines `TInv` adds
  `BlockedSorted` and `DeadlineKept` (a deadline is what is owed, or the horizon),
  since the first alone does not say why a passed deadline means a served delay.
  `Implements` maps each step of the loop to one of `TaskPool` or to a stutter: waking
  is several pool steps in the code and one here, which is why the pool wakes sets.
  `LiteImplements` needs only `LiteIInv`: types, no task queued twice, and the cursor
  on a node whenever a frame lives on a queue that was not cleared. `PoolsKept` is
  both, side by side.
- **Event.** What is put off names live listeners of kind `on` and everyone excused
  (`PutOff`), addresses of listeners differ (`Addressed`), and the walk stands at a
  node such that exactly those up to it were called and, if it will not go on,
  nobody behind it was there at the start (`Walk`). The last is what a listener that
  joins or leaves under the walk could break; `WalkAlive` and `OncePerEmission`
  follow from it.
- **Observers.** A listener may set the field it is told of, and others, so calls are
  nested; `InStep` alone does not say which listeners a call has still to tell. In
  `ObInv` each call has a field of its own and is at the k-th listener of it: those up
  to there were told of the new value, those behind it know the old one (`CallAt`), and
  nobody is behind it when the call will not go on. A list that loses a listener
  (`Without`) or those put off (`Purged`, a comprehension over ranks) keeps the order of
  the rest, which is what moves k; and a listener is in one list (`Apart`), so that a
  call of one field tells nobody of another.
- **Promise.** A callback is attached in one place, one that was called and is still
  attached is the first of a list being emitted (`RunningFirst`), a frame emits only
  what its promise has come to (`FramesRun`). `NoReactionLost` is read off `Reactions`,
  which says so of every promise and not only of those without a frame.
  `SettledOnce` is an action property: `state` loses `PENDING` once.
- **Kernel.** `Core` says that the list and the live entries agree (`Listed`), that a
  socket's `WAITING` bit and held chunk fit the place of its one listener (`EarOK`),
  that a remembered address, if live, is one of that socket (`Known`), that a live
  entry is `USED` exactly as long as one coroutine serves it (`ServedOK`), and that
  whatever has come for a listener is in `armed`, in `batch` or `used` (`Told`). `Told` is
  why no wake-up is lost: `Wait` moves from the first to the second, `Deliver` from
  the second to the third, and a coroutine that ends looks again. `NoChunkAbandoned`
  follows from the step of the coroutine and what `EarOK` says of a held chunk.
- **QueueList.** `IInv` says that a traversal finds a sequence whose nodes, and no
  others, are linked in that order by `next` and by `prev` (`Linked`), with the ends,
  the length and the signatures that belong to it, and that the cursor is on a node
  or nowhere. The traversal is a recursive function; that it returns the sequence it
  is led along is `Traversed`, by its least wrong index (`Least`, from the well-founded
  order of the naturals). So a step need only be shown to lead to pointers that link
  the sequence `CursorList` names: three lemmas do it for a node taken out (`TakenOut`),
  put in front of another (`PutIn`) or behind the last (`PutLast`), `move` is the first
  and one of the others, and `swap` of two nodes that are no neighbours is `SwappedIs`,
  which follows its eight writes one by one, and `TwoExchanged`. Nothing bounds the
  number of nodes, and any address may be handed in, live or not.
- **Workers, Channel.** Who is in the middle of a call holds the mutex (`OneInside`),
  so `Conserved` is kept by each thread's step alone. A node outlives its thread
  because the thread's own reference is the last it gives back; the invariant must
  say which handle each thread owns (`OwnEnd`) and that nobody touches a worker not
  yet made (`Unmade`, `Untouched`).
- **Child processes.** The reader that meets the end frees the node, in the middle of
  what the other one does. `FreedOnce` says that the node is closed only to be freed in
  the same step and that the answer counts all that was heard; `HeardOK`, that what was
  heard of a pipe are the numbers of what was read of it, in order; and `Unended`, that
  until the end the child is there and whoever began to read still does.
- **Streams.** `LifeInv`: a stream is deaf exactly when it is free, was told so once, and
  is stopped, closed or free only after `onDrain` (`Sound`). Each call keeps `Sound` and,
  of a stream that was open, drains it or leaves it open, also when the listener of
  `onDrain` makes a call of its own (`CallKeeps`); so a promise that is pending when the
  stream ends is answered. While the task of a pipe holds a copy, no other one that is
  dropped frees the stream (`TwoCopies`). `UdpInv`: nothing is heard before the socket is
  piped, and while it is, the address it reads from is that of the one heard last; only
  an empty datagram leaves another, and stops it. `SaidOK` says what a `udp_t` told its
  program, which state it is in and that its task runs once.
- **Servers.** The count is the number of clients accepted and not done with
  (`SlotsExact`) only if each client is in one place: in the backlog once, on the
  stack once, in the stage its frame says (`QueueOK`, `StackOK`, `ClientOK`).
- **Memory.** An assignment is several steps of a thread, and other threads act
  between them. What a thread has left to do is a plan of few shapes (`Orderly`: it
  begins by leaving a node or by counting itself, and ends by setting a handle of its
  own, which is on no live node by then, `Loose`). The count of a live node, plus the
  threads about to add themselves, is the number of handles on it (`Counts`); who is
  about to add has two handles on it, the one it looked through and the one it set
  (`Held2`). So when the last count goes there are as many handles as adders and each
  adder has two, which leaves none (`NobodyLeft`, an injection that is onto): that is
  why a value is destroyed by one thread, alone (`Alone`). `PtrInv` joins these with
  the windows (`Inside`). `InvokerInv`: addresses of one node come and go in order, so
  that what was taken from one stays taken (`Gone`), and a frame runs the callback it
  was asked for or, if that was taken, a later one (`FrameOK`). The theorem is about sets of threads and
  handles that are finite (`MemoryAssumption`), a count that is atomic and a `free()`
  that is called while no other thread has the value; these are what the model says
  of the code, and `ptr.h` leaves the last to its caller.
- **Heap.** A page is correct only if its headers tile it: each block ends where the
  next one begins or with the page (`Tiled`), and what is cut next is a free block
  (`Placed`). So blocks cannot overlap, and the blocks that the program has are just the
  headers that are used (`BlocksOK`). The sweep joins free blocks as it goes; `WalkOK`
  says that the used blocks are those of before, that the page is tiled all the while,
  and that behind the walk no free block follows another and none is larger than the
  room of the page (`Behind`). The walk is a
  recursive function over at most `Heap` steps: each step moves it to a later header
  and keeps `WalkOK` (`StepWalks`), and a function on 0..n that keeps a set stays in it
  (`Kept`, `Iterated`). It follows that the room of a swept page is its largest free
  place (`LargestFound`), because free bytes without a used block between them are in
  one block. Visits of the sweep move or give back a page without losing one
  (`VisitsKeep`). Nothing bounds sizes, pages or the batch.
- **Files.** `FilesKept` says what a resolved or running call has come to; `JobOK` adds
  what makes it so. A copy is where its last write ended, or one unit ahead of it with
  that unit in hand (`CopyAt`); a write stands at the end of its file, and what it counted
  fits its rounds (`Tallied`): none done means nothing counted, and only one that was
  never taken in pieces counts what it wrote. That a round goes on where the last one
  stopped is arithmetic of `%` (`Again`, `RepeatedMore`): unit d of round n is unit
  n * `Length` + d of the message repeated. What changes an inode under a call that is
  not its own makes that call ask nothing more (`NoticedKeeps`), so each step is shown
  for one call only (`BecomesKeeps`); a rename or a removed name changes no inode and
  leaves every call as it was. Nothing bounds the files, the calls on them at a time,
  or the length of a message.

Only model-checked:

- liveness (`EveryTaskRuns`, `DelayEnds`, `EmissionEnds`, `AnswersCome`, `Served`,
  `EndsAreHeard`, `AllDone`, `AllServed`, `AllAnswered`): it needs fairness and
  `ENABLED`, which the prover does not handle;
- what functions on data compute (`ContainersRight`, `MatchesRight`, `ParsedRight`,
  `CodesRight`, `StreamsIntact`), where the argument is induction over data; `Codecs`,
  `Formats` and `Regex` declare `RECURSIVE` operators besides;
- `DataExact` and `NoneLeftBehind` of `rings`: what an operation in flight owes is
  spread over the user's frame, the submission queue, the operation and the completion
  queue of the system, and over a second model of the same for Windows; no inductive
  invariant of them has been found that the provers could be led through.

## Where the code and what is said of it differ

A piped stream that its own `onData` listener holds (`held_streams`): at the end of
its source it is stopped, a stopped stream counts as closed, so `close()` does
nothing (`posix/file.h:166-170`), and `free()` waits for the copy in the listener that
only `free()` would remove (`posix/file.h:232`). `onClose` is never emitted and the
descriptor stays open, though `examples/15-WS.cpp:27-34` captures the stream and waits
for the end. The seven claims named after the runs are of this kind too.

## Known limits of the code, outside the runs

Met while modelling; assumptions of the model, or behaviour it has as the code
has it, rather than runs of their own.

Kernel and clock.
- `posix/kernel.h:470`: `pd` outlives the entry it names. If the address is used again,
  a later poll of that socket joins the entry of another one (`Reuse`).
- `posix/kernel.h:369`: a look at an entry that no coroutine serves calls its listeners
  as well. A relay that takes a chunk there and cannot write it has nobody to try
  again. `NoChunkAbandoned` therefore speaks of coroutines.
- `posix/kernel.h:480`: the coroutine of an entry asks one `WAITING` bit for all of its
  listeners. Two relays of one descriptor share it, and the one that would block
  ends the coroutine while the other holds a chunk.
- `stream.h:49`: the two relays of `duplex` share the `WAITING` bits of the two
  sockets, and either can stop the other's coroutine.
- `posix/kernel.h:338-354`: with no task left the thread sleeps without limit; a poll
  timeout does not wake it, nor does another thread that closed the socket. A LITE
  poll that times out does not close its descriptor, one on epoll does.
- `posix/sleep.h:30`: `process::await` turns the kernel without moving the clock, so no
  timer fires inside it; a clock that is set back jumps ahead by 2^64 µs (`:37`).
- `posix/uring.h:190` finds the node of a completion by its address, and `queue.h:204-209`
  looks at no more than whose queue a node is in. `posix/socket.h:124-129` frees the node with
  its operation in flight: the late result lands in the half of a socket whose node was
  made at the same address and is taken for its own, and the system may still write into
  the memory of the freed one. With `heirs` not left out, TLC finds `DataExact` violated.
- `posix/uring.h:163` submits the bare descriptor number, and a turn that ran a task does not come
  to submit (`posix/kernel.h:231`): an operation that still waits in `sque` when its socket goes is
  done on the socket that got the number.
- `posix/uring.h:101-116` takes a verdict from a stale `errno`; more than sixteen
  operations queued at once wait for later turns (`:155-170`). On Windows three entries
  of key 0 may leave a finished operation asleep (`windows/kernel.h:180`), and `free()`
  gives back the memory of an operation in flight (`windows/iocp.h:164`).

Workers, processes, handles.
- `worker.h:77` leaves the state of a default worker unset, `worker.close()` closes the
  caller's thread, and `posix/worker.h:58` writes the wake-up before the reference is
  dropped, so `process::wait` may sleep for ever after the last worker.
- `popen.h`: the reader that meets the end first frees the node and drops what the
  other pipe still holds; a failed `fork` leaves `popen::resolve` pending; the
  destructor's `waitpid` loop spins when there is no child.
- `invoker.h:55`: after an answer of -1, `off` removes whoever has the node by then.
- `ptr.h:77`: `p = p` and `p = move(p)` lose the value; the count is a plain integer
  unless the build asks for an atomic one.

Streams, servers, files.
- `generator.h:491`: a chunk size line that arrives without data loses the data;
  `generator.h:30` reads past a range when the buffer is smaller; ws pongs are framed
  as data; `read_body` without streaming answers with one fragment.
- `stream.h:117,140`: the timeout of `readable()` and `writable()` is tested the wrong
  way round, and either is pending for ever when the stream is stopped meanwhile.
- `generator.h:34`: two tasks that read or write one stream share its generator, and a
  write that failed leaves its borrow. `fetch` never answers a HEAD (`http.h:311`).
- `socket.h:145-151`: EMFILE and ECONNRESET count as would-block. A server's `close()`
  does not stop the accepting task.
- `udp.h`: an empty datagram looks like an end; a late answer goes to whoever was
  read last; a client's server address is replaced by whoever sends to it.
- `fs.h:119,149`: `write_file` and `append_file` add only the last partial write to the
  count, so a message taken in pieces is written several times; `copy_file` onto
  itself empties the file.

Containers and text.
- `array.h:154` and `string.h:198`: `count()` answers -1; `array.h:162`: `reduce` reads one
  element past the end; `array.h:42`: `splice` with a negative start; `queue.h:260`:
  `splice` with a huge end.
- `string.h:175-178`: `<` and `>` follow `memcmp` wrongly; `:409,415` compare one
  symbol too few; `:510` the operator to bool is inverted; `:371` an inserted literal
  brings its null; replacing in place changes every copy.
- `regex.h:178`: an unbalanced pattern hangs; `{2,}` means exactly two; groups keep
  what failed attempts left. Nothing is ever given back: the pattern `a*ab` has no match
  in the text "aab", as `a*` takes both, and `(a|ab)c` none in "abc", as the first
  alternative that fits stays. `MatchesRight` therefore says of patterns with repetitions or
  groups that what is found is a match, not that every match is found.
- `object.h:134`: `has(index)` is off by one, `has(name)` empties an array; `json.h`
  garbles a key with a colon; `url::path` takes a slash of the query; `path.h` looks a
  type up without the dot that some of its keys have.
- `crypto.h`: the `free()` test of three coders is inverted, the position in an xor key
  jumps, X509 writers answer -1 for success (`:738,743`), a private key is never
  enciphered, `dh` swaps its halves; `zlib` pipes never finish the stream.
- `observer.h`, `event.h`: `clear()` inside an emission frees the event under its walk.

## Not modelled

`os.h`, `dns.h`, `console.h`, signals and arguments: system calls and tables. The test
runner. `date.h` (calendar arithmetic of libc) and `type.h` (compile time). The
arithmetic of OpenSSL and zlib and the TLS objects of `ssl.h` and `dssl.h`. The kqueue
branch and most of the Windows port: the same logic over other calls. `any_t`,
`function_t`, `optional_t`, `expected_t`, `tuple_t`: templates that a model cannot tell
apart. Workers made by workers, poll timeouts on epoll.

## Plan

What is left to prove: `DataExact` and `NoneLeftBehind` of `Rings` and `Iocp`, one kernel
after the other.
