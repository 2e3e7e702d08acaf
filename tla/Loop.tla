-------------------------------- MODULE Loop --------------------------------
(***************************************************************************)
(* The cooperative scheduler of nodepp: class loop_t of loop.h (the FULL   *)
(* engine, lines 31-200) over the queue of queue.h, driven by              *)
(* process::next / kernel_t::next and by the callbacks themselves, which   *)
(* may add and turn off tasks and run the loop again before they return    *)
(* (process::await, promise_t::await).                                     *)
(*                                                                         *)
(* Time.  process::now() is a per-thread value that only process::next()   *)
(* moves (nodepp.h:68, posix/sleep.h:32).  Every deadline is kept relative *)
(* to it: wake = wake_time - now.  The code compares deadlines only with   *)
(* now and with one another, and all expired ones are treated alike, so    *)
(* values below zero are kept as -1 and the clock itself needs no bound.   *)
(*                                                                         *)
(* Operators whose name starts with Bad are the definition that follows    *)
(* them with one plausible mistake in it; no specification uses them.      *)
(***************************************************************************)
EXTENDS Integers, Sequences, FiniteSets

CONSTANTS
    Tasks,          \* task nodes; a freed one may be added again
    Nil,            \* nullptr
    Delays,         \* the delays coDelay asks for, in milliseconds
    Steps,          \* by how much one process::next() may move the clock
    Horizon,        \* milliseconds left before now passes (uchar_32)-1
    Never,          \* the Horizon of a run that stays below it
    MaxDepth,       \* bound on nested next() calls
    Disciplined     \* TRUE: clients never re-enter under a closed frame

ASSUME LoopAssumption ==
    /\ Nil \notin Tasks
    /\ Delays \subseteq Nat \ {0}
    /\ Steps \subseteq Nat \ {0}
    /\ Never \notin Int
    /\ Horizon \in Nat \cup {Never}
    /\ MaxDepth \in Nat \ {0}
    /\ Disciplined \in BOOLEAN

VARIABLES
    queue,          \* NODE::queue, the live task nodes
    normal,         \* NODE::normal, front first
    act,            \* the cursor of normal
    blocked,        \* NODE::blocked, front first
    flag,           \* task_t::flag
    stack,          \* tasks whose callback is on the C++ stack, outermost first
    left            \* (uchar_32)-1 - now, -1 once negative, or Never

vars == <<queue, normal, act, blocked, flag, stack, left>>

FLAGS == {"OPEN", "USED", "CLOSED"}

AtLeastMinusOne(n) == IF n < -1 THEN -1 ELSE n

\* min( d+process::now(), max__time ), relative to now
Deadline(d) == IF left = Never \/ d < left THEN d ELSE left

Elems(s)  == {s[i] : i \in DOMAIN s}
Sleepers  == {blocked[i].task : i \in DOMAIN blocked}
Frames    == Elems(stack)
Top       == stack[Len(stack)]
Popped    == SubSeq(stack, 1, Len(stack) - 1)

-----------------------------------------------------------------------------
(* queue_t, as far as the scheduler uses it.  No node is twice in a queue  *)
(* (NoTaskLost), so a node is named by the task it carries.                *)

Position(s, x) == CHOOSE i \in DOMAIN s : s[i] = x

\* queue_t::get(): a cursor that was never set starts at the front.
Cursor(s) == IF act = Nil THEN s[1] ELSE act

\* queue_t::prev(): one step towards the front, from there to the back.
PrevOf(s, c) ==
    IF s = <<>> THEN c
    ELSE IF c = Nil \/ c = s[1] THEN s[Len(s)]
    ELSE s[Position(s, c) - 1]

\* queue_t::next() inside erase(): one step towards the back, from there to
\* the front of what is left.
NextOf(s, c) ==
    IF Len(s) = 1 THEN Nil
    ELSE IF c = s[Len(s)] THEN s[1]
    ELSE s[Position(s, c) + 1]

\* queue_t::erase(x): the other nodes keep their order; a cursor on x moves.
Without(s, x) ==
    LET p == Position(s, x)
    IN  [i \in 1..Len(s) - 1 |-> IF i < p THEN s[i] ELSE s[i + 1]]
CursorWithout(s, c, x) == IF c = x THEN NextOf(s, c) ELSE c

-----------------------------------------------------------------------------
Init ==
    /\ queue = {} /\ normal = <<>> /\ act = Nil /\ blocked = <<>>
    /\ flag = [t \in Tasks |-> {}]
    /\ stack = <<>>
    /\ left = Horizon

(* What a program may do between turns and inside a callback.              *)

\* loop_t::add: appended to queue, put at the front of normal.
Add(t) ==
    /\ t \notin queue \cup Frames
    /\ Disciplined => Frames \subseteq queue
    /\ queue'  = queue \cup {t}
    /\ normal' = <<t>> \o normal
    /\ flag'   = [flag EXCEPT ![t] = {"OPEN"}]
    /\ UNCHANGED <<act, blocked, stack, left>>

\* loop_t::off(task): an assignment, so USED is dropped as well.  The node
\* stays where it is until the cursor reaches it.
Off(t) ==
    /\ flag[t] # {}
    /\ "CLOSED" \notin flag[t]
    /\ flag' = [flag EXCEPT ![t] = {"CLOSED"}]
    /\ UNCHANGED <<queue, normal, act, blocked, stack, left>>

\* loop_t::clear(): every node of the three queues is freed, the handles
\* keep their flags.
Clear ==
    /\ queue' = {} /\ normal' = <<>> /\ blocked' = <<>>
    /\ act' = Nil
    /\ UNCHANGED <<flag, stack, left>>

\* next_time_interval() at the head of process::next().
Tick(e) ==
    /\ left' = IF left = Never THEN Never ELSE AtLeastMinusOne(left - e)
    /\ blocked' = [i \in DOMAIN blocked |->
                     [blocked[i] EXCEPT !.wake = AtLeastMinusOne(@ - e),
                                        !.owed = AtLeastMinusOne(@ - e)]]
    /\ UNCHANGED <<queue, normal, act, flag, stack>>

-----------------------------------------------------------------------------
(* loop_t::next().  blocked_queue_next moves the first k sleepers, those   *)
(* whose deadline has passed, one by one to the front of normal; then      *)
(* normal_queue_next looks at the node under the cursor.                   *)

\* A deadline that is now counts as passed.
BadFirstExpired(k) ==
    /\ \A i \in 1..k : blocked[i].wake <= 0
    /\ k < Len(blocked) => blocked[k + 1].wake > 0

FirstExpired(k) ==
    /\ \A i \in 1..k : blocked[i].wake < 0
    /\ k < Len(blocked) => blocked[k + 1].wake >= 0

Woken(k) == [i \in 1..k |-> blocked[k + 1 - i].task]
Line(k)  == Woken(k) \o normal
WakeUp(k) == blocked' = SubSeq(blocked, k + 1, Len(blocked))

\* A callback that closed a frame of the C++ stack must not run the loop
\* again: the turn could free the node that frame is still using.
MayEnter ==
    /\ Len(stack) < MaxDepth
    /\ Disciplined => \A t \in Frames : "CLOSED" \notin flag[t]

NothingReady(k) ==
    /\ Line(k) = <<>>
    /\ UNCHANGED <<queue, normal, act, flag, stack>>

SkipUsed(k) ==
    LET x == Cursor(Line(k)) IN
    /\ Line(k) # <<>>
    /\ "USED" \in flag[x]
    /\ normal' = Line(k)
    /\ act' = PrevOf(Line(k), x)
    /\ UNCHANGED <<queue, flag, stack>>

ReapClosed(k) ==
    LET x == Cursor(Line(k)) IN
    /\ Line(k) # <<>>
    /\ "USED" \notin flag[x]
    /\ "CLOSED" \in flag[x]
    /\ normal' = Without(Line(k), x)
    /\ act' = NextOf(Line(k), x)
    /\ queue' = queue \ {x}
    /\ UNCHANGED <<flag, stack>>

RunUnless(k, bits) ==
    LET x == Cursor(Line(k)) IN
    /\ Line(k) # <<>>
    /\ flag[x] \cap bits = {}
    /\ normal' = Line(k)
    /\ act' = x
    /\ flag' = [flag EXCEPT ![x] = @ \cup {"USED"}]
    /\ stack' = Append(stack, x)
    /\ UNCHANGED queue

BadRunUsed(k)   == RunUnless(k, {"CLOSED"})     \* line 84 is missing
BadRunClosed(k) == RunUnless(k, {"USED"})       \* line 88 is missing
RunTask(k)      == RunUnless(k, {"USED", "CLOSED"})

LoopNext ==
    /\ MayEnter
    /\ \E k \in 0..Len(blocked) :
          /\ FirstExpired(k)
          /\ WakeUp(k)
          /\ NothingReady(k) \/ SkipUsed(k) \/ ReapClosed(k) \/ RunTask(k)
    /\ UNCHANGED left

-----------------------------------------------------------------------------
(* The callback of the innermost frame returns c, with a delay or without. *)
(* If the loop was cleared meanwhile the frame leaves without a trace; a   *)
(* node freed under a frame of a non-empty loop is used after its free,    *)
(* which has no step here (it cannot happen when Disciplined).             *)

Returning == stack # <<>> /\ stack' = Popped

ReturnCleared ==                                       \* line 98
    /\ Returning
    /\ normal = <<>>
    /\ UNCHANGED <<queue, normal, act, blocked, flag, left>>

Alive == normal # <<>> /\ Top \in queue

\* The cursor stays on the task that yields.
BadReturnYield ==
    /\ Returning /\ Alive
    /\ flag' = [flag EXCEPT ![Top] = @ \ {"USED"}]
    /\ UNCHANGED <<queue, normal, act, blocked, left>>

ReturnYield ==                                         \* GOT1
    /\ Returning /\ Alive
    /\ flag' = [flag EXCEPT ![Top] = @ \ {"USED"}]
    /\ act' = PrevOf(normal, act)
    /\ UNCHANGED <<queue, normal, blocked, left>>

ReturnEnd ==                                           \* GOT2
    /\ Returning /\ Alive
    /\ flag' = [flag EXCEPT ![Top] = {"CLOSED"}]
    /\ UNCHANGED <<queue, normal, act, blocked, left>>

\* get_nearest_timeout: behind the last sleeper that wakes no later.
Nearest(i, w) ==
    /\ i > 0 => w >= blocked[i].wake
    /\ \A j \in i + 1..Len(blocked) : w < blocked[j].wake

Inserted(i, r) ==
    [j \in 1..Len(blocked) + 1 |->
        IF j <= i THEN blocked[j] ELSE IF j = i + 1 THEN r ELSE blocked[j - 1]]

Block(d) ==
    \E i \in 0..Len(blocked) :
       /\ Nearest(i, Deadline(d))
       /\ blocked' = Inserted(i, [task |-> Top, wake |-> Deadline(d), owed |-> d])

BadDelayStays(d) ==                                    \* line 125 is missing
    /\ Returning /\ Alive
    /\ Block(d)
    /\ flag' = [flag EXCEPT ![Top] = @ \ {"USED"}]
    /\ UNCHANGED <<queue, normal, act, left>>

ReturnDelay(d) ==                                      \* GOT3
    /\ Returning /\ Alive
    /\ Block(d)
    /\ flag' = [flag EXCEPT ![Top] = @ \ {"USED"}]
    /\ normal' = Without(normal, Top)
    /\ act' = CursorWithout(normal, act, Top)
    /\ UNCHANGED <<queue, left>>

ReturnBlock ==                                         \* GOT4
    /\ Returning /\ Alive
    /\ UNCHANGED <<queue, normal, act, blocked, flag, left>>

Return ==
    \/ ReturnCleared \/ ReturnYield \/ ReturnEnd \/ ReturnBlock
    \/ \E d \in Delays : ReturnDelay(d)

Next ==
    \/ \E t \in Tasks : Add(t) \/ Off(t)
    \/ Clear
    \/ \E e \in Steps : Tick(e)
    \/ LoopNext
    \/ Return

Spec == Init /\ [][Next]_vars

-----------------------------------------------------------------------------
(* Fairness: process::wait() calls next() again and again, and each call   *)
(* reads the wall clock; every callback returns at some point, even one    *)
(* that runs the loop in between (its own return is possible infinitely    *)
(* often, hence strong fairness).                                          *)

Turn     == stack = <<>> /\ LoopNext
Fairness ==
    /\ WF_vars(\E e \in Steps : Tick(e))
    /\ SF_vars(Turn)
    /\ \A t \in Tasks : SF_vars(stack # <<>> /\ Top = t /\ Return)

FairSpec == Spec /\ Fairness

-----------------------------------------------------------------------------
SleepRec == [task : Tasks, wake : Int, owed : Int]

\* Every variable has its type; the clock and the deadlines stay >= -1.
TypeOK ==
    /\ queue \subseteq Tasks
    /\ normal \in Seq(Tasks)
    /\ act \in Tasks \cup {Nil}
    /\ blocked \in Seq(SleepRec)
    /\ flag \in [Tasks -> SUBSET FLAGS]
    /\ stack \in Seq(Tasks)
    /\ left \in Nat \cup {-1, Never}

NoDuplicates(s) == \A i, j \in DOMAIN s : s[i] = s[j] => i = j

\* Every live node is in exactly one of normal and blocked, exactly once, and
\* neither holds a pointer to a freed node: whatever turns nest and whatever
\* is added, turned off or erased under the cursor, no task is lost and none
\* is queued twice (loop.h 66-69, 89-90, 124-125, 192-193).
NoTaskLost ==
    /\ NoDuplicates(normal)
    /\ \A i, j \in DOMAIN blocked : blocked[i].task = blocked[j].task => i = j
    /\ Elems(normal) \cap Sleepers = {}
    /\ Elems(normal) \cup Sleepers = queue

\* The cursor is null or on a node of normal: get() at line 78 never returns
\* a freed node.
CursorValid == act # Nil => act \in Elems(normal)

\* A task is at most once on the C++ stack, and as long as the loop was not
\* cleared its node is live, in normal, and protected by USED or CLOSED: the
\* references x and y of normal_queue_next (lines 80-81) stay good across the
\* callback, and no nested turn re-enters a running coroutine.
RunningAlive ==
    /\ NoDuplicates(stack)
    /\ queue # {} => \A t \in Frames :
          t \in Elems(normal) /\ flag[t] \cap {"USED", "CLOSED"} # {}

\* A sleeper is never marked USED: it would wake into a normal queue that
\* skips it for ever (lines 84-86, 118).
SleepersFree == \A t \in Sleepers : "USED" \notin flag[t]

\* blocked stays sorted by deadline although entries are made in any order,
\* from nested turns, and are capped at the horizon; blocked_queue_next looks
\* at its front only and would oversleep otherwise (lines 48-55, 62-66).
BlockedSorted ==
    \A i, j \in DOMAIN blocked : i <= j => blocked[i].wake <= blocked[j].wake

\* A sleeper leaves blocked only when more than the delay it asked for has
\* passed, when the loop is cleared, or beyond the 32-bit horizon of the
\* clock, after which every delay is over at once (lines 120-121).
NoEarlyWake ==
    [][\A i \in DOMAIN blocked :
          \/ \E j \in DOMAIN blocked' : blocked'[j].task = blocked[i].task
          \/ queue' = {}
          \/ blocked[i].owed < 0
          \/ left = -1]_vars

-----------------------------------------------------------------------------
(* Liveness.                                                               *)

Wakes   == \E k \in 1..Len(blocked) : FirstExpired(k) /\ WakeUp(k)
Arrives == \E t \in Tasks : Add(t)

Runnable(t) == t \in Elems(normal) /\ flag[t] = {"OPEN"}

Nested  == stack # <<>> /\ LoopNext

-----------------------------------------------------------------------------
(* The abstract pool this scheduler implements.                            *)

Pool == INSTANCE TaskPool WITH
    ready  <- Elems(normal),
    asleep <- Sleepers,
    held   <- {t \in Tasks : "USED" \in flag[t]},
    shut   <- {t \in Tasks : "CLOSED" \in flag[t]},
    frames <- stack

\* Every behaviour of the scheduler is one of the pool: whatever order the
\* queues impose, a task is started only while it is open and not running,
\* and leaves the loop only after it was shut.
ImplementsPool == Pool!PoolSpec
=============================================================================
