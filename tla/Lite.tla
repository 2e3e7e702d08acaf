--------------------------------- MODULE Lite ---------------------------------
(***************************************************************************)
(* The LITE engine: class loop_t of loop.h 208-305, one queue without      *)
(* timers, under the LITE kernel of posix/kernel.h 895-1020, where a poll  *)
(* is a task that tries at every turn and where nothing ever sleeps        *)
(* (get_delay() is 0).  A coroutine that delays itself is run all the same *)
(* and yields until its time has come (coDelay, macros.h 99-101), which is *)
(* also what the timers of timer.h are made of.                            *)
(*                                                                         *)
(* Deadlines are kept relative to process::now(), as in Loop.              *)
(*                                                                         *)
(* Operators whose name starts with Bad are the definition that follows    *)
(* them with one plausible mistake in it; no specification uses them.      *)
(***************************************************************************)
EXTENDS Integers, Sequences, FiniteSets

CONSTANTS
    Tasks,          \* task nodes; a freed one may be added again
    Nil,            \* nullptr
    Delay,          \* what coDelay asks for, in milliseconds
    Timeout,        \* the timeout of a poll
    Step,           \* by how much one process::next() moves the clock
    MaxDepth        \* bound on nested next() calls

VARIABLES
    queue, act,     \* NODE::queue, front first, and its cursor
    flag,           \* task_t::flag
    kind,           \* what the callback of a task is
    due,            \* its deadline minus now, -1 once it has passed, or Nil
    stack           \* tasks whose callback is on the C++ stack, outermost first

vars == <<queue, act, flag, kind, due, stack>>

Queue == INSTANCE CursorList WITH Nodes <- Tasks, line <- queue, cursor <- act

Queued == Queue!Members
Frames == {stack[i] : i \in DOMAIN stack}
Top    == stack[Len(stack)]

\* plain     a callback that says itself how it goes on
\* timeout   waits with coDelay and ends; interval: and starts over
\* poll      a poll without a timeout; timed: one with
KINDS == {"plain", "timeout", "interval", "poll", "timed"}
Timers == {"timeout", "interval"}

Init ==
    /\ queue = <<>> /\ act = Nil
    /\ flag = [t \in Tasks |-> {}]
    /\ kind = [t \in Tasks |-> "plain"]
    /\ due = [t \in Tasks |-> Nil]
    /\ stack = <<>>

-----------------------------------------------------------------------------
(* What a program may do between turns and inside a callback.  Inside a    *)
(* coDelay that is not over there is no code of the program.               *)

Waiting(t) == kind[t] \in Timers /\ due[t] # Nil /\ due[t] > 0

InProgram == stack # <<>> => ~Waiting(Top)

\* A client that closed a running task neither adds one nor runs the loop
\* before that task has returned (as Disciplined in Loop).
Careful == \A t \in Frames : t \in Queued /\ "CLOSED" \notin flag[t]

\* loop_t::add, through loop_add or through poll_add.
Add(t, k) ==
    /\ InProgram /\ Frames \subseteq Queued
    /\ t \notin Queued \cup Frames
    /\ queue' = <<t>> \o queue
    /\ flag' = [flag EXCEPT ![t] = {"OPEN"}]
    /\ kind' = [kind EXCEPT ![t] = k]
    /\ due' = [due EXCEPT ![t] = IF k = "timed" THEN Timeout ELSE Nil]
    /\ UNCHANGED <<act, stack>>

Off(t) ==
    /\ InProgram
    /\ flag[t] # {} /\ "CLOSED" \notin flag[t]
    /\ flag' = [flag EXCEPT ![t] = {"CLOSED"}]
    /\ UNCHANGED <<queue, act, kind, due, stack>>

Clear ==
    /\ InProgram
    /\ queue' = <<>> /\ act' = Nil
    /\ UNCHANGED <<flag, kind, due, stack>>

\* next_time_interval()
Tick ==
    /\ InProgram
    /\ due' = [t \in Tasks |-> IF due[t] = Nil THEN Nil
                               ELSE IF due[t] < Step THEN -1 ELSE due[t] - Step]
    /\ UNCHANGED <<queue, act, flag, kind, stack>>

-----------------------------------------------------------------------------
(* loop_t::next(): a look at the node under the cursor.                    *)

Cursor == IF act = Nil THEN queue[1] ELSE act

SkipUsed ==
    /\ "USED" \in flag[Cursor]
    /\ act' = Queue!Ahead(Cursor)
    /\ UNCHANGED <<queue, flag, stack>>

ReapClosed ==
    /\ "USED" \notin flag[Cursor] /\ "CLOSED" \in flag[Cursor]
    /\ queue' = Queue!Drop(Cursor)
    /\ act' = IF Len(queue) = 1 THEN Nil ELSE Queue!After(Cursor)
    /\ UNCHANGED <<flag, stack>>

RunTask ==
    /\ flag[Cursor] \cap {"USED", "CLOSED"} = {}
    /\ act' = Cursor
    /\ flag' = [flag EXCEPT ![Cursor] = @ \cup {"USED"}]
    /\ stack' = Append(stack, Cursor)
    /\ UNCHANGED queue

LoopNext ==
    /\ InProgram /\ Careful
    /\ Len(stack) < MaxDepth
    /\ queue # <<>>
    /\ SkipUsed \/ ReapClosed \/ RunTask
    /\ UNCHANGED <<kind, due>>

-----------------------------------------------------------------------------
(* The callback of the innermost frame returns.                            *)

Returning == stack # <<>> /\ stack' = SubSeq(stack, 1, Len(stack) - 1)

Alive == queue # <<>> /\ Top \in Queued

\* Line 268: the loop was cleared meanwhile.
ReturnCleared ==
    /\ Returning /\ queue = <<>>
    /\ UNCHANGED <<queue, act, flag, kind, due>>

Yields ==
    /\ flag' = [flag EXCEPT ![Top] = @ \ {"USED"}]
    /\ act' = Queue!Ahead(act)
    /\ UNCHANGED queue

Ends ==
    /\ flag' = [flag EXCEPT ![Top] = {"CLOSED"}]
    /\ UNCHANGED <<queue, act>>

Holds == UNCHANGED <<queue, act, flag>>

ReturnPlain ==
    /\ kind[Top] = "plain"
    /\ Yields \/ Ends \/ Holds
    /\ UNCHANGED due

\* coDelay: entered once, then looked at again at every turn.
Sets(t)  == due[t] = Nil /\ Yields /\ due' = [due EXCEPT ![t] = Delay]
Waits(t) == Waiting(t) /\ Yields /\ UNCHANGED due
Over(t)  == due[t] # Nil /\ ~Waiting(t)

ReturnTimeout ==
    /\ kind[Top] = "timeout"
    /\ \/ Sets(Top) \/ Waits(Top)
       \/ Over(Top) /\ Ends /\ UNCHANGED due

\* coGoto(0) is a turn of its own, before the deadline is set again.
ReturnInterval ==
    /\ kind[Top] = "interval"
    /\ \/ Sets(Top) \/ Waits(Top)
       \/ Over(Top) /\ Yields /\ due' = [due EXCEPT ![Top] = Nil]

BadReturnPoll ==
    /\ kind[Top] \in {"poll", "timed"}
    /\ Yields \/ Ends
    /\ UNCHANGED due

\* The coroutine of poll_add: the listener may want no more; one that wants
\* more is tried again at the next turn, blocked or not, until its time is
\* over.
ReturnPoll ==
    /\ kind[Top] \in {"poll", "timed"}
    /\ \/ Ends
       \/ IF kind[Top] = "timed" /\ due[Top] < 0 THEN Ends ELSE Yields
    /\ UNCHANGED due

Return ==
    \/ ReturnCleared
    \/ /\ Returning /\ Alive
       /\ ReturnPlain \/ ReturnTimeout \/ ReturnInterval \/ ReturnPoll
       /\ UNCHANGED kind

Next ==
    \/ \E t \in Tasks : Off(t) \/ \E k \in KINDS : Add(t, k)
    \/ Clear \/ Tick \/ LoopNext \/ Return

Spec == Init /\ [][Next]_vars

Turn == stack = <<>> /\ LoopNext

-----------------------------------------------------------------------------
(* Properties.                                                             *)

Arrives == \E t \in Tasks, k \in KINDS : Add(t, k)
Nested  == stack # <<>> /\ LoopNext

Runnable(t) == t \in Queued /\ flag[t] = {"OPEN"}

\* A poll with a timeout has to end, a timer to go on once it has begun.
Pending(t) ==
    /\ t \in Queued /\ "OPEN" \in flag[t]
    /\ kind[t] = "timed" \/ (kind[t] \in Timers /\ due[t] # Nil)

\* The LITE engine implements the pool that the FULL one implements.
Pool == INSTANCE TaskPool WITH
    ready  <- Queued,
    asleep <- {},
    held   <- {t \in Tasks : "USED" \in flag[t]},
    shut   <- {t \in Tasks : "CLOSED" \in flag[t]},
    frames <- stack

ImplementsPool == Pool!PoolSpec
=============================================================================
