------------------------------- MODULE MCLoop -------------------------------
(* The two builds of loop_t, each in behaviours of its own: Loop with a     *)
(* clock that moves by two and passes a horizon of three while the delays   *)
(* are one and two, Lite with a clock whose step is shorter than its delay. *)
EXTENDS Loop

CONSTANTS LiteTasks, LiteDelay, LiteTimeout, LiteStep

VARIABLES engine, lqueue, lact, lflag, kind, due, lstack

Lite == INSTANCE Lite WITH
    Tasks <- LiteTasks, Delay <- LiteDelay, Timeout <- LiteTimeout,
    Step <- LiteStep, queue <- lqueue, act <- lact, flag <- lflag,
    stack <- lstack

liteVars == <<lqueue, lact, lflag, kind, due, lstack>>
all      == <<engine, vars, liteVars>>

FullStill == UNCHANGED <<queue, normal, act, blocked, flag, stack, left>>

\* Init of Lite holds of the engine that is not built in.
OnFull(A) == engine = "full" /\ A /\ UNCHANGED <<engine, liteVars>>
OnLite(A) == engine = "lite" /\ A /\ FullStill /\ UNCHANGED engine

TwoInit == engine \in {"full", "lite"} /\ Init /\ Lite!Init
TwoNext == OnFull(Next) \/ OnLite(Lite!Next)
TwoSpec == TwoInit /\ [][TwoNext]_all

-----------------------------------------------------------------------------
(* Fairness: process::wait() calls next() again and again, and each call    *)
(* reads the wall clock; every callback returns at some point, even one     *)
(* that runs the loop in between (its own return is possible infinitely     *)
(* often, hence strong fairness; so it is with the clock of Lite, which a   *)
(* waiting coroutine does not move).                                        *)

Ticks      == OnFull(\E e \in Steps : Tick(e)) \/ OnLite(Lite!Tick)
Turns      == OnFull(Turn) \/ OnLite(Lite!Turn)
Returns(t) ==
    \/ OnFull(stack # <<>> /\ Top = t /\ Return)
    \/ OnLite(lstack # <<>> /\ Lite!Top = t /\ Lite!Return)

TwoFairSpec ==
    /\ TwoSpec
    /\ SF_all(Ticks) /\ SF_all(Turns)
    /\ \A t \in Tasks : SF_all(Returns(t))

-----------------------------------------------------------------------------
(* Properties.                                                              *)

Arriving  == OnFull(Arrives) \/ OnLite(Lite!Arrives)
Nesting   == OnFull(Nested) \/ OnLite(Lite!Nested)
Unsettled == OnFull(Wakes) \/ Arriving \/ Nesting

RunnableIn(t) ==
    IF engine = "full" THEN Runnable(t) ELSE t \in LiteTasks /\ Lite!Runnable(t)

PendingIn(t) ==
    IF engine = "full" THEN t \in Sleepers ELSE t \in LiteTasks /\ Lite!Pending(t)

(* A runnable task is run (or turned off, or cleared) unless one of three   *)
(* things goes on for ever: arrivals or expiring timers, which are put at   *)
(* the front of the queue while every erase sends the cursor one node back  *)
(* (loop.h 67, 125, 193, 295 with queue.h 422), or nested turns, which move *)
(* the same cursor (loop.h 85, 109, 256, 276).                              *)
EveryTaskRuns ==
    []<><<Unsettled>>_all \/ \A t \in Tasks : RunnableIn(t) ~> ~RunnableIn(t)

(* A delayed task becomes ready again (or is cleared); on the LITE engine,  *)
(* where no timer wakes it and it has to be run to see the time, a timer    *)
(* goes on and a poll with a timeout ends unless arrivals or nested turns   *)
(* go on for ever.                                                          *)
DelayEnds ==
    \/ []<><<OnLite(Lite!Arrives \/ Lite!Nested)>>_all
    \/ \A t \in Tasks : PendingIn(t) ~> ~PendingIn(t)

(* Each engine implements the pool: whatever order its queue imposes, a     *)
(* task is started only while it is open and not running, and leaves the    *)
(* loop only after it was shut.                                             *)
PoolKept == ImplementsPool /\ Lite!ImplementsPool
=============================================================================
