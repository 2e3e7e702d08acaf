------------------------------ MODULE TaskPool ------------------------------
(***************************************************************************)
(* What a nodepp event loop promises to the program that hands it tasks,   *)
(* with every queue, cursor and timestamp forgotten.                       *)
(*                                                                         *)
(* A task is in the pool from the moment it is added until the loop reaps  *)
(* it, which may happen only after it was shut (turned off, or finished).  *)
(* A task in the pool is either ready or asleep.  A turn of the loop wakes *)
(* some sleepers and then starts one ready task, reaps one shut task, or   *)
(* does nothing.  Starting is allowed only for a task that is neither shut *)
(* nor held.  Turns nest: a running task may run the loop again.           *)
(***************************************************************************)
EXTENDS Integers, Sequences, FiniteSets

CONSTANT Tasks          \* identities of task nodes

VARIABLES
    ready,              \* tasks the loop may visit
    asleep,             \* tasks waiting for a timer
    held,               \* tasks that must not be started
    shut,               \* tasks that are finished or were turned off
    frames              \* the running tasks, outermost first

poolVars == <<ready, asleep, held, shut, frames>>

InPool  == ready \cup asleep
Running == {frames[i] : i \in DOMAIN frames}
Top     == frames[Len(frames)]

PoolInit ==
    /\ ready = {} /\ asleep = {} /\ held = {} /\ shut = {}
    /\ frames = <<>>

Enter(t) ==
    /\ t \notin InPool /\ t \notin Running
    /\ ready' = ready \cup {t}
    /\ held'  = held \ {t}
    /\ shut'  = shut \ {t}
    /\ UNCHANGED <<asleep, frames>>

Shut(t) ==
    /\ shut' = shut \cup {t}
    /\ held' = held \ {t}
    /\ UNCHANGED <<ready, asleep, frames>>

Empty ==
    /\ ready' = {} /\ asleep' = {}
    /\ UNCHANGED <<held, shut, frames>>

-----------------------------------------------------------------------------
(* One turn: the sleepers in W wake, then at most one task is touched.     *)

Pass(W) ==
    /\ ready'  = ready \cup W
    /\ asleep' = asleep \ W
    /\ UNCHANGED <<held, shut, frames>>

Start(W, t) ==
    /\ t \in ready \cup W
    /\ t \notin held \cup shut
    /\ ready'  = ready \cup W
    /\ asleep' = asleep \ W
    /\ held'   = held \cup {t}
    /\ frames' = Append(frames, t)
    /\ UNCHANGED shut

Reap(W, t) ==
    /\ t \in (ready \cup W) \cap shut
    /\ t \notin held \cup Running
    /\ ready'  = (ready \cup W) \ {t}
    /\ asleep' = asleep \ W
    /\ UNCHANGED <<held, shut, frames>>

-----------------------------------------------------------------------------
(* How the innermost running task gives control back.                      *)

Leave == frames # <<>> /\ frames' = SubSeq(frames, 1, Len(frames) - 1)

Yield ==
    /\ Leave
    /\ held' = held \ {Top}
    /\ UNCHANGED <<ready, asleep, shut>>

Finish ==
    /\ Leave
    /\ held' = held \ {Top}
    /\ shut' = shut \cup {Top}
    /\ UNCHANGED <<ready, asleep>>

Sleep ==
    /\ Leave
    /\ Top \in ready
    /\ held'   = held \ {Top}
    /\ ready'  = ready \ {Top}
    /\ asleep' = asleep \cup {Top}
    /\ UNCHANGED shut

Hold ==
    /\ Leave
    /\ UNCHANGED <<ready, asleep, held, shut>>

PoolNext ==
    \/ \E t \in Tasks : Enter(t) \/ Shut(t)
    \/ Empty
    \/ \E W \in SUBSET asleep :
          \/ Pass(W)
          \/ \E t \in Tasks : Start(W, t) \/ Reap(W, t)
    \/ Yield \/ Finish \/ Sleep \/ Hold

PoolSpec == PoolInit /\ [][PoolNext]_poolVars
=============================================================================
