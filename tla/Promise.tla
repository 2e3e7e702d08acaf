------------------------------- MODULE Promise -------------------------------
(***************************************************************************)
(* promise_t of promise.h: promises that are settled by closures anybody   *)
(* may hold and call, their then/fail/finally callbacks, and await(), which *)
(* runs the event loop until its promise is no longer pending.             *)
(*                                                                         *)
(* Everything runs on one C++ stack.  stack holds what is active on it:    *)
(* calls of await() and emissions of the two events of a settled promise.  *)
(* A callback may do whatever the program may do, so it nests further      *)
(* frames.  The listeners are once-listeners: each is erased when its call *)
(* returns (Event.tla).  res_clb and rej_clb never both fire, and are one  *)
(* sequence per promise and outcome here.                                  *)
(*                                                                         *)
(* Operators whose name starts with Bad are the definition that follows    *)
(* them with one plausible mistake in it; no specification uses them.      *)
(***************************************************************************)
EXTENDS Integers, Sequences, FiniteSets

CONSTANTS
    Promises,
    Callbacks,      \* identities of then/fail/finally callbacks
    Values,         \* what a promise may be settled with
    Nil,            \* an empty any_t
    MaxDepth        \* bound on the frames of the C++ stack

ASSUME PromiseAssumption ==
    /\ Nil \notin Values
    /\ MaxDepth \in Nat \ {0}

VARIABLES
    state,          \* NODE::state of each promise, the bits that are set
    value,          \* NODE::value
    executor,       \* its task: "none", "queued" or "run" (then res and rej are out)
    clb,            \* the listeners of each promise, per event, in order
    stack,          \* active await() and emit() calls, outermost first
    log             \* history: callbacks called, in order, with what they were given

vars == <<state, value, executor, clb, stack, log>>

Outcomes == {"RESOLVED", "REJECTED"}
Events   == Outcomes \cup {"FINALLY"}
Bits     == Outcomes \cup {"PENDING", "FINISHED", "CLOSED", "RESOLVING", "REJECTING"}

Is(p, bit)  == bit \in state[p]
Settled(p)  == value[p] # Nil /\ state[p] \cap Outcomes # {}
Outcome(p)  == CHOOSE o \in Outcomes : Is(p, o)
Elems(s)    == {s[i] : i \in DOMAIN s}
Logged      == {log[i].callback : i \in DOMAIN log}
Attached    == UNION {Elems(clb[p][e]) : p \in Promises, e \in Events}

Top         == stack[Len(stack)]
Popped      == SubSeq(stack, 1, Len(stack) - 1)
InCallback  == stack # <<>> /\ Top.does \in Events

Init ==
    /\ state = [p \in Promises |-> {}]
    /\ value = [p \in Promises |-> Nil]
    /\ executor = [p \in Promises |-> "none"]
    /\ clb = [p \in Promises |-> [e \in Events |-> <<>>]]
    /\ stack = <<>> /\ log = <<>>

-----------------------------------------------------------------------------
(* event_t::emit of the listeners of p for e, called by a promise: not at  *)
(* all when there are none or when this emission is already on the stack.  *)
(* Calling the first listener is part of starting, calling the next one    *)
(* part of the return of the one before.                                   *)

Used(s, p, e) == \E i \in DOMAIN s : s[i] = [does |-> e, promise |-> p]
BadFires(s, p, e) == clb[p][e] # <<>>                  \* is_used() is not asked
Fires(s, p, e) == clb[p][e] # <<>> /\ ~Used(s, p, e)

Call(p, e, i) ==
    log' = Append(log, [callback |-> clb[p][e][i], promise |-> p,
                        event |-> e, got |-> value'[p]])
Enter(s, p, e) == stack' = Append(s, [does |-> e, promise |-> p]) /\ Call(p, e, 1)

\* promise_t::emit(): the listeners of the outcome, then those of finally.
\* s is the stack it returns to.
EmitFinally(s, p) ==
    \/ Fires(s, p, "FINALLY") /\ Enter(s, p, "FINALLY")
    \/ ~Fires(s, p, "FINALLY") /\ stack' = s /\ UNCHANGED log

BadEmit(s, p, o) == EmitFinally(s, p)                  \* line 115 or 120 is missing
Emit(s, p, o) ==
    \/ Fires(s, p, o) /\ Enter(s, p, o)
    \/ ~Fires(s, p, o) /\ EmitFinally(s, p)

\* The callback on top returns and is erased; the emission goes on.
NextListener ==
    /\ Len(clb[Top.promise][Top.does]) > 1
    /\ Call(Top.promise, Top.does, 2)
    /\ UNCHANGED stack

LastListener ==
    /\ Len(clb[Top.promise][Top.does]) = 1
    /\ \/ Top.does \in Outcomes /\ EmitFinally(Popped, Top.promise)
       \/ Top.does = "FINALLY" /\ stack' = Popped /\ UNCHANGED log

CallbackReturns ==
    /\ InCallback
    /\ clb' = [clb EXCEPT ![Top.promise][Top.does] = Tail(@)]
    /\ UNCHANGED <<state, value, executor>>
    /\ NextListener \/ LastListener

-----------------------------------------------------------------------------
(* The program, between turns of the loop and inside callbacks.            *)

\* promise_t( cb ): pending, with the task that will run cb.
Construct(p) ==
    /\ state[p] = {}
    /\ state' = [state EXCEPT ![p] = {"PENDING"}]
    /\ executor' = [executor EXCEPT ![p] = "queued"]
    /\ UNCHANGED <<value, clb, stack, log>>

\* A turn of the loop runs cb, which has res and rej from then on.  (The loop
\* runs between turns, inside await(), and where a callback calls next().)
RunExecutor(p) ==
    /\ executor[p] = "queued"
    /\ executor' = [executor EXCEPT ![p] = "run"]
    /\ UNCHANGED <<state, value, clb, stack, log>>

\* then, fail, finally: dropped when p is finished or closed.
Listen(p, e, c, bits) ==
    /\ state[p] # {}
    /\ c \notin Logged \cup Attached
    /\ state' = [state EXCEPT ![p] = @ \cup bits]
    /\ clb' = [clb EXCEPT ![p][e] = Append(@, c)]
    /\ UNCHANGED <<value, executor, stack, log>>

Attach(p, e, c, bits) ==
    state[p] \cap {"FINISHED", "CLOSED"} = {} /\ Listen(p, e, c, bits)

Then(p, c)    == Attach(p, "RESOLVED", c, {"RESOLVING"})
Fail(p, c)    == Attach(p, "REJECTED", c, {"REJECTING"})
Finally(p, c) == Attach(p, "FINALLY", c, {})

\* off(), close(): PENDING stays.
Off(p) ==
    /\ ~Is(p, "CLOSED")
    /\ state' = [state EXCEPT ![p] = @ \cup {"CLOSED"}]
    /\ UNCHANGED <<value, executor, clb, stack, log>>

\* res( v ) and rej( v ).  Both return at once when p is closed.
SettledState(p, o) == {"FINISHED", o, "CLOSED"}

Mark(p, o, v) ==
    /\ state' = [state EXCEPT ![p] = SettledState(p, o)]
    /\ value' = [value EXCEPT ![p] = v]
    /\ Emit(stack, p, o)
    /\ UNCHANGED <<executor, clb>>

MaySettle(p) == executor[p] = "run" /\ Len(stack) < MaxDepth
BadSettle(p, o, v) == MaySettle(p) /\ Mark(p, o, v)    \* lines 65, 71 are missing
Settle(p, o, v)    == MaySettle(p) /\ ~Is(p, "CLOSED") /\ Mark(p, o, v)

\* get_value(), and the destructor of the last handle: emit again.
GetValue(p) ==
    /\ Settled(p)
    /\ Len(stack) < MaxDepth
    /\ UNCHANGED <<state, value, executor, clb>>
    /\ Emit(stack, p, Outcome(p))

Await(p) ==
    /\ Is(p, "PENDING")
    /\ Len(stack) < MaxDepth
    /\ stack' = Append(stack, [does |-> "AWAIT", promise |-> p])
    /\ UNCHANGED <<state, value, executor, clb, log>>

\* The loop of line 131 sees that p is not pending, and get_value() emits.
AwaitUntil(done) ==
    /\ stack # <<>> /\ Top.does = "AWAIT"
    /\ done
    /\ UNCHANGED <<state, value, executor, clb>>
    /\ Emit(Popped, Top.promise, Outcome(Top.promise))

AwaitReturns    == AwaitUntil(~Is(Top.promise, "PENDING"))

Next ==
    \/ \E p \in Promises :
          \/ Construct(p) \/ RunExecutor(p) \/ Off(p) \/ GetValue(p) \/ Await(p)
          \/ \E c \in Callbacks : Then(p, c) \/ Fail(p, c) \/ Finally(p, c)
          \/ \E o \in Outcomes, v \in Values : Settle(p, o, v)
    \/ CallbackReturns
    \/ AwaitReturns

Spec == Init /\ [][Next]_vars

\* A call of await() and a callback that can go on do so.
Fairness == SF_vars(AwaitReturns) /\ SF_vars(CallbackReturns)

FairSpec == Spec /\ Fairness

-----------------------------------------------------------------------------
Frame == [does : Events \cup {"AWAIT"}, promise : Promises]
Entry == [callback : Callbacks, promise : Promises, event : Events, got : Values]

\* Every variable has its type, and a promise has a value exactly when it is
\* finished, then closed, with one outcome and no longer pending.
TypeOK ==
    /\ state \in [Promises -> SUBSET Bits]
    /\ value \in [Promises -> Values \cup {Nil}]
    /\ executor \in [Promises -> {"none", "queued", "run"}]
    /\ clb \in [Promises -> [Events -> Seq(Callbacks)]]
    /\ stack \in Seq(Frame)
    /\ log \in Seq(Entry)
    /\ \A p \in Promises :
          IF value[p] = Nil
          THEN state[p] \cap (Outcomes \cup {"FINISHED"}) = {}
          ELSE \E o \in Outcomes : state[p] = {"FINISHED", o, "CLOSED"}

\* Whoever calls res or rej first decides: the outcome and the value of a
\* settled promise never change, although any number of timers, awaits and
\* callbacks may hold the closures (lines 65, 71).
SettledOnce ==
    [][\A p \in Promises :
          value[p] # Nil => value'[p] = value[p] /\ state'[p] = state[p]]_vars

\* No callback is called twice, and none for an outcome or with a value its
\* promise did not get: emissions nest through get_value(), await() and the
\* destructor, each of which emits again (lines 80, 96, 115-121).
CalledFittingly ==
    /\ \A i, j \in DOMAIN log : log[i].callback = log[j].callback => i = j
    /\ \A i \in DOMAIN log :
          /\ log[i].got = value[log[i].promise]
          /\ log[i].event \in {"FINALLY", Outcome(log[i].promise)}

Reacting(p) == \E i \in DOMAIN stack :
                  stack[i].promise = p /\ stack[i].does \in Events

\* Once a promise is settled and its emissions are over, every callback that
\* was attached for its outcome and every finally has been called: none
\* slips in behind the emission (lines 150, 160, 170) or is skipped by it.
NoReactionLost ==
    \A p \in Promises :
       Settled(p) /\ ~Reacting(p) => clb[p][Outcome(p)] = <<>> /\ clb[p]["FINALLY"] = <<>>

Awaited(p) == \E i \in DOMAIN stack : stack[i] = [does |-> "AWAIT", promise |-> p]

\* Every await() returns, unless some promise stays pending for ever: its own
\* or one that is awaited above it on the stack, turned off or never settled
\* (lines 104, 131).
AwaitEnds ==
    \/ \E q \in Promises : <>[]Is(q, "PENDING")
    \/ \A p \in Promises : Awaited(p) ~> ~Awaited(p)
=============================================================================
