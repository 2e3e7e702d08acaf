-------------------------------- MODULE Event --------------------------------
(***************************************************************************)
(* event_t of event.h: a list of listeners, emission that walks the list   *)
(* while the listeners it calls subscribe, unsubscribe, clear and emit,    *)
(* and removal by a handle that names its node by address.                 *)
(*                                                                         *)
(* An address is a member of Slots.  A freed slot may be used again by the *)
(* next subscription, and queue_t::as() accepts any address whose memory   *)
(* carries the signature of the list: it finds the node that lives there   *)
(* now, or none.                                                           *)
(*                                                                         *)
(* Operators whose name starts with Bad are the definition that follows    *)
(* them with one plausible mistake in it; no specification uses them.      *)
(***************************************************************************)
EXTENDS Integers, Sequences, FiniteSets

CONSTANTS
    On, Once, Add,  \* listeners, by the call that subscribes them: their
                    \* callbacks return 1, -1, and what they like
    Slots,          \* addresses of list nodes
    Nil,            \* nullptr
    Disciplined     \* TRUE: off() only where a removal is well defined

Listeners == On \cup Once \cup Add

ASSUME EventAssumption ==
    /\ On \cap Once = {} /\ On \cap Add = {} /\ Once \cap Add = {}
    /\ Nil \notin Listeners \cup Slots
    /\ Disciplined \in BOOLEAN

VARIABLES
    que,            \* NODE::que, the subscribed listeners in order
    at,             \* the address in a listener's handle, Nil before it has one
    flag,           \* task_t::flag of the handle
    tmp,            \* NODE::tmp, addresses to erase when the emission is over
    state,          \* the bits of NODE::state that are set
    pc,             \* "idle", "calling" a listener, or "sweep" of tmp
    cur, nxt,       \* x and y of emit()
    \* history
    excused,        \* listeners that were turned off, returned -1 or were cleared
    present,        \* listeners the running emission found
    called          \* how often it has called each

vars == <<que, at, flag, tmp, state, pc, cur, nxt, excused, present, called>>
node == <<cur, nxt, pc>>
hist == <<excused, present, called>>

Elems(s)   == {s[i] : i \in DOMAIN s}
Subscribed == {l \in Listeners : at[l] # Nil}
Used       == "USED" \in state

\* queue_t::as(): the node that lives at the address, if any.
LivesAt(a) == {l \in Elems(que) : at[l] = a}

\* queue_t::erase(l), and the node after l.
Position(q, l) == CHOOSE i \in DOMAIN q : q[i] = l
Erased(l) ==
    LET p == Position(que, l)
    IN  [i \in 1..Len(que) - 1 |-> IF i < p THEN que[i] ELSE que[i + 1]]

\* The walk uses the cyclic queue_t::next() instead of the link.
BadAfter(q, l) == q[(Position(q, l) % Len(q)) + 1]
After(q, l) == IF l = q[Len(q)] THEN Nil ELSE q[Position(q, l) + 1]

-----------------------------------------------------------------------------
Init ==
    /\ que = <<>> /\ tmp = <<>> /\ state = {} /\ pc = "idle"
    /\ cur = Nil /\ nxt = Nil
    /\ at   = [l \in Listeners |-> Nil]
    /\ flag = [l \in Listeners |-> "UNKNOWN"]
    /\ excused = {} /\ present = {}
    /\ called = [l \in Listeners |-> 0]

\* The program acts between emissions and inside the callbacks of one.
UserCode == pc \in {"idle", "calling"}

\* add, once, on: pushed at the back, at an address the allocator picks.  A
\* listener may subscribe anew when it is gone, with a new handle.
Subscribe(l, a) ==
    /\ UserCode
    /\ l \notin Elems(que)
    /\ LivesAt(a) = {}
    /\ que'  = Append(que, l)
    /\ at'   = [at EXCEPT ![l] = a]
    /\ flag' = [flag EXCEPT ![l] = "OPEN"]
    /\ excused' = excused \ {l}
    /\ present' = present \ {l}
    /\ called' = [called EXCEPT ![l] = 0]
    /\ UNCHANGED <<tmp, state, node>>

\* A handle whose node is still subscribed and will not free itself during
\* this emission: the calls of off() that do what they say.
Sound(l) == l \in Elems(que) /\ (pc = "idle" \/ l \in On)

\* off(l) = clear(task).  Outside an emission the node found at the address
\* is erased at once, inside one the address is kept for later.
EraseNow(l) == (\E m \in LivesAt(at[l]) : que' = Erased(m)) /\ UNCHANGED tmp
BadRemoval(l) == EraseNow(l)                            \* line 87 is missing
Removal(l) ==
    \/ Used  /\ tmp' = Append(tmp, at[l]) /\ UNCHANGED que
    \/ ~Used /\ EraseNow(l)

Off(l) ==
    /\ UserCode
    /\ que # <<>>
    /\ flag[l] = "OPEN"
    /\ LivesAt(at[l]) # {}
    /\ Disciplined => Sound(l)
    /\ flag' = [flag EXCEPT ![l] = "CLOSED"]
    /\ Removal(l)
    /\ excused' = excused \cup {l}
    /\ UNCHANGED <<at, state, node, present, called>>

\* clear(): during an emission only KILL is set.
Empty == que' = <<>> /\ excused' = excused \cup Elems(que)
Clear ==
    /\ UserCode
    /\ \/ Used  /\ state' = state \cup {"KILL"} /\ UNCHANGED <<que, excused>>
       \/ ~Used /\ state' = state \ {"KILL"} /\ Empty
    /\ UNCHANGED <<at, flag, tmp, node, present, called>>

\* stop() and skip(), which set a bit each that is tested and reset together.
Pause ==
    /\ UserCode
    /\ state' = state \cup {"STOP"}
    /\ UNCHANGED <<que, at, flag, tmp, node, hist>>

Resume ==
    /\ UserCode
    /\ state' = state \ {"STOP"}
    /\ UNCHANGED <<que, at, flag, tmp, node, hist>>

-----------------------------------------------------------------------------
(* emit().  A nested emit returns at line 109 and changes nothing.  The    *)
(* test of line 116 is not here: it compares a task flag with a bit no     *)
(* task ever has (8; TASK_STATE::CLOSED is 4), so it never skips anybody.  *)

Visit(q, l, calls) ==
    /\ cur' = l /\ nxt' = After(q, l) /\ pc' = "calling"
    /\ called' = [calls EXCEPT ![l] = @ + 1]

EmitWith(bits) ==
    /\ pc = "idle"
    /\ state \cap {"STOP", "USED"} = {}
    /\ que # <<>>
    /\ state' = state \cup bits
    /\ present' = Elems(que)
    /\ Visit(que, que[1], [l \in Listeners |-> 0])
    /\ UNCHANGED <<que, at, flag, tmp, excused>>

EmitStart == EmitWith({"USED"})

Answers(l) == {c \in {1, -1} : (l \in On => c = 1) /\ (l \in Once => c = -1)}

\* The callback of cur returns c.  Its successor was read before the call
\* (line 114), so what it subscribed is visited only if cur was not last.
CallReturns(c) ==
    /\ pc = "calling"
    /\ c \in Answers(cur)
    /\ \/ c = -1 /\ que' = Erased(cur) /\ excused' = excused \cup {cur}
       \/ c = 1  /\ UNCHANGED <<que, excused>>
    /\ \/ nxt # Nil /\ Visit(que', nxt, called)
       \/ nxt = Nil /\ pc' = "sweep" /\ cur' = Nil /\ UNCHANGED <<nxt, called>>
    /\ UNCHANGED <<at, flag, tmp, state, present>>

\* The next item of tmp.map: erase( as(item) ).  An item that is no node any more gives
\* erase( nullptr ), which erases the last listener (queue.h 417).
BadDoomed(a) == {que[Len(que)]}                         \* pop() instead
Doomed(a) == IF LivesAt(a) # {} THEN LivesAt(a) ELSE {que[Len(que)]}
SweepThen(rest) ==
    /\ pc = "sweep"
    /\ tmp # <<>>
    /\ tmp' = rest
    /\ \/ que = <<>> /\ UNCHANGED que
       \/ que # <<>> /\ \E m \in Doomed(Head(tmp)) : que' = Erased(m)
    /\ UNCHANGED <<at, flag, state, node, hist>>

BadSweepOne == SweepThen(tmp)                           \* n is not advanced
SweepOne    == SweepThen(Tail(tmp))

Forget == present' = {} /\ called' = [l \in Listeners |-> 0]

\* Lines 123-124: USED is dropped, and a KILL set meanwhile clears the list,
\* with the listeners that were subscribed after it.
EmitEnd ==
    /\ pc = "sweep" /\ tmp = <<>> /\ pc' = "idle"
    /\ Forget
    /\ state' = state \ {"USED", "KILL"}
    /\ \/ "KILL" \in state /\ Empty
       \/ "KILL" \notin state /\ UNCHANGED <<que, excused>>
    /\ UNCHANGED <<at, flag, tmp, cur, nxt>>

Next ==
    \/ \E l \in Listeners, a \in Slots : Subscribe(l, a)
    \/ \E l \in Listeners : Off(l)
    \/ Clear \/ Pause \/ Resume
    \/ EmitStart
    \/ \E c \in {1, -1} : CallReturns(c)
    \/ SweepOne
    \/ EmitEnd

Spec == Init /\ [][Next]_vars

\* Callbacks return and emit() runs to its end.
Fairness ==
    /\ WF_vars(\E c \in {1, -1} : CallReturns(c))
    /\ WF_vars(SweepOne) /\ WF_vars(EmitEnd)

FairSpec == Spec /\ Fairness

-----------------------------------------------------------------------------
\* Every variable has its type, and USED is set exactly during an emission.
TypeOK ==
    /\ que \in Seq(Listeners)
    /\ at \in [Listeners -> Slots \cup {Nil}]
    /\ flag \in [Listeners -> {"UNKNOWN", "OPEN", "CLOSED"}]
    /\ tmp \in Seq(Slots)
    /\ state \subseteq {"STOP", "USED", "KILL"}
    /\ pc \in {"idle", "calling", "sweep"} /\ (pc = "idle" <=> ~Used)
    /\ {cur, nxt} \subseteq Listeners \cup {Nil}
    /\ excused \subseteq Listeners /\ present \subseteq Listeners
    /\ called \in [Listeners -> Nat]

\* A listener leaves the list only because it was turned off, returned -1 or
\* was cleared, and between emissions everyone with such a reason has left:
\* nobody else is removed in its place, whatever callbacks do to the list
\* that is being walked (event.h 87-88, 118, 122-124).
LeaveExactly ==
    /\ Subscribed \ excused \subseteq Elems(que)
    /\ pc = "idle" => Elems(que) \cap excused = {}

\* The two nodes emit() holds across a callback stay in the list: x is freed
\* only by emit() itself and y is never freed under it (lines 113-120).
WalkAlive == pc = "calling" => cur \in Elems(que) /\ nxt \in Elems(que) \cup {Nil}

\* One emission calls every listener it found exactly once, and one that was
\* subscribed meanwhile at most once, although callbacks edit the list.
OncePerEmission ==
    /\ \A l \in Listeners : called[l] <= 1
    /\ pc = "sweep" => \A l \in present : called[l] = 1

\* An emission does not leave work to the next one: no removal is pending and
\* no clear is, so one asked for inside an emission cannot hit a listener
\* that is subscribed later (lines 122-124).
NothingPending == pc = "idle" => tmp = <<>> /\ state \cap {"USED", "KILL"} = {}

\* An emission ends, unless its callbacks subscribe new listeners for ever:
\* each of them is visited by the same emission.
Grows == pc = "calling" /\ \E l \in Listeners, a \in Slots : Subscribe(l, a)
EmissionEnds == []<><<Grows>>_vars \/ (pc # "idle" ~> pc = "idle")

\* What test/event.cpp:46-52 relies on: a listener made by on(), that nobody
\* turned off or cleared, is still there.
InnocentStays == Subscribed \cap On \subseteq Elems(que) \cup excused
=============================================================================
