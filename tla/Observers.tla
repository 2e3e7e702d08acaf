------------------------------- MODULE Observers -------------------------------
(***************************************************************************)
(* observer_t (observer.h) on listener_t (listener.h): fields with         *)
(* listeners that are told the old and the new value before the field      *)
(* changes, and that may themselves set fields, watch and turn off.        *)
(*                                                                         *)
(* Each field has an event_t; the module Event has its detail, of which    *)
(* this one keeps what observers rest on: a field that is being announced  *)
(* announces nothing else, and forgets listeners when it has ended.        *)
(*                                                                         *)
(* Operators whose name starts with Bad are the definition that follows    *)
(* them with one plausible mistake in it; no specification uses them.      *)
(***************************************************************************)
EXTENDS Integers, Sequences, FiniteSets, SequencesExt

CONSTANTS
    Fields, Values,
    Ons,            \* listeners of on()
    Adds,           \* listeners of once() and add(), which may answer -1
    None

Watchers == Ons \cup Adds

VARIABLES
    list,           \* observer_t::list, the value of each field
    event,          \* observer_t::event, the listeners of each field in order
    tmp,            \* those to be erased when the announcement is over
    frames,         \* the calls of set() under way, each in a listener of
                    \* the one below: [name, n, value, cur, nxt, done]
    told            \* history: the value each listener was given last

vars == <<list, event, tmp, frames, told>>

Init ==
    /\ list \in [Fields -> Values]
    /\ event = [f \in Fields |-> <<>>]
    /\ tmp = {} /\ frames = <<>>
    /\ told = [l \in Watchers |-> None]

Used(f) == \E i \in DOMAIN frames : frames[i].name = f
Field(l) == {f \in Fields : l \in ToSet(event[f])}

Position(q, l) == CHOOSE i \in DOMAIN q : q[i] = l

\* The list q without the listener l, and without those of S.
Without(q, l) ==
    [i \in 1..Len(q) - 1 |-> IF i < Position(q, l) THEN q[i] ELSE q[i + 1]]

Kept(q, S) == {i \in DOMAIN q : q[i] \notin S}
Rank(K, i) == Cardinality({j \in K : j <= i})

Purged(q, S) ==
    LET kept == Kept(q, S)
    IN  [k \in 1..Cardinality(kept) |-> q[CHOOSE i \in kept : Rank(kept, i) = k]]

-----------------------------------------------------------------------------
(* on(), once() and add() of a field that there is.                        *)

Watch(l, f) ==
    /\ f \in DOMAIN list /\ Field(l) = {}
    /\ event' = [event EXCEPT ![f] = Append(@, l)]
    /\ told' = [told EXCEPT ![l] = None]
    /\ UNCHANGED <<list, tmp, frames>>

\* off(), in an announcement of the same field only of a listener that stays
\* in the list (see Event).
Off(l) ==
    /\ \E f \in Field(l) :
        IF Used(f)
        THEN l \in Ons /\ tmp' = tmp \cup {l} /\ UNCHANGED event
        ELSE event' = [event EXCEPT ![f] = Without(@, l)] /\ UNCHANGED tmp
    /\ UNCHANGED <<list, frames, told>>

\* clear() outside of announcements: the fields are gone for good.
Clear ==
    /\ frames = <<>>
    /\ list' = [f \in {} |-> None]
    /\ event' = [f \in Fields |-> <<>>]
    /\ UNCHANGED <<tmp, frames, told>>

\* A field that is not there: set() and get() throw, on() gives no handle.
Throws == DOMAIN list # Fields /\ UNCHANGED vars

-----------------------------------------------------------------------------
(* set(): the event is emitted and then the value is stored.               *)

Following(q, l) == IF l = q[Len(q)] THEN None ELSE q[Position(q, l) + 1]

Frame(f, v, l) ==
    [name |-> f, n |-> list[f], value |-> v, cur |-> l,
     nxt |-> Following(event[f], l), done |-> {l}]

BadSilent(f) == event[f] = <<>>                         \* announces again
Silent(f) == Used(f) \/ event[f] = <<>>

Store(f, v) == list' = [list EXCEPT ![f] = v]

Set(f, v) ==
    /\ f \in DOMAIN list
    /\ IF Silent(f)
       THEN Store(f, v) /\ UNCHANGED <<frames, told>>
       ELSE /\ frames' = Append(frames, Frame(f, v, event[f][1]))
            /\ told' = [told EXCEPT ![event[f][1]] = v]
            /\ UNCHANGED list
    /\ UNCHANGED <<event, tmp>>

Top == frames[Len(frames)]

Answered(q, l) == {q} \cup {Without(q, k) : k \in {l} \cap Adds}

Next_(q) ==
    /\ event' = [event EXCEPT ![Top.name] = q]
    /\ frames' = [frames EXCEPT ![Len(frames)] =
           [Top EXCEPT !.cur = Top.nxt, !.nxt = Following(q, Top.nxt),
                       !.done = Top.done \cup {Top.nxt}]]
    /\ told' = [told EXCEPT ![Top.nxt] = Top.value]
    /\ UNCHANGED <<list, tmp>>

Finishes(q) ==
    /\ event' = [event EXCEPT ![Top.name] = Purged(q, tmp)]
    /\ tmp' = tmp \ ToSet(q)
    /\ Store(Top.name, Top.value)
    /\ frames' = Front(frames)
    /\ UNCHANGED told

\* A listener returns to the innermost set().
Returns ==
    /\ frames # <<>>
    /\ \E q \in Answered(event[Top.name], Top.cur) :
        IF Top.nxt # None THEN Next_(q) ELSE Finishes(q)

Next ==
    \/ \E l \in Watchers : Off(l) \/ \E f \in Fields : Watch(l, f)
    \/ \E f \in Fields, v \in Values : Set(f, v)
    \/ Returns \/ Clear \/ Throws

Spec == Init /\ [][Next]_vars

-----------------------------------------------------------------------------
(* What a listener was told last is what the field holds, or what it is    *)
(* about to hold once the listener had its turn: the old value a listener  *)
(* is given is the new one it was given before, and at rest nobody has a   *)
(* value that is not the field's, although listeners set fields, their own *)
(* too, while they are told (observer.h set()).                            *)
InStep ==
    /\ \A f \in DOMAIN list : \A l \in ToSet(event[f]) :
        told[l] # None /\ ~Used(f) => told[l] = list[f]
    /\ \A i \in DOMAIN frames : \A l \in ToSet(event[frames[i].name]) :
        told[l] # None =>
            told[l] = IF l \in frames[i].done THEN frames[i].value ELSE frames[i].n
=============================================================================
