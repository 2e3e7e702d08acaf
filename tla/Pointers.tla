-------------------------------- MODULE Pointers --------------------------------
(***************************************************************************)
(* ptr_t: handles on counted nodes.  A handle sees a window of the array   *)
(* that its node holds; the last one to leave destroys the value and then  *)
(* the node.  Threads hold handles of their own on nodes they share and    *)
(* hand handles over, as a worker gets those its task has captured.        *)
(*                                                                         *)
(* An assignment is not one step: it leaves the old node, and only then    *)
(* joins the new one.  The count is that of atomic_ptr_t, which ptr_t is   *)
(* if NODEPP_ALLOW_PTR_ATOMIC_COUNTER is 1; by default its count is plain, *)
(* which is the same while the handles on a node stay on one thread.       *)
(* What the value's destructor does is left out, and so is the window of a *)
(* handle on no node, which nobody looks at.                               *)
(*                                                                         *)
(* Operators whose name starts with Bad are the definition that follows    *)
(* them with one plausible mistake in it; no specification uses them.      *)
(***************************************************************************)
EXTENDS Integers, Sequences, FiniteSets

CONSTANTS
    Threads, Handles,
    Nodes,          \* names of nodes, used again
    Lengths,        \* lengths asked for; 0 is one value, no array
    Windows,        \* pairs that slice() is called with
    None            \* no node

VARIABLES
    owner,          \* the thread a handle belongs to
    addr, view,     \* of a handle: the node, the window [from, to)
    node,           \* of the nodes there are: count, length, value
    todo            \* of a thread: what is left of its operation

vars == <<owner, addr, view, node, todo>>

NoView == [from |-> 0, to |-> 0]

Init ==
    /\ \E t \in Threads : owner = [h \in Handles |-> t]
    /\ addr = [h \in Handles |-> None]
    /\ view = [h \in Handles |-> NoView]
    /\ node = << >>
    /\ todo = [t \in Threads |-> <<>>]

Exists(n) == n \in DOMAIN node

\* _null_(): no node, or one whose value is gone.
Null(h) == addr[h] = None \/ node[addr[h]].value = "gone" \/ node[addr[h]].count = 0

Then(t, ops) == todo' = [todo EXCEPT ![t] = ops \o Tail(@)]

\* The operation that thread t is at.
At(t, op) == todo[t] # <<>> /\ todo[t][1][1] = op
Arg(t, i) == todo[t][1][i]

-----------------------------------------------------------------------------
(* The operations, as the steps they consist of.                           *)

Start(t, ops) == todo[t] = <<>> /\ todo' = [todo EXCEPT ![t] = ops]

Mine(t) == {h \in Handles : owner[h] = t}

\* operator=( const ptr_t& ), operator=( ptr_t&& ), clear(), resize().  A
\* handle that is given itself is left before it is asked.
Assign(t, h, g) == {h, g} \subseteq Mine(t) /\ Start(t, << <<"drop", h>>, <<"take", h, g>> >>)
Move(t, h, g)   == {h, g} \subseteq Mine(t) /\ Start(t, << <<"drop", h>>, <<"move", h, g>> >>)
Clear(t, h)     == h \in Mine(t) /\ addr[h] # None /\ Start(t, << <<"drop", h>> >>)
Resize(t, h, n) ==
    /\ h \in Mine(t)
    /\ Start(t, IF addr[h] = None THEN << <<"make", h, n>> >>
                ELSE << <<"drop", h>>, <<"remake", h, n>> >>)

\* A new handle of copy(): a node of its own, as long as the window.
CopyOut(t, h, g) ==
    /\ {h, g} \subseteq Mine(t) /\ ~Null(h) /\ addr[g] = None
    /\ Start(t, << <<"make", g, view[h].to - view[h].from>> >>)

\* free(): the value goes, whoever else holds it.  That no other thread does
\* is left to the caller.
Free(t, h) ==
    /\ h \in Mine(t) /\ ~Null(h)
    /\ \A g \in Handles : addr[g] = addr[h] => owner[g] = t
    /\ Start(t, << <<"destroy", addr[h]>> >>)

Least(a, b) == IF a < b THEN a ELSE b

Sliced(v, len, x, y) ==
    LET to == Least(y, len) IN
    IF x > to THEN NoView
    ELSE [from |-> Least(len, x + v.from), to |-> Least(len, to + v.from)]

Slice(t, h, x, y) ==
    /\ h \in Mine(t) /\ todo[t] = <<>> /\ ~Null(h)
    /\ view' = [view EXCEPT ![h] = Sliced(@, node[addr[h]].length, x, y)]
    /\ UNCHANGED <<owner, addr, node, todo>>

\* A handle goes to another thread: captured by a task, or through a channel.
Send(t, h, u) ==
    /\ h \in Mine(t) /\ u # t /\ todo[t] = <<>>
    /\ owner' = [owner EXCEPT ![h] = u]
    /\ UNCHANGED <<addr, view, node, todo>>

-----------------------------------------------------------------------------
(* The steps.                                                              *)

\* _del_(): of a node whose value was freed the handle stays where it is.
Drop(t) ==
    /\ At(t, "drop")
    /\ LET h == Arg(t, 2)  n == addr[h] IN
       IF n = None \/ node[n].count = 0
       THEN Then(t, <<>>) /\ UNCHANGED <<addr, view, node>>
       ELSE /\ node' = [node EXCEPT ![n].count = @ - 1]
            /\ addr' = [addr EXCEPT ![h] = None]
            /\ view' = [view EXCEPT ![h] = NoView]
            /\ Then(t, IF node[n].count = 1 THEN << <<"destroy", n>>, <<"delete", n>> >> ELSE <<>>)
    /\ UNCHANGED owner

\* _free_().
Destroy(t) ==
    /\ At(t, "destroy")
    /\ node' = [node EXCEPT ![Arg(t, 2)] = [count |-> 0, length |-> @.length, value |-> "gone"]]
    /\ Then(t, <<>>)
    /\ UNCHANGED <<owner, addr, view>>

Delete(t) ==
    /\ At(t, "delete")
    /\ node' = [n \in DOMAIN node \ {Arg(t, 2)} |-> node[n]]
    /\ Then(t, <<>>)
    /\ UNCHANGED <<owner, addr, view>>

\* _cpy_(): looks at the node, then counts itself.
Take(t) ==
    /\ At(t, "take")
    /\ LET h == Arg(t, 2)  g == Arg(t, 3) IN
       IF Null(g) THEN Then(t, <<>>) /\ UNCHANGED <<addr, view>>
       ELSE /\ addr' = [addr EXCEPT ![h] = addr[g]]
            /\ view' = [view EXCEPT ![h] = view[g]]
            /\ Then(t, << <<"add", addr[g], node[addr[g]].count>> >>)
    /\ UNCHANGED <<owner, node>>

\* seen: the count when the node was looked at.  The count that is not atomic
\* is set to one more than that.
BadCounted(now, seen) == seen + 1
Counted(now, seen) == now + 1

Add(t) ==
    /\ At(t, "add")
    /\ node' = [node EXCEPT ![Arg(t, 2)].count = Counted(@, Arg(t, 3))]
    /\ Then(t, <<>>)
    /\ UNCHANGED <<owner, addr, view>>

\* _mve_().
MoveOver(t) ==
    /\ At(t, "move")
    /\ LET h == Arg(t, 2)  g == Arg(t, 3) IN
       IF Null(g) THEN UNCHANGED <<addr, view>>
       ELSE /\ addr' = [addr EXCEPT ![h] = addr[g], ![g] = None]
            /\ view' = [view EXCEPT ![h] = view[g], ![g] = NoView]
    /\ Then(t, <<>>)
    /\ UNCHANGED <<owner, node>>

\* _new_(): resize() of a handle whose value was freed only forgets the node,
\* and the value that was asked for is not made.
Make(t) ==
    /\ At(t, "make") \/ At(t, "remake")
    /\ LET h == Arg(t, 2) IN
       IF addr[h] # None
       THEN /\ addr' = [addr EXCEPT ![h] = IF At(t, "remake") THEN None ELSE @]
            /\ view' = [view EXCEPT ![h] = IF At(t, "remake") THEN NoView ELSE @]
            /\ UNCHANGED node
       ELSE \E n \in Nodes \ DOMAIN node :
            /\ node' = [m \in DOMAIN node \cup {n} |->
                           IF m = n THEN [count |-> 1, length |-> Arg(t, 3), value |-> "live"]
                           ELSE node[m]]
            /\ addr' = [addr EXCEPT ![h] = n]
            /\ view' = [view EXCEPT ![h] = [from |-> 0, to |-> Arg(t, 3)]]
    /\ Then(t, <<>>)
    /\ UNCHANGED owner

-----------------------------------------------------------------------------

Operation(t) ==
    /\ \E h, g \in Handles :
          \/ Assign(t, h, g) \/ Move(t, h, g) \/ CopyOut(t, h, g)
          \/ Clear(t, h) \/ Free(t, h)
          \/ \E n \in Lengths : Resize(t, h, n)
    /\ UNCHANGED <<owner, addr, view, node>>

Next ==
    \E t \in Threads :
        \/ Operation(t)
        \/ \E h \in Handles, w \in Windows : Slice(t, h, w[1], w[2])
        \/ \E h \in Handles, u \in Threads : Send(t, h, u)
        \/ Drop(t) \/ Destroy(t) \/ Delete(t)
        \/ Take(t) \/ Add(t) \/ MoveOver(t) \/ Make(t)

Spec == Init /\ [][Next]_vars

-----------------------------------------------------------------------------

Pending(op, n) == {t \in Threads : \E i \in DOMAIN todo[t] : todo[t][i][1] = op /\ todo[t][i][2] = n}

(* A node is there as long as a handle is on it or a thread is to work on  *)
(* it, its count is the number of handles that have counted themselves,    *)
(* and a value is destroyed exactly once: by free(), or by the one that    *)
(* was the last to leave, which then deletes the node.                     *)
CountsExact ==
    /\ \A h \in Handles : addr[h] # None => Exists(addr[h])
    /\ \A n \in Nodes : \A op \in {"destroy", "delete", "add"} : Pending(op, n) # {} => Exists(n)
    /\ \A n \in DOMAIN node :
          /\ node[n].value = "live" =>
                /\ node[n].count = Cardinality({h \in Handles : addr[h] = n}) - Cardinality(Pending("add", n))
                /\ node[n].count = 0 => Pending("destroy", n) # {}
          /\ Cardinality(Pending("destroy", n)) <= 1
          /\ Pending("destroy", n) # {} => node[n].value = "live"
          /\ Pending("delete", n) # {} => \A h \in Handles : addr[h] # n

(* A handle sees a window inside the array of its node.                    *)
ViewsInside ==
    \A h \in Handles : ~Null(h) =>
        0 <= view[h].from /\ view[h].from <= view[h].to /\ view[h].to <= node[addr[h]].length
=============================================================================
