------------------------------ MODULE QueueList ------------------------------
(***************************************************************************)
(* queue_t of queue.h: the doubly linked list with a cursor under the      *)
(* scheduler, the events and the kernel, pointer by pointer.               *)
(*                                                                         *)
(* Clients keep raw node addresses (task_t::auth, socket_t::pd, the        *)
(* coroutine of kernel_t::invoker) and hand them back later, so every      *)
(* operation takes any address; is_valid() tells the live ones by their    *)
(* signature, which erase() wipes before it frees the node.  The model     *)
(* reads a wiped signature in freed memory until the address is used again *)
(* by this queue.                                                          *)
(*                                                                         *)
(* Operators whose name starts with Bad are the definition that follows    *)
(* them with one plausible mistake in it; no specification uses them.      *)
(***************************************************************************)
EXTENDS Integers, Sequences, FiniteSets

CONSTANTS
    Nodes,              \* addresses of nodes
    Nil,                \* nullptr
    SwapNeighbours      \* TRUE: clients may swap two adjacent nodes

ASSUME QueueListAssumption ==
    /\ Nil \notin Nodes
    /\ SwapNeighbours \in BOOLEAN

VARIABLES
    next, prev,         \* NODE::next, NODE::prev
    sign,               \* the addresses whose signature is that of the queue
    fst, lst, act,      \* DONE
    length

vars == <<next, prev, sign, fst, lst, act, length>>

Null == [n \in Nodes |-> Nil]

Empty == length = 0
Last  == IF lst = Nil THEN fst ELSE lst

\* if( n!=nullptr ){ n->field = v; }
Write(f, n, v) == IF n = Nil THEN f ELSE [f EXCEPT ![n] = v]

Init ==
    /\ next = Null /\ prev = Null /\ sign = {}
    /\ fst = Nil /\ lst = Nil /\ act = Nil
    /\ length = 0

-----------------------------------------------------------------------------
(* insert(n, value): a fresh node m in front of n, or behind the last one  *)
(* if n is no node of the queue.                                           *)

InsertFirst(m) ==
    /\ Empty
    /\ fst' = m /\ lst' = m
    /\ UNCHANGED <<next, prev>>

InsertBefore(n, m) ==
    /\ ~Empty /\ n \in sign
    /\ next' = [Write(next, prev[n], m) EXCEPT ![m] = n]
    /\ prev' = [prev EXCEPT ![m] = prev[n], ![n] = m]
    /\ lst' = IF next[n] = Nil THEN n ELSE lst
    /\ fst' = IF prev[n] = Nil THEN m ELSE fst

InsertLast(n, m) ==
    /\ ~Empty /\ n \notin sign
    /\ next' = [next EXCEPT ![Last] = m]
    /\ prev' = [prev EXCEPT ![m] = Last]
    /\ fst' = IF prev[Last] = Nil THEN Last ELSE fst
    /\ lst' = m

Insert(n, m) ==
    /\ m \notin sign /\ n # m
    /\ InsertFirst(m) \/ InsertBefore(n, m) \/ InsertLast(n, m)
    /\ sign' = sign \cup {m}
    /\ length' = length + 1
    /\ UNCHANGED act

-----------------------------------------------------------------------------
(* erase(n), pop(), shift(), clear().                                      *)

Victim(n) == IF n = Nil THEN Last ELSE n

Unlinked(e) ==
    /\ next' = [Write(next, prev[e], next[e]) EXCEPT ![e] = Nil]
    /\ prev' = [Write(prev, next[e], prev[e]) EXCEPT ![e] = Nil]

\* next() on the cursor, after fst has been moved.
CursorPast(e) ==
    IF e # act THEN act
    ELSE IF next[e] # Nil THEN next[e]
    ELSE IF prev[e] = Nil THEN Nil ELSE fst

EraseUnless(e, wrong) ==
    /\ ~Empty /\ ~wrong
    /\ lst' = IF next[e] = Nil THEN prev[e] ELSE lst
    /\ fst' = IF prev[e] = Nil THEN next[e] ELSE fst
    /\ act' = CursorPast(e)
    /\ Unlinked(e)
    /\ sign' = sign \ {e}
    /\ length' = length - 1

Erase(n)    == EraseUnless(Victim(n), Victim(n) \notin sign)

Clear ==
    /\ next' = Null /\ prev' = Null /\ sign' = {}
    /\ fst' = Nil /\ lst' = Nil /\ act' = Nil
    /\ length' = 0

-----------------------------------------------------------------------------
(* The cursor: next(), prev(), set(x), and get(), which sets a cursor that *)
(* was never set.                                                          *)

Steer(c) == act' = c /\ UNCHANGED <<next, prev, sign, fst, lst, length>>

Next_ ==
    /\ ~Empty
    /\ Steer(IF act = Nil \/ next[act] = Nil THEN fst ELSE next[act])

Prev_ ==
    /\ ~Empty
    /\ Steer(IF act = Nil \/ prev[act] = Nil THEN Last ELSE prev[act])

Set(x) == x \in sign /\ Steer(x)

Get == ~Empty /\ act = Nil /\ Steer(fst)

-----------------------------------------------------------------------------
(* move(n, x): node x in front of n, or behind the last one.               *)

BadMoveFst(n, x) == IF fst = x THEN next[x] ELSE fst

MoveFst(n, x) == IF fst = n \/ (fst = x /\ next[x] = n) THEN x
                 ELSE IF fst = x THEN next[x] ELSE fst

MoveBefore(n, x) ==
    LET nx == Write(next, prev[x], next[x])         \* x taken out
        pv == Write(prev, next[x], prev[x])
    IN  /\ n \in sign /\ n # x
        /\ next' = [Write(nx, pv[n], x) EXCEPT ![x] = n]
        /\ prev' = [pv EXCEPT ![x] = pv[n], ![n] = x]
        /\ fst' = MoveFst(n, x)
        /\ lst' = IF lst = x THEN prev[x] ELSE lst

MoveLast(n, x) ==
    /\ n \notin sign /\ lst # x
    /\ prev' = [Write(prev, next[x], prev[x]) EXCEPT ![x] = lst]
    /\ next' = [Write(next, prev[x], next[x]) EXCEPT ![x] = Nil, ![lst] = x]
    /\ fst' = IF fst = x THEN next[x] ELSE fst
    /\ lst' = x

Move(n, x) ==
    /\ x \in sign
    /\ MoveBefore(n, x) \/ MoveLast(n, x)
    /\ UNCHANGED <<sign, act, length>>

-----------------------------------------------------------------------------
(* swap(n, x): the ends, the four pointers of the two nodes, then those of *)
(* their neighbours one after the other, and a repair for nodes that point *)
(* to themselves.                                                          *)

Other(p, n, x) == IF p = n THEN x ELSE IF p = x THEN n ELSE p
Pick(n)        == IF n \in sign THEN n ELSE lst

\* if( n->prev!=nullptr ){ n->prev->next=n; } and its mirror image, with the
\* pointers as they are when the line is reached.
PointBack(h, n) == [h EXCEPT !.next = Write(@, h.prev[n], n)]
PointOn(h, n)   == [h EXCEPT !.prev = Write(@, h.next[n], n)]

Repair(f, n, x) ==
    IF f[x] = x THEN [f EXCEPT ![x] = n]
    ELSE IF f[n] = n THEN [f EXCEPT ![n] = x] ELSE f

Swapped(n, x) ==
    LET a == [next |-> [next EXCEPT ![n] = next[x], ![x] = next[n]],
              prev |-> [prev EXCEPT ![n] = prev[x], ![x] = prev[n]]]
        b == PointOn(PointBack(PointOn(PointBack(a, n), n), x), x)
    IN  [next |-> Repair(b.next, n, x), prev |-> Repair(b.prev, n, x)]

Swap(m, y) ==
    LET n == Pick(m)
        x == Pick(y)
        h == Swapped(n, x)
    IN  /\ ~Empty /\ n # x
        /\ SwapNeighbours \/ (next[n] # x /\ next[x] # n)
        /\ fst' = Other(fst, n, x)
        /\ lst' = Other(lst, n, x)
        /\ next' = h.next /\ prev' = h.prev
        /\ UNCHANGED <<sign, act, length>>

-----------------------------------------------------------------------------
Next ==
    \/ \E n \in Nodes \cup {Nil} : Erase(n)
    \/ \E n \in Nodes \cup {Nil}, x \in Nodes :
          Insert(n, x) \/ Move(n, x) \/ Swap(n, x)
    \/ \E x \in Nodes : Set(x)
    \/ Next_ \/ Prev_ \/ Get
    \/ Clear

Spec == Init /\ [][Next]_vars

-----------------------------------------------------------------------------
Pointers == Nodes \cup {Nil}

\* Every pointer is null or an address; the length counts the live nodes.
TypeOK ==
    /\ next \in [Nodes -> Pointers] /\ prev \in [Nodes -> Pointers]
    /\ sign \subseteq Nodes
    /\ {fst, lst, act} \subseteq Pointers
    /\ length = Cardinality(sign)

\* The nodes a traversal visits, from fst along next.
Chain(f, start) ==
    LET c[i \in 1..length] ==
            IF i = 1 THEN start
            ELSE LET p == c[i - 1] IN IF p = Nil THEN Nil ELSE f[p]
    IN  c

Forward == Chain(next, fst)

-----------------------------------------------------------------------------
List == INSTANCE CursorList WITH line <- Forward, cursor <- act

\* The pointers implement a sequence of nodes with a cursor.
ImplementsList == List!ListSpec

\* ...and every operation is the one it is called after: what a traversal
\* finds later is what was inserted, moved, swapped or erased, in that place.
EachOperation ==
    [][/\ \A n \in Nodes \cup {Nil}, x \in Nodes :
             /\ Insert(n, x) => List!PutNew(n, x)
             /\ Move(n, x) => List!Relocate(n, x)
             /\ Swap(n, x) => List!Exchange(Pick(n), Pick(x))
       /\ \A n \in Nodes \cup {Nil} : Erase(n) => List!TakeOut(Victim(n))
       /\ Next_ => List!StepForward
       /\ Prev_ => List!StepBack]_vars
=============================================================================
