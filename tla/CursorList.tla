------------------------------ MODULE CursorList ------------------------------
(***************************************************************************)
(* What queue_t promises: a finite sequence of distinct nodes with one     *)
(* cursor, which is nowhere or on a node of the sequence.  The scheduler   *)
(* (Loop) and the events (Event) are modelled on such sequences.           *)
(***************************************************************************)
EXTENDS Integers, Sequences

CONSTANTS Nodes, Nil

VARIABLES
    line,           \* the nodes from first() to last()
    cursor          \* the node get() returns, Nil before it was first set

listVars == <<line, cursor>>

Members   == {line[i] : i \in DOMAIN line}
At(x)     == CHOOSE i \in DOMAIN line : line[i] = x
Drop(x)   == SubSeq(line, 1, At(x) - 1) \o SubSeq(line, At(x) + 1, Len(line))
After(x)  == line[(At(x) % Len(line)) + 1]
Ahead(x)  == IF At(x) = 1 THEN line[Len(line)] ELSE line[At(x) - 1]

\* s with x put in front of its element n, or behind everything.
PutBefore(s, n, x) ==
    IF \E i \in DOMAIN s : s[i] = n
    THEN LET i == CHOOSE j \in DOMAIN s : s[j] = n
         IN  SubSeq(s, 1, i - 1) \o <<x>> \o SubSeq(s, i, Len(s))
    ELSE Append(s, x)

ListInit == line = <<>> /\ cursor = Nil

PutNew(n, x) ==
    /\ x \notin Members
    /\ line' = PutBefore(line, n, x)
    /\ UNCHANGED cursor

\* The cursor moves on from a node that goes: to the next one, from the last
\* to the first, and to nowhere when nothing is left.
TakeOut(x) ==
    /\ x \in Members
    /\ line' = Drop(x)
    /\ cursor' = IF cursor # x THEN cursor
                 ELSE IF Len(line) = 1 THEN Nil ELSE After(x)

Relocate(n, x) ==
    /\ x \in Members /\ n # x
    /\ line' = PutBefore(Drop(x), n, x)
    /\ UNCHANGED cursor

Exchange(n, x) ==
    /\ n \in Members /\ x \in Members
    /\ line' = [line EXCEPT ![At(n)] = x, ![At(x)] = n]
    /\ UNCHANGED cursor

StepForward ==
    /\ line # <<>>
    /\ cursor' = IF cursor = Nil THEN line[1] ELSE After(cursor)
    /\ UNCHANGED line

StepBack ==
    /\ line # <<>>
    /\ cursor' = IF cursor = Nil THEN line[Len(line)] ELSE Ahead(cursor)
    /\ UNCHANGED line

PlaceOn(x) == x \in Members /\ cursor' = x /\ UNCHANGED line

Forget == line' = <<>> /\ cursor' = Nil

ListNext ==
    \/ \E n \in Nodes \cup {Nil}, x \in Nodes : PutNew(n, x) \/ Relocate(n, x)
    \/ \E x \in Nodes : TakeOut(x) \/ PlaceOn(x)
    \/ \E n, x \in Nodes : Exchange(n, x)
    \/ StepForward \/ StepBack \/ Forget

ListSpec == ListInit /\ [][ListNext]_listVars
=============================================================================
