------------------------------ MODULE MCPromise ------------------------------
(* Promises on a small instance (the bound on nested frames is MaxDepth),  *)
(* and, apart from them, all() and any() of at most MaxSize promises: the  *)
(* topic of a behaviour is one or the other, what it is not about rests.   *)
EXTENDS Promise

CONSTANT MaxSize

ASSUME MCPromiseAssumption == MaxSize \in Nat

VARIABLES topic, kind, size, status, pc, count, index, outcome

Joined == INSTANCE Combinators

joinedVars == <<kind, size, status, pc, count, index, outcome>>

allVars == <<topic, vars, joinedVars>>

MCInit ==
    /\ topic \in {"promise", "combinator"}
    /\ Init /\ Joined!Init
    /\ topic = "promise" =>
         kind = "all" /\ size = 0 /\ \A i \in Joined!Joined : status[i] = "off"

Apart(A) == topic = "combinator" /\ A /\ UNCHANGED <<topic, vars>>

MCNext ==
    \/ topic = "promise" /\ Next /\ UNCHANGED <<topic, joinedVars>>
    \/ Apart(Joined!Next)

MCSpec == MCInit /\ [][MCNext]_allVars /\ Fairness /\ WF_allVars(Apart(Joined!Turn))

AnswerSound == Joined!AnswerSound

(* await() returns, and once the promises that decide all() or any() are    *)
(* settled so is the one it gave.                                           *)
AnswersCome ==
    AwaitEnds /\ (Joined!Decided /\ topic = "combinator" ~> outcome # "pending")
=============================================================================
