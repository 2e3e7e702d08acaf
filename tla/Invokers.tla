------------------------------- MODULE Invokers -------------------------------
(***************************************************************************)
(* invoker_t (invoker.h) on handler_t (handler.h): callbacks that are      *)
(* called by the address add() gave out, for as long as off() or an answer *)
(* of -1 has not taken them away.  A callback may call the invoker again.  *)
(*                                                                         *)
(* An address is the node of the list, masked by pac (Codecs), which gives  *)
(* back what it was made of.  A node that is freed can become that of      *)
(* another callback; its old address then leads there.                     *)
(***************************************************************************)
EXTENDS Integers, Sequences

CONSTANTS
    Places,         \* nodes of the list
    MaxMade,        \* bound on the callbacks ever added
    MaxFrames       \* bound on the emissions inside one another

VARIABLES
    que,            \* que[n]: the callback of the node n, or 0
    place,          \* place[k]: the address add() gave out for the k-th one
    used,           \* callbacks whose task has the flag USED
    frames,         \* emissions under way: <<address used, callback called>>
    taken           \* taken[k]: whose address took it away, itself 0 before

vars == <<que, place, used, frames, taken>>

Made == 1..Len(place)

Init ==
    /\ que = [n \in Places |-> 0]
    /\ place = <<>> /\ used = {} /\ frames = <<>> /\ taken = <<>>

\* create() and write(): the task is OPEN and nothing else.
Add ==
    /\ Len(place) < MaxMade
    /\ \E n \in Places :
        /\ que[n] = 0
        /\ que' = [que EXCEPT ![n] = Len(place) + 1]
        /\ place' = Append(place, n)
        /\ taken' = Append(taken, 0)
    /\ UNCHANGED <<used, frames>>

\* remove( address ), with the address of the k-th callback: what is there now.
Removes(k) ==
    LET n == place[k] IN
    /\ que' = [que EXCEPT ![n] = 0]
    /\ taken' = [j \in Made |-> IF j = que[n] THEN k ELSE taken[j]]

Off(k) ==
    /\ que[place[k]] # 0
    /\ Removes(k)
    /\ UNCHANGED <<place, used, frames>>

Clear ==
    /\ que' = [n \in Places |-> 0]
    /\ taken' = [j \in Made |-> IF taken[j] = 0 THEN j ELSE taken[j]]
    /\ UNCHANGED <<place, used, frames>>

\* emit( address ): -1 of an address with nothing there, -2 of a callback that
\* is being called.
Emit(k) ==
    LET c == que[place[k]] IN
    /\ c # 0 /\ c \notin used
    /\ Len(frames) < MaxFrames
    /\ used' = used \cup {c}
    /\ frames' = Append(frames, <<k, c>>)
    /\ UNCHANGED <<que, place, taken>>

\* The callback comes back; it lives on in mem when it is no longer listed.
\* After -1 the address is switched off, whoever has it by then.
Return(answer) ==
    /\ frames # <<>>
    /\ LET f == frames[Len(frames)] IN
        /\ used' = used \ {f[2]}
        /\ IF answer = -1 THEN Removes(f[1]) ELSE UNCHANGED <<que, taken>>
    /\ frames' = SubSeq(frames, 1, Len(frames) - 1)
    /\ UNCHANGED place

Next ==
    \/ Add \/ Clear
    \/ \E k \in Made : Off(k) \/ Emit(k)
    \/ \E answer \in {-1, 1} : Return(answer)

Spec == Init /\ [][Next]_vars

-----------------------------------------------------------------------------
(* No callback is called while it is being called; one that is listed is   *)
(* marked exactly while it runs; an address is answered by, and takes      *)
(* away, its own callback, or after that one has gone the one that has its *)
(* node now; and what is listed has not been taken away.                   *)
CalledByName ==
    /\ \A i, j \in 1..Len(frames) : frames[i][2] = frames[j][2] => i = j
    /\ used = {frames[i][2] : i \in 1..Len(frames)}
    /\ \A i \in 1..Len(frames) :
          LET f == frames[i] IN f[1] # f[2] => taken[f[1]] # 0 /\ f[1] < f[2]
    /\ \A k \in Made :
          /\ taken[k] = 0 <=> que[place[k]] = k
          /\ taken[k] \notin {0, k} => taken[taken[k]] # 0 /\ place[k] = place[taken[k]]
=============================================================================
