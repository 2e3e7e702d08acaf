------------------------------- MODULE MCMemory -------------------------------
(* What is stored and reached by an address or a name, in one run, each in  *)
(* behaviours of its own: the list on five addresses; three handles of two  *)
(* threads on two nodes; two pages of eight units; four callbacks of an     *)
(* invoker on two nodes; and two jobs on two files.                         *)
EXTENDS QueueList, TLC

CONSTANTS Threads, Handles, Held, Lengths, Windows, Heap, Align, Sizes, Pages, Batch,
          Places, MaxMade, MaxFrames,
          Names, Inodes, Jobs, Length

ASSUME MemoryAssumption ==
    /\ IsFiniteSet(Threads) /\ IsFiniteSet(Handles)
    /\ Nil \notin Held
    /\ Lengths \subseteq Nat /\ Windows \subseteq Nat \X Nat

ASSUME HeapAssumption ==
    /\ Heap \in Nat \ {0} /\ Align \in Nat \ {0} /\ Batch \in Nat
    /\ Sizes \subseteq Nat \ {0} /\ Nil \notin Pages

ASSUME FilesAssumption ==
    /\ Length \in Nat \ {0}
    /\ Nil \notin Jobs \cup Inodes \cup Names \cup ((Jobs \cup {Nil}) \X Nat)

Slices == {<<1, 2>>}

VARIABLES topic, owner, addr, view, node, todo, obj, sweep, page, live,
          que, place, used, frames, taken, folder, text, job

ptrs  == <<owner, addr, view, node, todo>>
heap  == <<obj, sweep, page, live>>
calls == <<que, place, used, frames, taken>>
files == <<folder, text, job>>

P == INSTANCE Pointers WITH Nodes <- Held, None <- Nil
A == INSTANCE Allocator WITH act <- sweep, NoPage <- Nil
I == INSTANCE Invokers
F == INSTANCE Files WITH Missing <- Nil

MemoryInit ==
    /\ topic \in {"list", "pointers", "heap", "invoker", "files"}
    /\ Init /\ P!Init /\ A!Init /\ I!Init
    /\ IF topic = "files" THEN F!Init
       ELSE /\ folder = [p \in Names |-> Nil] /\ text = [i \in Inodes |-> <<>>]
            /\ job = [j \in Jobs |-> F!Idle]

MemoryNext ==
    /\ \/ topic = "list"     /\ Next   /\ UNCHANGED <<ptrs, heap, calls, files>>
       \/ topic = "pointers" /\ P!Next /\ UNCHANGED <<vars, heap, calls, files>>
       \/ topic = "heap"     /\ A!Next /\ UNCHANGED <<vars, ptrs, calls, files>>
       \/ topic = "invoker"  /\ I!Next /\ UNCHANGED <<vars, ptrs, heap, files>>
       \/ topic = "files"    /\ F!Next /\ UNCHANGED <<vars, ptrs, heap, calls>>
    /\ UNCHANGED topic

MemorySpec == MemoryInit /\ [][MemoryNext]_<<topic, vars, ptrs, heap, calls, files>>

(* A node lives exactly as long as somebody holds it, and a handle sees a  *)
(* window inside the array of its node; an address of an invoker leads to  *)
(* its own callback, or to the one that has its node after it.             *)
HandlesExact == P!CountsExact /\ P!ViewsInside /\ I!CalledByName

(* The heap never hands out a byte twice and never loses one; and a file   *)
(* is what was written to it, a read what is in the file.                  *)
StoredExact == A!HeapExact /\ F!FilesKept

\* The sets of one topic are those of another in the cfg, so that their
\* permutations serve both.
Alike == Permutations(Threads) \cup Permutations(Handles) \cup Permutations(Held)
            \cup Permutations(Pages)
=============================================================================
