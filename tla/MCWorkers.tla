------------------------------ MODULE MCWorkers ------------------------------
(* Work that is done elsewhere, in behaviours of its own each: Workers with   *)
(* two workers that write two values each to a channel that holds three, and *)
(* Processes with one child.                                                 *)
EXTENDS Workers

CONSTANTS MaxChunks

VARIABLES side, role, proc, pipe, stopped, reader, status, mine, heard, drains,
          closes, answer, asked

Child == INSTANCE Processes WITH state <- status, held <- mine

childVars == <<role, proc, pipe, stopped, reader, status, mine, heard, drains,
               closes, answer, asked>>

all == <<side, vars, childVars>>

Pairs == Ws \X {1, 2}

TwoEach(w) == <<<<w, 1>>, <<w, 2>>>>

OnThreads(A)   == side = "threads" /\ A /\ UNCHANGED <<side, childVars>>
OnProcesses(A) == side = "processes" /\ A /\ UNCHANGED <<side, vars>>

TwoInit == side \in {"threads", "processes"} /\ Init /\ Child!Init

TwoNext == OnThreads(Next) \/ OnProcesses(Child!Next)

\* The fairness of Workers; a coroutine that polls a pipe with something in it
\* gets its turns.
TwoFair ==
    /\ \A t \in Threads :
        WF_all(OnThreads(Freeing(t))) /\ WF_all(OnThreads(Channelling(t)))
    /\ \A w \in Ws : WF_all(OnThreads(Work(w)))
    /\ WF_all(OnThreads(MainLoop))
    /\ \A s \in Child!Streams : WF_all(OnProcesses(Child!Reads(s)))

TwoSpec == TwoInit /\ [][TwoNext]_all /\ TwoFair

-----------------------------------------------------------------------------
(* What the program hears of a child is what the child wrote, and it hears  *)
(* of the end once.                                                         *)
ChildTold == Child!Told /\ Child!KilledLast

(* worker::await comes back, and the end of a pipe of a child is heard of.  *)
EndsAreHeard == AwaitReturns /\ Child!EndsHeard
=============================================================================
