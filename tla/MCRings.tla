------------------------------- MODULE MCRings -------------------------------
(* The two kernels that complete operations instead of announcing           *)
(* readiness, each in behaviours of its own: Rings on one descriptor of     *)
(* each kind and on two, Iocp on one of each and on two, of which one or    *)
(* both have the key 0.                                                     *)
EXTENDS Rings

CONSTANTS f1, f2, PortScenes, MaxWakes

VARIABLES host, key, nodes, packets, batch, spin

portVars == <<key, nodes, packets, batch, spin>>

Port == INSTANCE Iocp WITH Scenes <- PortScenes

\* Descriptor f1 is of kind k; of the others those in F are calm.
Scene(k, F) ==
    [f \in Fds |->
        IF f = f1 THEN k ELSE IF f \in F THEN "calm" ELSE "none"]

AllScenes ==
    {Scene(k, {}) : k \in {"stream", "server", "client"}}
        \cup {Scene("calm", {f2})}

AllPortScenes ==
    {Scene(k, {}) : k \in {"stream", "server"}}
        \cup {Scene(k, {f2}) : k \in {"calm", "client"}}

\* The variables of one kernel stand still while the other runs.
NoPort  == key = [f \in Fds |-> "none"] /\ nodes = {} /\ packets = Port!None
              /\ batch = Port!None /\ spin = {}
NoRings == /\ life = [f \in Fds |-> 1] /\ node = [f \in Fds |-> Nil]
           /\ heirs = {} /\ sque = <<>> /\ ring = <<>>
           /\ cq = <<>> /\ borrow = <<>> /\ bell = TRUE /\ errno = "other"

RingsStill == UNCHANGED <<nameVars, sque, ring, cq, borrow, bell, errno>>

all == <<host, vars, portVars>>

OnRings(A) == host = "linux" /\ A /\ UNCHANGED <<host, portVars>>
OnPort(A)  == host = "windows" /\ A /\ RingsStill /\ UNCHANGED host

TwoInit ==
    \/ host = "linux"   /\ Init /\ NoPort
    \/ host = "windows" /\ Port!Init /\ NoRings

TwoNext == OnRings(Next) \/ OnPort(Port!Next)

TwoSpec == TwoInit /\ [][TwoNext]_all

-----------------------------------------------------------------------------
(* The fairness of Rings, for the kernel that runs.  The thread comes to    *)
(* submit or wait unless it has nothing to do.                              *)

TwoMove == IF host = "linux" THEN MayMove ELSE Port!MayMove

Job(f)     == f \in jobs \cup spin
RunsJob(f) == OnRings(RunJob(f)) \/ OnPort(Port!RunJob(f) \/ Port!RunSpin(f))

TwoFair ==
    /\ <>[]TwoMove => []<><<OnRings(Thread) \/ OnPort(Port!Thread)>>_all
    /\ \A f \in Fds : []<>(phase = "loop" /\ Job(f)) => []<><<RunsJob(f)>>_all
    /\ []<>(phase \in {"submit", "wait"} \/ ~TwoMove)
    /\ []<>(jobs # {} \/ spin # {} \/ ~dead)
    /\ \A f \in Fds : []<>(sock[f].room > 0)
    /\ WF_all(\E o \in flight : \/ OnRings(~Gone(o) /\ Complete(o))
                             \/ OnPort(Port!Complete(o)))

TwoFairSpec == TwoSpec /\ TwoFair

-----------------------------------------------------------------------------
(* Properties.                                                             *)

(* Nothing is lost, doubled or out of order between a peer and the program, *)
(* on either kernel; on io_uring, at every socket that no operation of      *)
(* another one was done on, nor had its result.                             *)
DataExact == IF host = "linux" THEN Exact ELSE Port!Exact

(* A kernel that sleeps without limit has forgotten no operation: what each *)
(* polled socket waits for is with the system.  On Windows, of a socket     *)
(* whose key names it, or with at most two entries; on io_uring, of the     *)
(* sockets DataExact speaks of.                                             *)
NoneLeftBehind == IF host = "linux" THEN NoneForgotten ELSE Port!NoneForgotten

Attended(f) == host = "windows" => f \in Polled \cup spin /\ Port!Announced(f)

(* What arrives at a socket that stays open and polled is taken, and what   *)
(* the program has to write to it is written, on either kernel, again but   *)
(* for sockets that met an operation of another one.                        *)
AllServed ==
    \A f \in Fds :
       /\ []<>(Quiet(f) /\ Attended(f) => Len(sock[f].taken) = sock[f].came)
       /\ []<>(Quiet(f) /\ Attended(f) /\ Writes(kind[f]) => sock[f].todo = MaxOut + 1)
=============================================================================
