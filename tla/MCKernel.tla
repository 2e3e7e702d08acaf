------------------------------- MODULE MCKernel -------------------------------
(* Kernel on two sockets, inner relayed to outer, which a pipe drains, with *)
(* addresses up to renaming (MCKernel.cfg: safety), and on one socket with  *)
(* up to two listeners on an entry (MCKernelLive.cfg: liveness).            *)
EXTENDS Kernel, TLC

CONSTANTS inner, outer

AToB     == (inner :> outer) @@ (outer :> Nil)
Relaying == (inner :> {"relay"}) @@ (outer :> {"pipe"})

NoOut   == [f \in Fds |-> Nil]
Readers == [f \in Fds |-> {"once", "pipe"}]

Alike == Permutations(Addrs)
=============================================================================
