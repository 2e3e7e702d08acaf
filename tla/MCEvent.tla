------------------------------- MODULE MCEvent -------------------------------
(* Event on small instances, with one address more than listeners, so that *)
(* a new subscription lands on a fresh address or on one that was just     *)
(* freed; and Observers beside it.  A behaviour is of one or the other.    *)
EXTENDS Event

CONSTANTS Fields, Values, Ons, Adds

ASSUME ObserversAssumption == Nil \notin Ons \cup Adds

VARIABLES list, watchers, doomed, frames, told, topic

obsVars == <<list, watchers, doomed, frames, told>>

Obs == INSTANCE Observers WITH event <- watchers, tmp <- doomed, None <- Nil

TwoInit ==
    /\ Init /\ Obs!Init
    /\ \/ topic = "event" /\ list = [f \in Fields |-> CHOOSE v \in Values : TRUE]
       \/ topic = "observer"

TwoNext ==
    \/ topic = "event" /\ Next /\ UNCHANGED <<obsVars, topic>>
    \/ topic = "observer" /\ Obs!Next /\ UNCHANGED <<vars, topic>>

TwoSpec == TwoInit /\ [][TwoNext]_<<vars, obsVars, topic>> /\ Fairness

(* What a listener of a field was told last is what the field holds, and   *)
(* the old value it is given is the one it was told before.                *)
InStep == Obs!InStep
=============================================================================
