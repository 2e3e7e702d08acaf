----------------------------- MODULE Combinators -----------------------------
(***************************************************************************)
(* promise::all and promise::any of promise.h: a coroutine that looks at   *)
(* one promise per turn of the event loop, round and round, while the      *)
(* program settles them or turns them off in any order, and settles a      *)
(* promise of its own.  Positions count from 1: idx[1] of all and idx[0]   *)
(* of any are index - 1.                                                   *)
(*                                                                         *)
(* Operators whose name starts with Bad are the definition that follows    *)
(* them with one plausible mistake in it; no specification uses them.      *)
(***************************************************************************)
EXTENDS Integers

CONSTANT MaxSize    \* bound on how many promises are joined

VARIABLES
    kind,           \* "all" or "any"
    size,           \* prom.size()
    status,         \* of each promise: "pending", "off" (pending and closed), an outcome
    pc,             \* where the coroutine is
    count,          \* idx[0] of all: resolved promises seen in a row
    index,          \* idx[1] of all, idx[0] of any: the next to look at
    outcome         \* of the promise all() or any() returned

vars == <<kind, size, status, pc, count, index, outcome>>

Joined  == 1..size
Settled == {"resolved", "rejected"}

\* ( i + 1 ) % size
After(i) == IF i = size THEN 1 ELSE i + 1

Init ==
    /\ kind \in {"all", "any"} /\ size \in 0..MaxSize
    /\ status \in [Joined -> {"pending", "off", "resolved", "rejected"}]
    /\ pc = "executor"
    /\ count = 0 /\ index = 1
    /\ outcome = "pending"

-----------------------------------------------------------------------------
(* The program.                                                            *)

Settle(i, o) ==
    /\ status[i] = "pending"
    /\ status' = [status EXCEPT ![i] = o]
    /\ UNCHANGED <<kind, size, pc, count, index, outcome>>

\* off() on the promise all() or any() returned: what is found is dropped.
OffResult ==
    /\ outcome = "pending"
    /\ outcome' = "off"
    /\ UNCHANGED <<kind, size, status, pc, count, index>>

-----------------------------------------------------------------------------
(* The executor, and the turns of the coroutine it adds.                   *)

Goto(l)    == pc' = l /\ UNCHANGED <<kind, size, status, outcome>>
Answer(o)  == outcome' = IF outcome = "pending" THEN o ELSE outcome
Finish(o)  == Answer(o) /\ pc' = "done" /\ UNCHANGED <<kind, size, status, count, index>>

Executor ==
    /\ pc = "executor"
    /\ \/ size = 0 /\ Finish("rejected")
       \/ size > 0 /\ Goto("start") /\ UNCHANGED <<count, index>>

\* The first resumption reaches the first coNext.
Start == pc = "start" /\ Goto("poll") /\ UNCHANGED <<count, index>>

BadMiss == UNCHANGED count                             \* idx[0]=0 is missing
Miss == count' = 0

Enough == count' >= size

\* One round of the loop of all(), lines 193-195, and its condition.
PollAll ==
    /\ pc = "poll" /\ kind = "all"
    /\ index' = After(index)
    /\ \/ /\ status[index] = "resolved"
          /\ count' = count + 1
          /\ IF Enough THEN Goto("resolve") ELSE Goto("poll")
       \/ /\ status[index] = "rejected"
          /\ Goto("reject") /\ UNCHANGED count
       \/ /\ status[index] \notin Settled
          /\ Miss /\ Goto("poll")

BadMoveOn == UNCHANGED index                            \* line 220 is missing
MoveOn == index' = After(index)

\* One round of the loop of any(), lines 217-220.
PollAny ==
    /\ pc = "poll" /\ kind = "any"
    /\ UNCHANGED count
    /\ \/ status[index] = "resolved" /\ Goto("resolve") /\ UNCHANGED index
       \/ status[index] = "rejected" /\ Goto("reject") /\ UNCHANGED index
       \/ status[index] \notin Settled /\ MoveOn /\ Goto("poll")

\* The turn after: the answer, dropped if the result was turned off.
Resolve == pc = "resolve" /\ Finish("resolved")
Reject  == pc = "reject" /\ Finish("rejected")

Turn == Executor \/ Start \/ PollAll \/ PollAny \/ Resolve \/ Reject

Next ==
    \/ \E i \in Joined, o \in {"off", "resolved", "rejected"} : Settle(i, o)
    \/ OffResult
    \/ Turn

Spec == Init /\ [][Next]_vars

\* The event loop keeps turning, and a task that is ready keeps being run.
FairSpec == Spec /\ WF_vars(Turn)

-----------------------------------------------------------------------------
\* Every variable has its type; index stays within the promises.
TypeOK ==
    /\ kind \in {"all", "any"} /\ size \in 0..MaxSize
    /\ status \in [Joined -> Settled \cup {"pending", "off"}]
    /\ pc \in {"executor", "start", "poll", "resolve", "reject", "done"}
    /\ count \in 0..size
    /\ index \in Joined \cup {1}
    /\ outcome \in Settled \cup {"pending", "off"}

\* The k-th promise before index, going round.
Before(k) == IF index > k THEN index - k ELSE index - k + size

\* idx[0] of all() counts promises that are all resolved, although the program
\* settles others between two looks: the last ones it looked at (193-195).
CountsResolved ==
    kind = "all" /\ pc \in {"poll", "resolve"} => \A k \in 1..count : status[Before(k)] = "resolved"

\* all() resolves only when every promise is resolved and rejects only when
\* there is none or one is rejected; any() resolves with a resolved promise
\* and rejects only when there is none or one is rejected.
AnswerSound ==
    /\ (outcome = "resolved" /\ kind = "all") => \A i \in Joined : status[i] = "resolved"
    /\ (outcome = "resolved" /\ kind = "any") => status[index] = "resolved"
    /\ outcome = "rejected" => size = 0 \/ \E i \in Joined : status[i] = "rejected"

Decided ==
    \/ size = 0
    \/ \E i \in Joined : status[i] = "rejected"
    \/ kind = "all" /\ \A i \in Joined : status[i] = "resolved"
    \/ kind = "any" /\ \E i \in Joined : status[i] = "resolved"

\* Once the promises decide it, the answer comes, although others stay pending
\* or were turned off.  (One promise that was turned off while pending keeps
\* all() polling for ever: it is never decided.)
AnswerComes == Decided ~> outcome # "pending"

\* What the error of any() says (promise.h:223): at that moment no promise
\* is fulfilled.
NoneFulfilled ==
    [][(kind = "any" /\ outcome = "pending" /\ outcome' = "rejected")
          => \A i \in Joined : status[i] # "resolved"]_vars
=============================================================================
