------------------------------- MODULE Workers -------------------------------
(***************************************************************************)
(* worker_t of posix/worker.h: threads whose end the loop of the thread    *)
(* that made them waits for, over the mutex and the invoker that all       *)
(* workers share (mutex.h, invoker.h, handler.h), over the reference count *)
(* and the eventfd of the maker's kernel (posix/kernel.h), and with the    *)
(* workers writing to a channel that the maker reads (Channel).            *)
(*                                                                         *)
(* The entry of a worker in the invoker is the closure made in emit(): it  *)
(* holds the copy of the worker that the thread uses (self) and a copy of  *)
(* the maker's kernel, which kernel_t::size() counts.  Both go when the    *)
(* closure does.                                                           *)
(*                                                                         *)
(* Left out: workers made by workers, and a process that shuts down.       *)
(*                                                                         *)
(* Operators whose name starts with Bad are the definition that follows    *)
(* them with one plausible mistake in it; no specification uses them.      *)
(***************************************************************************)
EXTENDS Channel, FiniteSets

CONSTANTS
    Main,           \* the thread that makes the workers
    Ws,             \* the workers
    Frees,          \* TRUE: the maker may free() a worker that runs
    Batch(_),       \* what a worker writes, a sequence of values
    MaxTurns        \* bound on the turns of a callback before it returns -1

ASSUME WorkersAssumption ==
    /\ Threads = Ws \cup {Main} /\ Main \notin Ws
    /\ \A w \in Ws : Batch(w) \in Seq(Values)
    /\ Frees \in BOOLEAN /\ MaxTurns \in Nat \ {0}

VARIABLES
    state,          \* NODE::state: "unknown", "open", "kill"
    entry,          \* workers with an entry in the invoker
    closure,        \* workers whose closure is alive
    krn,            \* workers with NODE::krn set
    handle,         \* workers the maker has a handle of
    mutex,          \* the thread inside the mutex of all workers, or Nil
    freeing,        \* what each thread is doing in free()
    pc, turns,      \* where each worker's thread is; its turns so far
    freed,          \* history: workers that the maker itself set out to free
    main,           \* what the maker does: "busy", "await", "wait", "done"
    awaited,        \* the worker of worker::await, or Nil
    wait,           \* the flag that worker::await polls
    step,           \* where in a turn of its loop the maker is: "check",
                    \* "size", "poll", or "sleep" when epoll_wait has no limit
    bell            \* the maker's eventfd is not zero

wkVars   == <<state, entry, closure, krn, handle, mutex, freeing, pc, turns,
              freed>>
mainVars == <<main, awaited, wait, step, bell>>
vars     == <<wkVars, mainVars, chVars>>

NotFreeing == [at |-> "no", of |-> Nil]

\* The maker is between two statements.
Ready == freeing[Main] = NotFreeing /\ call[Main].op = "idle"

Init ==
    /\ ChannelInit
    /\ state = [w \in Ws |-> "unknown"]
    /\ entry = {} /\ closure = {} /\ krn = {} /\ handle = {}
    /\ mutex = Nil
    /\ freeing = [t \in Threads |-> NotFreeing]
    /\ pc = [w \in Ws |-> "none"] /\ turns = [w \in Ws |-> 0]
    /\ main = "busy" /\ awaited = Nil /\ wait = FALSE
    /\ freed = {}
    /\ step = "check" /\ bell = FALSE

-----------------------------------------------------------------------------
(* worker_t( cb ): emit() under the mutex, or free() when there is no      *)
(* thread to be had.  worker::add hands a copy back; worker::await drops   *)
(* it.                                                                     *)

Made(w) ==
    /\ state[w] = "unknown" /\ mutex = Nil
    /\ Ready
    /\ state' = [state EXCEPT ![w] = "open"]
    /\ entry' = entry \cup {w}
    /\ closure' = closure \cup {w}
    /\ \/ pc' = [pc EXCEPT ![w] = "start"] /\ UNCHANGED <<freeing, freed>>
       \/ /\ freeing' = [freeing EXCEPT ![Main] = [at |-> "lock", of |-> w]]
          /\ freed' = freed \cup {w}
          /\ UNCHANGED pc
    /\ UNCHANGED <<krn, mutex, turns, step, bell, chVars>>

Make(w) ==
    /\ main = "busy"
    /\ Made(w)
    /\ handle' = handle \cup {w}
    /\ UNCHANGED <<main, awaited, wait>>

\* The thread of worker::await starts or the flag is never cleared: a worker
\* without a thread is left to Make.
Await(w) ==
    /\ main = "busy"
    /\ Made(w) /\ pc'[w] = "start"
    /\ main' = "await" /\ awaited' = w /\ wait' = TRUE
    /\ UNCHANGED handle

-----------------------------------------------------------------------------
(* free(), by the worker's thread or by the maker.  KILL is tested before  *)
(* the mutex is taken.                                                     *)

FreeTest(t, w) ==
    IF state[w] = "open"
    THEN freeing' = [freeing EXCEPT ![t] = [at |-> "lock", of |-> w]]
    ELSE UNCHANGED freeing

\* invoker.emit( addr ): nothing when the entry is gone; otherwise the
\* closure marks the worker, and wakes the maker.
FreeLock(t) ==
    LET w == freeing[t].of IN
    /\ freeing[t].at = "lock" /\ mutex = Nil
    /\ IF w \in entry
       THEN /\ state' = [state EXCEPT ![w] = "kill"]
            /\ krn' = krn \ {w}
            /\ bell' = TRUE
            /\ mutex' = t
            /\ freeing' = [freeing EXCEPT ![t] = [at |-> "drop", of |-> w]]
       ELSE /\ freeing' = [freeing EXCEPT ![t] = NotFreeing]
            /\ UNCHANGED <<state, krn, mutex, bell>>
    /\ UNCHANGED <<entry, closure, handle, pc, turns, freed, main, awaited,
                   wait, step, chVars>>

\* The closure answered -1: off( addr ), and the last copy of it goes when
\* emit() returns.
FreeDrop(t) ==
    LET w == freeing[t].of IN
    /\ freeing[t].at = "drop"
    /\ entry' = entry \ {w}
    /\ closure' = closure \ {w}
    /\ mutex' = Nil
    /\ freeing' = [freeing EXCEPT ![t] = NotFreeing]
    /\ UNCHANGED <<state, krn, handle, pc, turns, freed, mainVars, chVars>>

-----------------------------------------------------------------------------
(* The thread: callback( self ).                                           *)

Start(w) ==
    /\ pc[w] = "start"
    /\ krn' = krn \cup {w}
    /\ pc' = [pc EXCEPT ![w] = "run"]
    /\ UNCHANGED <<state, entry, closure, handle, mutex, freeing, turns,
                   freed, mainVars, chVars>>

\* A turn of the callback writes its batch, or does something else.
Turn(w) ==
    /\ pc[w] = "run" /\ state[w] = "open"
    /\ call[w].op = "idle" /\ turns[w] < MaxTurns
    /\ turns' = [turns EXCEPT ![w] = @ + 1]
    /\ Write(w, Batch(w)) \/ UNCHANGED chVars
    /\ UNCHANGED <<state, entry, closure, krn, handle, mutex, freeing, pc,
                   freed, mainVars>>

\* The callback answers -1; that of worker::await clears the flag first.
Stop(w) ==
    /\ pc[w] = "run" /\ call[w].op = "idle"
    /\ pc' = [pc EXCEPT ![w] = "ending"]
    /\ wait' = (wait /\ awaited # w)
    /\ UNCHANGED <<state, entry, closure, krn, handle, mutex, freeing, turns,
                   freed, main, awaited, step, bell, chVars>>

\* is_closed(): somebody freed the worker, or its callback closed it.
Closed(w) ==
    /\ pc[w] = "run" /\ call[w].op = "idle"
    /\ state[w] = "kill" \/ turns[w] > 0
    /\ awaited # w \/ state[w] = "kill"
    /\ pc' = [pc EXCEPT ![w] = "ending"]
    /\ UNCHANGED <<state, entry, closure, krn, handle, mutex, freeing, turns,
                   freed, mainVars, chVars>>

End(w) ==
    /\ pc[w] = "ending"
    /\ pc' = [pc EXCEPT ![w] = "gone"]
    /\ FreeTest(w, w)
    /\ UNCHANGED <<state, entry, closure, krn, handle, mutex, turns, freed,
                   mainVars, chVars>>

Freeing(t) == FreeLock(t) \/ FreeDrop(t)

-----------------------------------------------------------------------------
(* The maker.                                                              *)

\* kernel_t::size(): the copies that closures hold; the maker has no task.
Counted == closure # {}

BadDrop(w) ==
    /\ main = "busy" /\ Ready /\ w \in handle
    /\ handle' = handle \ {w}
    /\ FreeTest(Main, w)
    /\ UNCHANGED <<state, entry, closure, krn, mutex, pc, turns, freed,
                   mainVars, chVars>>

\* ~worker_t: nothing while the closure holds the worker as well.
Drop(w) ==
    /\ main = "busy" /\ Ready /\ w \in handle
    /\ handle' = handle \ {w}
    /\ IF w \in closure THEN UNCHANGED freeing ELSE FreeTest(Main, w)
    /\ UNCHANGED <<state, entry, closure, krn, mutex, pc, turns, freed,
                   mainVars, chVars>>

Free(w) ==
    /\ Frees /\ main = "busy" /\ Ready /\ w \in handle
    /\ FreeTest(Main, w)
    /\ freed' = freed \cup {w}
    /\ UNCHANGED <<state, entry, closure, krn, handle, mutex, pc, turns,
                   mainVars, chVars>>

MainReads ==
    /\ main = "busy" /\ Ready
    /\ Read(Main) \/ Clear(Main)
    /\ UNCHANGED <<wkVars, mainVars>>

\* process::wait(), at the end of main().
ToWait ==
    /\ main = "busy" /\ Ready
    /\ main' = "wait"
    /\ UNCHANGED <<wkVars, awaited, wait, step, bell, chVars>>

\* The condition of the loop: should_close(), or the flag of worker::await.
Over == IF main = "await" THEN ~wait ELSE ~Counted

Check ==
    /\ main \in {"await", "wait"} /\ step = "check"
    /\ IF Over
       THEN /\ main' = (IF main = "await" THEN "busy" ELSE "done")
            /\ awaited' = Nil
            /\ UNCHANGED step
       ELSE step' = "size" /\ UNCHANGED <<main, awaited>>
    /\ UNCHANGED <<wkVars, wait, bell, chVars>>

\* get_delay_ms(): no task is left; the count is read before the sleep.
Delay ==
    /\ step = "size"
    /\ step' = IF Counted THEN "sleep" ELSE "poll"
    /\ UNCHANGED <<wkVars, main, awaited, wait, bell, chVars>>

\* epoll_wait, and the read of the eventfd.
Epoll ==
    /\ step = "poll" \/ (step = "sleep" /\ bell)
    /\ step' = "check" /\ bell' = FALSE
    /\ UNCHANGED <<wkVars, main, awaited, wait, chVars>>

-----------------------------------------------------------------------------
Channelling(t) == ChannelStep(t) /\ UNCHANGED <<wkVars, mainVars>>

Work(w) == Start(w) \/ Turn(w) \/ Stop(w) \/ Closed(w) \/ End(w)

MainLoop == Check \/ Delay \/ Epoll

Next ==
    \/ \E t \in Threads : Freeing(t) \/ Channelling(t)
    \/ \E w \in Ws : Work(w) \/ Make(w) \/ Await(w) \/ Drop(w) \/ Free(w)
    \/ MainReads \/ ToWait \/ MainLoop

Spec == Init /\ [][Next]_vars

\* Threads go on, also past a mutex: whoever is inside leaves it, and each
\* enters a bounded number of times.
Fairness ==
    /\ \A t \in Threads : WF_vars(Freeing(t)) /\ WF_vars(Channelling(t))
    /\ \A w \in Ws : WF_vars(Work(w))
    /\ WF_vars(MainLoop)

FairSpec == Spec /\ Fairness

-----------------------------------------------------------------------------
Running(w) == pc[w] \in {"start", "run", "ending"}

\* The copy of the worker that its thread uses lives as long as the thread
\* uses it, and with it the reference that keeps the maker's loop from ending,
\* so that the maker does not leave process::wait() before the last worker has
\* come to its end; losing the handle takes neither away, nor does NODE::krn
\* outlive the thread.  Only a free() of the maker undoes this (worker.h 50-80).
SelfAlive ==
    \A w \in Ws \ freed :
        /\ Running(w) => w \in closure /\ w \in entry /\ main # "done"
        /\ w \in krn => Running(w) \/ freeing[w].of = w

\* worker::await comes back: the flag is cleared before the wake-up is
\* written, and the loop looks at the flag after each wake-up (worker.h 43-50).
AwaitReturns == main = "await" ~> main = "busy"

\* process::wait comes back when every worker has ended.
WaitReturns == main = "wait" ~> main = "done"
=============================================================================
