---------------------------- MODULE PromiseProofs ----------------------------
(***************************************************************************)
(* Proofs about promises (Promise.tla) and about all() and any() of them   *)
(* (Combinators.tla), for any promises, callbacks and values.              *)
(***************************************************************************)
EXTENDS MCPromise, SequenceTheorems, TLAPS

(* The inductive invariant of Promise.tla.                                 *)

\* A callback is attached in one place.
AttachedOnce ==
    \A p, q \in Promises, e, f \in Events :
       \A i \in 1..Len(clb[p][e]), j \in 1..Len(clb[q][f]) :
          clb[p][e][i] = clb[q][f][j] => p = q /\ e = f /\ i = j

\* One that was called and is still attached is the first of a list that is
\* being emitted.
FirstRuns(c, s) ==
    \A p \in Promises, e \in Events :
       \A i \in 1..Len(c[p][e]) : c[p][e][i] \in Logged => i = 1 /\ Used(s, p, e)

RunningFirst == FirstRuns(clb, stack)

CalledOnce ==
    \A i, j \in 1..Len(log) : log[i].callback = log[j].callback => i = j

Called ==
    \A k \in 1..Len(log), p \in Promises :
       log[k].promise = p =>
          /\ log[k].got = value[p]
          /\ log[k].event \in {"FINALLY", Outcome(p)}

\* No emission runs inside itself.
Once(s) == \A i, j \in 1..Len(s) : s[i].does \in Events /\ s[i] = s[j] => i = j

\* Who emits is settled, for what it emits, and has somebody to call; who is
\* awaited was pending.
FrameRuns(f) ==
    /\ f.does = "AWAIT" => Is(f.promise, "PENDING") \/ value[f.promise] # Nil
    /\ f.does # "AWAIT" =>
          /\ value[f.promise] # Nil
          /\ f.does \in {"FINALLY", Outcome(f.promise)}
          /\ clb[f.promise][f.does] # <<>>

FramesRun == \A f \in Elems(stack) : FrameRuns(f)

\* What p, settled for o, still has to call is being called, or comes after
\* what is being called.
React(c, s, p, o) ==
    /\ c[p][o] # <<>> => Used(s, p, o)
    /\ c[p]["FINALLY"] # <<>> => \E f \in Elems(s) : f.promise = p /\ f.does \in Events

Reactions == \A p \in Promises : value[p] # Nil => React(clb, stack, p, Outcome(p))

IInv ==
    /\ TypeOK /\ AttachedOnce /\ RunningFirst /\ CalledOnce /\ Called
    /\ Once(stack) /\ FramesRun /\ Reactions

-----------------------------------------------------------------------------
(* Sequences.                                                              *)

\* The members of a sequence, by index.
LEMMA ElemsIndexed ==
    ASSUME NEW S, NEW s \in Seq(S)
    PROVE  /\ Len(s) \in Nat /\ DOMAIN s = 1..Len(s)
           /\ Elems(s) \subseteq S
           /\ \A i \in 1..Len(s) : s[i] \in Elems(s) /\ s[i] \in S
           /\ \A x \in Elems(s) : \E i \in 1..Len(s) : s[i] = x
           /\ (s = <<>> <=> Len(s) = 0)
<1>1. Len(s) \in Nat /\ DOMAIN s = 1..Len(s) /\ s \in [1..Len(s) -> S]
    BY LenProperties
<1>2. s = <<>> <=> Len(s) = 0
    BY EmptySeq
<1>. QED
    BY <1>1, <1>2 DEF Elems

\* A frame that is put on the stack.
LEMMA Pushed ==
    ASSUME NEW s \in Seq(Frame), Once(s), NEW f \in Frame,
           f.does = "AWAIT" \/ f \notin Elems(s)
    PROVE  /\ Append(s, f) \in Seq(Frame)
           /\ Once(Append(s, f))
           /\ Elems(Append(s, f)) = Elems(s) \cup {f}
<1>. DEFINE w == Append(s, f)
<1>1. w \in Seq(Frame) /\ Len(w) = Len(s) + 1 /\ w[Len(s) + 1] = f
      /\ \A i \in 1..Len(s) : w[i] = s[i]
    BY AppendProperties
<1>2. Len(s) \in Nat /\ Len(w) \in Nat /\ DOMAIN w = 1..Len(w) /\ DOMAIN s = 1..Len(s)
    BY <1>1, ElemsIndexed
<1>3. Elems(w) = Elems(s) \cup {f}
    <2>1. \A i \in 1..Len(w) : i \in 1..Len(s) \/ i = Len(s) + 1
        BY <1>1, <1>2
    <2>2. \A i \in 1..Len(s) : i \in 1..Len(w)
        BY <1>1, <1>2
    <2>3. Len(s) + 1 \in 1..Len(w)
        BY <1>1, <1>2
    <2>. QED
        BY <1>1, <1>2, <2>1, <2>2, <2>3 DEF Elems
<1>4. Once(w)
    <2>. SUFFICES ASSUME NEW i \in 1..Len(w), NEW j \in 1..Len(w),
                         w[i].does \in Events, w[i] = w[j]
                  PROVE  i = j
        BY DEF Once
    <2>0. "AWAIT" \notin Events
        BY DEF Events, Outcomes
    <2>1. \A k \in 1..Len(s) : s[k] \in Elems(s)
        BY ElemsIndexed
    <2>2. CASE i \in 1..Len(s) /\ j \in 1..Len(s)
        BY <1>1, <2>2 DEF Once
    <2>3. CASE i \in 1..Len(s) /\ j = Len(s) + 1
        BY <1>1, <2>0, <2>1, <2>3
    <2>4. CASE i = Len(s) + 1 /\ j \in 1..Len(s)
        BY <1>1, <2>0, <2>1, <2>4
    <2>. QED
        BY <1>1, <1>2, <2>2, <2>3, <2>4
<1>. QED
    BY <1>1, <1>3, <1>4

\* The stack without its top.
LEMMA PoppedProperties ==
    ASSUME stack \in Seq(Frame), Once(stack), stack # <<>>
    PROVE  /\ Popped \in Seq(Frame)
           /\ Once(Popped)
           /\ Elems(stack) = Elems(Popped) \cup {Top}
           /\ Top \in Frame
           /\ Top.does \in Events => Top \notin Elems(Popped)
<1>. DEFINE w == Popped
            n == Len(stack) - 1
<1>1. Len(stack) \in Nat /\ Len(stack) # 0 /\ DOMAIN stack = 1..Len(stack)
      /\ \A i \in 1..Len(stack) : stack[i] \in Frame
    BY ElemsIndexed
<1>2. w \in Seq(Frame) /\ Len(w) = n /\ \A i \in 1..n : w[i] = stack[i]
    BY <1>1, SubSeqProperties DEF Popped
<1>3. DOMAIN w = 1..n
    BY <1>2, ElemsIndexed
<1>0. Len(stack) \in Nat /\ Len(stack) # 0
    BY <1>1
<1>4. \A i \in 1..n : i \in 1..Len(stack) /\ i # Len(stack)
    BY <1>0
<1>5. \A i \in 1..Len(stack) : i \in 1..n \/ i = Len(stack)
    BY <1>0
<1>6. Len(stack) \in 1..Len(stack)
    BY <1>0
<1>7. Elems(stack) = Elems(w) \cup {Top}
    <2>1. Elems(stack) = {stack[i] : i \in 1..Len(stack)} /\ Elems(w) = {w[i] : i \in 1..n}
        BY <1>1, <1>3 DEF Elems
    <2>2. \A x : x \in {stack[i] : i \in 1..Len(stack)} <=> x \in {w[i] : i \in 1..n} \/ x = Top
        BY <1>2, <1>4, <1>5, <1>6 DEF Top
    <2>. QED
        BY <2>1, <2>2
<1>8. Once(w)
    <2>. SUFFICES ASSUME NEW i \in 1..n, NEW j \in 1..n, w[i].does \in Events, w[i] = w[j]
                  PROVE  i = j
        BY <1>2 DEF Once
    <2>1. stack[i].does \in Events /\ stack[i] = stack[j]
        BY <1>2
    <2>2. i \in 1..Len(stack) /\ j \in 1..Len(stack)
        BY <1>4
    <2>. QED
        BY <2>1, <2>2 DEF Once
<1>9. Top.does \in Events => Top \notin Elems(w)
    BY <1>1, <1>2, <1>3, <1>4, <1>6 DEF Elems, Top, Once
<1>. QED
    BY <1>1, <1>2, <1>6, <1>7, <1>8, <1>9 DEF Top

\* An emission is used when its frame is on the stack.
LEMMA UsedFrame ==
    ASSUME NEW s, NEW p, NEW e
    PROVE  Used(s, p, e) <=> [does |-> e, promise |-> p] \in Elems(s)
    BY DEF Used, Elems

-----------------------------------------------------------------------------
(* Emissions.                                                              *)

\* What the log says stays right under the state and values that follow.
StillCalled ==
    \A k \in 1..Len(log), p \in Promises :
       log[k].promise = p =>
          /\ log[k].got = value'[p]
          /\ log[k].event \in {"FINALLY", Outcome(p)'}

\* The head of the list of p for e is called, or nobody.
Calls(p, e) ==
    /\ p \in Promises /\ e \in Events
    /\ clb'[p][e] # <<>> /\ clb'[p][e][1] \notin Logged
    /\ Used(stack', p, e)
    /\ e \in {"FINALLY", Outcome(p)'} /\ value'[p] \in Values
    /\ log' = Append(log, [callback |-> clb'[p][e][1], promise |-> p,
                           event |-> e, got |-> value'[p]])

\* The log after a call, or after none.
LEMMA LogKeeps ==
    ASSUME log \in Seq(Entry), CalledOnce, StillCalled,
           clb' \in [Promises -> [Events -> Seq(Callbacks)]],
           AttachedOnce', FirstRuns(clb', stack'),
           log' = log \/ \E p \in Promises, e \in Events : Calls(p, e)
    PROVE  log' \in Seq(Entry) /\ CalledOnce' /\ Called' /\ RunningFirst'
<1>0. /\ Len(log) \in Nat /\ DOMAIN log = 1..Len(log)
      /\ \A k \in 1..Len(log) : log[k] \in Entry
    BY ElemsIndexed
<1>1. CASE log' = log
    BY <1>1 DEF CalledOnce, Called, StillCalled, RunningFirst, FirstRuns, Logged
<1>2. ASSUME NEW p \in Promises, NEW e \in Events, Calls(p, e)
      PROVE  log' \in Seq(Entry) /\ CalledOnce' /\ Called' /\ RunningFirst'
    <2>. DEFINE c == clb'[p][e][1]
                r == [callback |-> c, promise |-> p, event |-> e, got |-> value'[p]]
    <2>1. clb'[p][e] \in Seq(Callbacks)
        OBVIOUS
    <2>2. c \in Callbacks /\ 1 \in 1..Len(clb'[p][e])
        BY <1>2, <2>1, ElemsIndexed DEF Calls
    <2>3. r \in Entry
        BY <1>2, <2>2 DEF Entry, Calls
    <2>4. log' = Append(log, r)
        BY <1>2 DEF Calls
    <2>5. /\ log' \in Seq(Entry) /\ Len(log') = Len(log) + 1
          /\ log'[Len(log) + 1] = r
          /\ \A k \in 1..Len(log) : log'[k] = log[k]
        BY <2>3, <2>4, AppendProperties
    <2>6. DOMAIN log' = 1..Len(log')
        BY <2>5, ElemsIndexed
    <2>7. /\ \A k \in 1..Len(log') : k \in 1..Len(log) \/ k = Len(log) + 1
          /\ \A k \in 1..Len(log) : k \in 1..Len(log')
          /\ Len(log) + 1 \in 1..Len(log')
        BY SMTT(40), <1>0, <2>5
    <2>8. \A k \in 1..Len(log) : log[k].callback # c
        BY ZenonT(40), <1>0, <1>2 DEF Calls, Logged
    <2>9. CalledOnce'
        <3>. SUFFICES ASSUME NEW i \in 1..Len(log'), NEW j \in 1..Len(log'),
                             log'[i].callback = log'[j].callback
                      PROVE  i = j
            BY DEF CalledOnce
        <3>1. r.callback = c
            OBVIOUS
        <3>2. CASE i \in 1..Len(log) /\ j \in 1..Len(log)
            BY <2>5, <3>2 DEF CalledOnce
        <3>3. CASE i \in 1..Len(log) /\ j = Len(log) + 1
            BY <2>5, <2>8, <3>1, <3>3
        <3>4. CASE i = Len(log) + 1 /\ j \in 1..Len(log)
            BY <2>5, <2>8, <3>1, <3>4
        <3>. QED
            BY <2>7, <3>2, <3>3, <3>4
    <2>10. Called'
        <3>. SUFFICES ASSUME NEW k \in 1..Len(log'), NEW q \in Promises,
                             log'[k].promise = q
                      PROVE  /\ log'[k].got = value'[q]
                             /\ log'[k].event \in {"FINALLY", Outcome(q)'}
            BY DEF Called
        <3>1. CASE k \in 1..Len(log)
            <4>1. log'[k] = log[k] /\ log[k].promise = q
                BY <2>5, <3>1
            <4>2. /\ log[k].got = value'[q]
                  /\ log[k].event \in {"FINALLY", Outcome(q)'}
                BY <3>1, <4>1 DEF StillCalled
            <4>. QED
                BY <4>1, <4>2
        <3>2. CASE k = Len(log) + 1
            <4>1. r.promise = p /\ r.got = value'[p] /\ r.event = e
                OBVIOUS
            <4>2. q = p
                BY <2>5, <3>2, <4>1
            <4>3. e \in {"FINALLY", Outcome(q)'}
                BY <1>2, <4>2 DEF Calls
            <4>. QED
                BY <2>5, <3>2, <4>1, <4>2, <4>3
        <3>. QED
            BY <2>7, <3>1, <3>2
    <2>11. Logged' = Logged \cup {c}
        <3>1. Logged = {log[k].callback : k \in 1..Len(log)}
            BY <1>0 DEF Logged
        <3>2. Logged' = {log'[k].callback : k \in 1..Len(log')}
            BY <2>6 DEF Logged
        <3>3. r.callback = c
            OBVIOUS
        <3>4. \A k \in 1..Len(log) : log'[k].callback = log[k].callback
            BY <2>5
        <3>5. log'[Len(log) + 1].callback = c
            BY <2>5, <3>3
        <3>. HIDE DEF r, c
        <3>. QED
            BY <2>7, <3>1, <3>2, <3>4, <3>5
    <2>12. RunningFirst'
        <3>. SUFFICES ASSUME NEW q \in Promises, NEW f \in Events,
                             NEW i \in 1..Len(clb'[q][f]), clb'[q][f][i] \in Logged'
                      PROVE  i = 1 /\ Used(stack', q, f)
            BY DEF RunningFirst, FirstRuns
        <3>1. CASE clb'[q][f][i] \in Logged
            BY <3>1 DEF FirstRuns
        <3>2. CASE clb'[q][f][i] = c
            BY <1>2, <2>2, <3>2 DEF AttachedOnce, Calls
        <3>. QED
            BY <2>11, <3>1, <3>2
    <2>. QED
        BY <2>5, <2>9, <2>10, <2>12
<1>. QED
    BY <1>1, <1>2

\* An emission that returns to s, or enters the listeners of p for e there.
Goes(s, p, e) ==
    /\ stack' = Append(s, [does |-> e, promise |-> p])
    /\ clb'[p][e] # <<>> /\ clb'[p][e][1] \notin Logged /\ ~Used(s, p, e)
    /\ e \in {"FINALLY", Outcome(p)'} /\ value'[p] \in Values
    /\ log' = Append(log, [callback |-> clb'[p][e][1], promise |-> p,
                           event |-> e, got |-> value'[p]])

LEMMA GoesKeeps ==
    ASSUME log \in Seq(Entry), CalledOnce, StillCalled, Nil \notin Values,
           clb' \in [Promises -> [Events -> Seq(Callbacks)]],
           AttachedOnce',
           NEW s \in Seq(Frame), Once(s), FirstRuns(clb', s),
           \A f \in Elems(s) : FrameRuns(f)',
           NEW p \in Promises,
           \/ stack' = s /\ log' = log
           \/ \E e \in Events : Goes(s, p, e)
    PROVE  /\ stack' \in Seq(Frame) /\ log' \in Seq(Entry)
           /\ CalledOnce' /\ Called' /\ RunningFirst' /\ Once(stack)' /\ FramesRun'
           /\ Elems(s) \subseteq Elems(stack)'
<1>1. CASE stack' = s /\ log' = log
    BY <1>1, LogKeeps DEF FramesRun
<1>2. ASSUME NEW e \in Events, Goes(s, p, e)
      PROVE  /\ stack' \in Seq(Frame) /\ log' \in Seq(Entry)
             /\ CalledOnce' /\ Called' /\ RunningFirst' /\ Once(stack)' /\ FramesRun'
             /\ Elems(s) \subseteq Elems(stack)'
    <2>. DEFINE f == [does |-> e, promise |-> p]
    <2>1. f \in Frame /\ f \notin Elems(s)
        BY <1>2, UsedFrame DEF Goes, Frame
    <2>2. stack' = Append(s, f)
        BY <1>2 DEF Goes
    <2>3. stack' \in Seq(Frame) /\ Once(stack') /\ Elems(stack') = Elems(s) \cup {f}
        BY <2>1, <2>2, Pushed
    <2>4. \A q \in Promises, g \in Events : Used(s, q, g) => Used(stack', q, g)
        BY <2>3, UsedFrame
    <2>5. FirstRuns(clb', stack')
        BY <2>4 DEF FirstRuns
    <2>6. Used(stack', p, e)
        BY <2>3, UsedFrame
    <2>7. Calls(p, e)
        BY <1>2, <2>6 DEF Calls, Goes
    <2>8. log' \in Seq(Entry) /\ CalledOnce' /\ Called' /\ RunningFirst'
        BY <2>5, <2>7, LogKeeps
    <2>9. FrameRuns(f)'
        BY <1>2 DEF Goes, FrameRuns, Events, Outcomes
    <2>. QED
        BY <2>3, <2>8, <2>9 DEF FramesRun
<1>. QED
    BY <1>1, <1>2

\* promise_t::emit() of a promise that is settled.
LEMMA EmitKeeps ==
    ASSUME log \in Seq(Entry), CalledOnce, StillCalled, Nil \notin Values,
           clb \in [Promises -> [Events -> Seq(Callbacks)]], clb' = clb,
           AttachedOnce,
           NEW s \in Seq(Frame), Once(s), FirstRuns(clb, s),
           \A f \in Elems(s) : FrameRuns(f)',
           NEW p \in Promises, NEW o \in Outcomes,
           o = Outcome(p)', value'[p] \in Values,
           \A q \in Promises \ {p} : value'[q] # Nil => React(clb, s, q, Outcome(q)'),
           Emit(s, p, o)
    PROVE  /\ stack' \in Seq(Frame) /\ log' \in Seq(Entry)
           /\ CalledOnce' /\ Called' /\ RunningFirst' /\ Once(stack)' /\ FramesRun'
           /\ Reactions'
<1>0. o \in Events /\ "FINALLY" \in Events
    BY DEF Events
<1>1. AttachedOnce'
    BY DEF AttachedOnce
<1>2. FirstRuns(clb', s)
    OBVIOUS
<1>3. ASSUME NEW e \in {o, "FINALLY"}, Fires(s, p, e), Enter(s, p, e)
      PROVE  Goes(s, p, e)
    <2>1. clb[p][e] \in Seq(Callbacks) /\ clb[p][e] # <<>> /\ ~Used(s, p, e)
        BY <1>0, <1>3 DEF Fires
    <2>2. 1 \in 1..Len(clb[p][e])
        BY <2>1, ElemsIndexed
    <2>3. clb[p][e][1] \notin Logged
        BY <1>0, <2>1, <2>2 DEF FirstRuns
    <2>. QED
        BY <1>3, <2>1, <2>3 DEF Goes, Enter, Call
<1>4. \/ stack' = s /\ log' = log
      \/ \E e \in Events : Goes(s, p, e)
    BY <1>0, <1>3 DEF Emit, EmitFinally
<1>5. /\ stack' \in Seq(Frame) /\ log' \in Seq(Entry)
      /\ CalledOnce' /\ Called' /\ RunningFirst' /\ Once(stack)' /\ FramesRun'
      /\ Elems(s) \subseteq Elems(stack)'
    BY <1>1, <1>2, <1>4, GoesKeeps
<1>6. \A q \in Promises, e \in Events : Used(s, q, e) => Used(stack', q, e)
    BY <1>5, UsedFrame
<1>7. \A q \in Promises \ {p} : value'[q] # Nil => React(clb, stack', q, Outcome(q)')
    <2>. SUFFICES ASSUME NEW q \in Promises \ {p}, value'[q] # Nil, NEW x, x = Outcome(q)',
                         React(clb, s, q, x)
                  PROVE  React(clb, stack', q, x)
        OBVIOUS
    <2>1. Elems(s) \subseteq Elems(stack')
        BY <1>5
    <2>2. Used(s, q, x) => Used(stack', q, x)
        BY <2>1, UsedFrame
    <2>. QED
        BY <2>1, <2>2 DEF React
<1>8. React(clb, stack', p, o)
    <2>1. ASSUME NEW e \in {o, "FINALLY"}, Enter(s, p, e)
          PROVE  Used(stack', p, e) /\ \E f \in Elems(stack') : f.promise = p /\ f.does \in Events
        <3>. DEFINE f == [does |-> e, promise |-> p]
        <3>1. f \in Frame /\ f.promise = p /\ f.does \in Events
            BY <1>0 DEF Frame
        <3>2. stack' = Append(s, f)
            BY <2>1 DEF Enter
        <3>3. DOMAIN stack' = 1..Len(stack') /\ Len(stack') = Len(s) + 1
              /\ stack'[Len(s) + 1] = f /\ Len(s) \in Nat
            BY <1>5, <3>1, <3>2, AppendProperties, ElemsIndexed
        <3>4. Len(s) + 1 \in DOMAIN stack'
            BY <3>3
        <3>. QED
            BY <3>1, <3>3, <3>4 DEF Used, Elems
    <2>2. clb[p][o] # <<>> => Used(stack', p, o)
        <3>1. CASE Fires(s, p, o)
            BY <2>1, <3>1 DEF Emit
        <3>2. CASE ~Fires(s, p, o)
            BY <1>0, <1>6, <3>2 DEF Fires
        <3>. QED
            BY <3>1, <3>2
    <2>3. ASSUME NEW e \in Events, Used(s, p, e)
          PROVE  \E f \in Elems(stack') : f.promise = p /\ f.does \in Events
        <3>1. [does |-> e, promise |-> p] \in Elems(stack')
            BY <1>5, <2>3, UsedFrame
        <3>. QED
            BY <3>1
    <2>4. clb[p]["FINALLY"] # <<>> => \E f \in Elems(stack') : f.promise = p /\ f.does \in Events
        BY <1>0, <2>1, <2>3 DEF Emit, EmitFinally, Fires
    <2>. QED
        BY <2>2, <2>4 DEF React
<1>9. Reactions'
    BY <1>7, <1>8 DEF Reactions
<1>. QED
    BY <1>5, <1>9

-----------------------------------------------------------------------------
(* The steps, by what they do to states and values.                        *)

\* A promise has a value exactly when it has an outcome and is closed.
ShapeOK(p) ==
    IF value[p] = Nil
    THEN state[p] \cap (Outcomes \cup {"FINISHED"}) = {}
    ELSE \E o \in Outcomes : state[p] = {"FINISHED", o, "CLOSED"}

\* A settled promise is as it was.
Stays ==
    \A p \in Promises : value[p] # Nil => value'[p] = value[p] /\ state'[p] = state[p]

\* A promise is pending until it is settled.
Pends ==
    \A p \in Promises : Is(p, "PENDING") => "PENDING" \in state'[p] \/ value'[p] # Nil

StatesOK ==
    /\ state \in [Promises -> SUBSET Bits]
    /\ value \in [Promises -> Values \cup {Nil}]
    /\ executor \in [Promises -> {"none", "queued", "run"}]
    /\ \A p \in Promises : ShapeOK(p)

LEMMA TypeSplit ==
    TypeOK <=> /\ StatesOK
               /\ clb \in [Promises -> [Events -> Seq(Callbacks)]]
               /\ stack \in Seq(Frame) /\ log \in Seq(Entry)
    BY DEF TypeOK, StatesOK, ShapeOK

LEMMA SettledProperties ==
    ASSUME StatesOK, NEW p \in Promises, value[p] # Nil
    PROVE  /\ Outcome(p) \in Outcomes /\ state[p] = {"FINISHED", Outcome(p), "CLOSED"}
           /\ Is(p, "CLOSED") /\ Is(p, "FINISHED") /\ ~Is(p, "PENDING")
           /\ Settled(p) /\ Outcome(p) # "FINALLY"
<1>1. PICK o \in Outcomes : state[p] = {"FINISHED", o, "CLOSED"}
    BY DEF StatesOK, ShapeOK
<1>2. \A q \in Outcomes : Is(p, q) <=> q = o
    BY <1>1 DEF Is, Outcomes
<1>3. Outcome(p) = o
    BY <1>2 DEF Outcome
<1>. QED
    BY <1>1, <1>3 DEF Is, Settled, Outcomes

\* A step that leaves states, values and executors alone.
LEMMA NothingSettles ==
    ASSUME StatesOK, UNCHANGED <<state, value>>, executor' = executor
    PROVE  StatesOK' /\ Stays /\ Pends
    BY DEF StatesOK, ShapeOK, Stays, Pends, Is

\* A step that adds bits to the state of a promise that is not closed.
LEMMA BitsAdded ==
    ASSUME StatesOK, NEW p \in Promises, NEW bits \in SUBSET Bits,
           bits \cap (Outcomes \cup {"FINISHED"}) = {},
           ~Is(p, "CLOSED"), UNCHANGED value,
           executor' \in [Promises -> {"none", "queued", "run"}],
           state' = [state EXCEPT ![p] = @ \cup bits]
    PROVE  StatesOK' /\ Stays /\ Pends
<1>1. value[p] = Nil
    BY SettledProperties
<1>2. /\ state' \in [Promises -> SUBSET Bits]
      /\ state'[p] = state[p] \cup bits
      /\ \A q \in Promises \ {p} : state'[q] = state[q]
    BY DEF StatesOK
<1>3. \A q \in Promises : ShapeOK(q)'
    <2>. SUFFICES ASSUME NEW q \in Promises
                  PROVE  ShapeOK(q)'
        OBVIOUS
    <2>1. CASE q = p
        <3>1. state[p] \cap (Outcomes \cup {"FINISHED"}) = {}
            BY <1>1 DEF StatesOK, ShapeOK
        <3>2. state'[p] \cap (Outcomes \cup {"FINISHED"}) = {}
            BY <1>2, <3>1
        <3>. QED
            BY <1>1, <2>1, <3>2 DEF ShapeOK
    <2>2. CASE q # p
        BY <1>2, <2>2 DEF StatesOK, ShapeOK
    <2>. QED
        BY <2>1, <2>2
<1>4. Stays
    BY <1>1, <1>2 DEF Stays
<1>5. Pends
    <2>. SUFFICES ASSUME NEW q \in Promises, "PENDING" \in state[q]
                  PROVE  "PENDING" \in state'[q]
        BY DEF Pends, Is
    <2>. QED
        BY <1>2
<1>. QED
    BY <1>2, <1>3, <1>4, <1>5 DEF StatesOK

\* What a settled promise has said and does goes on being right.
LEMMA SettledStay ==
    ASSUME TypeOK, Called, Nil \notin Values, Stays, Pends
    PROVE  /\ StillCalled
           /\ \A p \in Promises : value[p] # Nil => Outcome(p)' = Outcome(p)
           /\ \A f \in Frame :
                 /\ FrameRuns(f)
                 /\ f.does # "AWAIT" => clb'[f.promise][f.does] # <<>>
                 => FrameRuns(f)'
<1>1. \A p \in Promises : value[p] # Nil => Outcome(p)' = Outcome(p)
    BY DEF Stays, Outcome, Is
<1>2. StillCalled
    <2>. SUFFICES ASSUME NEW k \in 1..Len(log), NEW p \in Promises, log[k].promise = p
                  PROVE  log[k].got = value'[p] /\ log[k].event \in {"FINALLY", Outcome(p)'}
        BY DEF StillCalled
    <2>1. log[k].got = value[p] /\ log[k].event \in {"FINALLY", Outcome(p)}
        BY DEF Called
    <2>2. log[k] \in Entry
        BY ElemsIndexed DEF TypeOK
    <2>3. value[p] # Nil
        BY <2>1, <2>2 DEF Entry
    <2>. QED
        BY <1>1, <2>1, <2>3 DEF Stays
<1>3. ASSUME NEW f \in Frame, FrameRuns(f),
             f.does # "AWAIT" => clb'[f.promise][f.does] # <<>>
      PROVE  FrameRuns(f)'
    <2>1. f.promise \in Promises
        BY DEF Frame
    <2>2. CASE f.does = "AWAIT"
        BY <1>3, <2>1, <2>2 DEF FrameRuns, Stays, Pends, Is
    <2>3. CASE f.does # "AWAIT"
        BY <1>1, <1>3, <2>1, <2>3 DEF FrameRuns, Stays
    <2>. QED
        BY <2>2, <2>3
<1>. QED
    BY <1>1, <1>2, <1>3

\* Every step keeps states and values in shape, and settled promises as they
\* are.
LEMMA StatesStep ==
    ASSUME StatesOK, Nil \notin Values, [Next]_vars
    PROVE  StatesOK' /\ Stays /\ Pends
<1>1. CASE UNCHANGED vars
    BY <1>1, NothingSettles DEF vars
<1>2. ASSUME NEW p \in Promises, Construct(p)
      PROVE  StatesOK' /\ Stays /\ Pends
    <2>1. state' = [state EXCEPT ![p] = @ \cup {"PENDING"}]
        BY <1>2 DEF Construct, StatesOK
    <2>2. {"PENDING"} \in SUBSET Bits /\ {"PENDING"} \cap (Outcomes \cup {"FINISHED"}) = {}
        BY DEF Bits, Outcomes
    <2>. QED
        BY <1>2, <2>1, <2>2, BitsAdded DEF Construct, StatesOK, Is
<1>3. ASSUME NEW p \in Promises, RunExecutor(p)
      PROVE  StatesOK' /\ Stays /\ Pends
    <2>1. executor' \in [Promises -> {"none", "queued", "run"}]
        BY <1>3 DEF RunExecutor, StatesOK
    <2>. QED
        BY <1>3, <2>1 DEF RunExecutor, StatesOK, ShapeOK, Stays, Pends, Is
<1>4. ASSUME NEW p \in Promises, Off(p)
      PROVE  StatesOK' /\ Stays /\ Pends
    <2>1. {"CLOSED"} \in SUBSET Bits /\ {"CLOSED"} \cap (Outcomes \cup {"FINISHED"}) = {}
        BY DEF Bits, Outcomes
    <2>. QED
        BY <1>4, <2>1, BitsAdded DEF Off, StatesOK
<1>5. ASSUME NEW p \in Promises, GetValue(p) \/ Await(p)
      PROVE  StatesOK' /\ Stays /\ Pends
    BY <1>5, NothingSettles DEF GetValue, Await
<1>6. ASSUME NEW p \in Promises, NEW c \in Callbacks, Then(p, c) \/ Fail(p, c) \/ Finally(p, c)
      PROVE  StatesOK' /\ Stays /\ Pends
    <2>1. PICK e \in Events, bits \in {{"RESOLVING"}, {"REJECTING"}, {}} : Attach(p, e, c, bits)
        BY <1>6 DEF Then, Fail, Finally, Events, Outcomes
    <2>2. bits \in SUBSET Bits /\ bits \cap (Outcomes \cup {"FINISHED"}) = {}
        BY DEF Bits, Outcomes
    <2>. QED
        BY <2>1, <2>2, BitsAdded DEF Attach, Listen, StatesOK, Is
<1>7. ASSUME NEW p \in Promises, NEW o \in Outcomes, NEW v \in Values, Settle(p, o, v)
      PROVE  StatesOK' /\ Stays /\ Pends
    <2>1. value[p] = Nil
        BY <1>7, SettledProperties DEF Settle
    <2>2. /\ state' = [state EXCEPT ![p] = {"FINISHED", o, "CLOSED"}]
          /\ value' = [value EXCEPT ![p] = v] /\ executor' = executor
        BY <1>7 DEF Settle, Mark, SettledState
    <2>3. {"FINISHED", o, "CLOSED"} \in SUBSET Bits
        BY DEF Bits
    <2>. QED
        BY <2>1, <2>2, <2>3 DEF StatesOK, ShapeOK, Stays, Pends, Is
<1>8. CASE CallbackReturns \/ AwaitReturns
    BY <1>8, NothingSettles DEF CallbackReturns, AwaitReturns, AwaitUntil
<1>. QED
    BY <1>1, <1>2, <1>3, <1>4, <1>5, <1>6, <1>7, <1>8 DEF Next

-----------------------------------------------------------------------------
(* The steps, by what they do to callbacks and frames.                     *)

\* A step that leaves callbacks, log and stack alone and settles nothing.
LEMMA QuietStep ==
    ASSUME IInv, Nil \notin Values, StatesOK', Stays, Pends,
           UNCHANGED <<value, clb, stack, log>>
    PROVE  IInv'
<1>1. TypeOK'
    BY TypeSplit DEF IInv, StatesOK, TypeOK, ShapeOK
<1>2. /\ StillCalled
      /\ \A p \in Promises : value[p] # Nil => Outcome(p)' = Outcome(p)
      /\ \A f \in Frame : FrameRuns(f) => FrameRuns(f)'
    <2>1. \A f \in Frame : FrameRuns(f) /\ f.does # "AWAIT" => clb'[f.promise][f.does] # <<>>
        BY DEF FrameRuns
    <2>. QED
        BY <2>1, SettledStay DEF IInv
<1>3. Called'
    <2>. SUFFICES ASSUME NEW k \in 1..Len(log'), NEW p \in Promises, log'[k].promise = p
                  PROVE  log'[k].got = value'[p] /\ log'[k].event \in {"FINALLY", Outcome(p)'}
        BY DEF Called
    <2>. QED
        BY <1>2 DEF StillCalled
<1>4. FramesRun'
    BY <1>2, ElemsIndexed DEF FramesRun, IInv, TypeOK
<1>5. Reactions'
    <2>. SUFFICES ASSUME NEW p \in Promises, value[p] # Nil
                  PROVE  React(clb, stack, p, Outcome(p)')
        BY DEF Reactions
    <2>. QED
        BY <1>2 DEF IInv, Reactions
<1>6. AttachedOnce' /\ RunningFirst' /\ CalledOnce' /\ Once(stack)'
    BY SMTT(40) DEF IInv, AttachedOnce, RunningFirst, FirstRuns, CalledOnce, Logged
<1>. QED
    BY <1>1, <1>3, <1>4, <1>5, <1>6 DEF IInv

\* await() begins.
LEMMA AwaitStep ==
    ASSUME IInv, Nil \notin Values, StatesOK', Stays, Pends, NEW p \in Promises, Await(p)
    PROVE  IInv'
<1>. DEFINE f == [does |-> "AWAIT", promise |-> p]
<1>1. f \in Frame /\ "AWAIT" \notin Events
    BY DEF Frame, Events, Outcomes
<1>2. /\ stack' = Append(stack, f) /\ stack \in Seq(Frame) /\ Once(stack)
      /\ UNCHANGED <<state, value, clb, log>>
    BY <1>1 DEF Await, IInv, TypeOK
<1>3. stack' \in Seq(Frame) /\ Once(stack') /\ Elems(stack') = Elems(stack) \cup {f}
    BY <1>1, <1>2, Pushed
<1>4. \A q \in Promises : Outcome(q)' = Outcome(q)
    BY <1>2 DEF Outcome, Is
<1>5. \A q \in Promises : \A e : Used(stack, q, e) => Used(stack', q, e)
    BY <1>3, UsedFrame
<1>6. TypeOK'
    BY <1>2, <1>3, TypeSplit DEF IInv, StatesOK, TypeOK, ShapeOK
<1>7. Called'
    <2>. SUFFICES ASSUME NEW k \in 1..Len(log), NEW q \in Promises, log[k].promise = q
                  PROVE  log[k].got = value[q] /\ log[k].event \in {"FINALLY", Outcome(q)'}
        BY <1>2 DEF Called
    <2>. QED
        BY <1>4 DEF IInv, Called
<1>8. FramesRun'
    <2>1. \A g \in Frame : FrameRuns(g) => FrameRuns(g)'
        BY <1>2, <1>4 DEF FrameRuns, Is, Frame
    <2>2. FrameRuns(f)'
        BY <1>2 DEF FrameRuns, Await, Is
    <2>. QED
        BY <1>2, <1>3, <2>1, <2>2, ElemsIndexed DEF FramesRun, IInv
<1>9. Reactions'
    <2>. SUFFICES ASSUME NEW q \in Promises, value[q] # Nil
                  PROVE  React(clb, stack', q, Outcome(q)')
        BY <1>2 DEF Reactions
    <2>. QED
        BY <1>3, <1>4, <1>5 DEF IInv, Reactions, React
<1>10. AttachedOnce' /\ RunningFirst' /\ CalledOnce'
    <2>1. AttachedOnce' /\ CalledOnce' /\ Logged' = Logged
        BY <1>2 DEF IInv, AttachedOnce, CalledOnce, Logged
    <2>2. RunningFirst'
        BY <1>2, <1>5, <2>1 DEF IInv, RunningFirst, FirstRuns
    <2>. QED
        BY <2>1, <2>2
<1>. QED
    BY <1>3, <1>6, <1>7, <1>8, <1>9, <1>10 DEF IInv

\* then(), fail() and finally() that are not refused.
LEMMA ListenStep ==
    ASSUME IInv, Nil \notin Values, StatesOK', Stays, Pends,
           NEW p \in Promises, NEW e \in Events, NEW c \in Callbacks, NEW bits,
           Attach(p, e, c, bits)
    PROVE  IInv'
<1>. DEFINE w == Append(clb[p][e], c)
<1>0. clb \in [Promises -> [Events -> Seq(Callbacks)]]
    BY DEF IInv, TypeOK
<1>1. /\ clb' = [clb EXCEPT ![p][e] = Append(@, c)]
      /\ UNCHANGED <<value, executor, stack, log>>
      /\ c \notin Logged /\ c \notin Attached /\ ~Is(p, "CLOSED")
    BY DEF Attach, Listen, Is
<1>2. /\ w \in Seq(Callbacks) /\ Len(w) = Len(clb[p][e]) + 1 /\ w[Len(clb[p][e]) + 1] = c
      /\ \A i \in 1..Len(clb[p][e]) : w[i] = clb[p][e][i]
      /\ Len(clb[p][e]) \in Nat
    BY <1>0, AppendProperties, LenProperties
<1>3. /\ clb' \in [Promises -> [Events -> Seq(Callbacks)]]
      /\ clb'[p][e] = w
      /\ \A q \in Promises, f \in Events : q # p \/ f # e => clb'[q][f] = clb[q][f]
    BY <1>0, <1>1, <1>2
<1>. HIDE DEF w
<1>4. \A q \in Promises, f \in Events : \A i \in 1..Len(clb'[q][f]) :
         \/ i \in 1..Len(clb[q][f]) /\ clb'[q][f][i] = clb[q][f][i]
         \/ q = p /\ f = e /\ i = Len(clb[p][e]) + 1 /\ clb'[q][f][i] = c
    BY <1>2, <1>3
<1>5. \A q \in Promises, f \in Events : \A i \in 1..Len(clb[q][f]) : clb[q][f][i] # c
    <2>. SUFFICES ASSUME NEW q \in Promises, NEW f \in Events, NEW i \in 1..Len(clb[q][f])
                  PROVE  clb[q][f][i] \in Attached
        BY <1>1
    <2>1. clb[q][f] \in Seq(Callbacks)
        BY <1>0
    <2>2. clb[q][f][i] \in Elems(clb[q][f])
        BY <2>1, ElemsIndexed
    <2>3. Elems(clb[q][f]) \in {Elems(clb[r][g]) : r \in Promises, g \in Events}
        OBVIOUS
    <2>. QED
        BY <2>2, <2>3 DEF Attached
<1>6. AttachedOnce'
    <2>. SUFFICES ASSUME NEW q \in Promises, NEW r \in Promises, NEW f \in Events, NEW g \in Events,
                         NEW i \in 1..Len(clb'[q][f]), NEW j \in 1..Len(clb'[r][g]),
                         clb'[q][f][i] = clb'[r][g][j]
                  PROVE  q = r /\ f = g /\ i = j
        BY DEF AttachedOnce
    <2>1. CASE clb'[q][f][i] = c
        <3>1. q = p /\ f = e /\ i = Len(clb[p][e]) + 1
            BY ZenonT(60), <1>4, <1>5, <2>1
        <3>2. r = p /\ g = e /\ j = Len(clb[p][e]) + 1
            <4>1. clb'[r][g][j] = c
                BY <2>1
            <4>. QED
                BY <1>4, <1>5, <4>1
        <3>. QED
            BY <3>1, <3>2
    <2>2. CASE clb'[q][f][i] # c
        <3>1. /\ i \in 1..Len(clb[q][f]) /\ clb'[q][f][i] = clb[q][f][i]
              /\ j \in 1..Len(clb[r][g]) /\ clb'[r][g][j] = clb[r][g][j]
            BY <1>4, <2>2
        <3>2. clb[q][f][i] = clb[r][g][j]
            BY <3>1
        <3>3. AttachedOnce
            BY DEF IInv
        <3>. QED
            BY <3>1, <3>2, <3>3 DEF AttachedOnce
    <2>. QED
        BY <2>1, <2>2
<1>7. RunningFirst'
    <2>. SUFFICES ASSUME NEW q \in Promises, NEW f \in Events, NEW i \in 1..Len(clb'[q][f]),
                         clb'[q][f][i] \in Logged
                  PROVE  i = 1 /\ Used(stack, q, f)
        BY <1>1 DEF RunningFirst, FirstRuns, Logged
    <2>1. i \in 1..Len(clb[q][f]) /\ clb'[q][f][i] = clb[q][f][i]
        BY <1>1, <1>4
    <2>. QED
        BY <2>1 DEF IInv, RunningFirst, FirstRuns
<1>8. TypeOK'
    BY <1>1, <1>3, TypeSplit DEF IInv, StatesOK, TypeOK, ShapeOK
<1>9. value[p] = Nil
    BY <1>1, TypeSplit, SettledProperties DEF IInv
<1>10. \A q \in Promises : value[q] # Nil => \A f \in Events : clb'[q][f] = clb[q][f]
    BY <1>3, <1>9
<1>11. /\ StillCalled
       /\ \A q \in Promises : value[q] # Nil => Outcome(q)' = Outcome(q)
       /\ \A f \in Frame : FrameRuns(f) => FrameRuns(f)'
    <2>1. \A f \in Frame : FrameRuns(f) /\ f.does # "AWAIT" => clb'[f.promise][f.does] # <<>>
        BY <1>10 DEF FrameRuns, Frame
    <2>. QED
        BY <2>1, SettledStay DEF IInv
<1>12. Called'
    <2>. SUFFICES ASSUME NEW k \in 1..Len(log'), NEW q \in Promises, log'[k].promise = q
                  PROVE  log'[k].got = value'[q] /\ log'[k].event \in {"FINALLY", Outcome(q)'}
        BY DEF Called
    <2>. QED
        BY <1>1, <1>11 DEF StillCalled
<1>13. FramesRun'
    BY <1>1, <1>11, ElemsIndexed DEF FramesRun, IInv, TypeOK
<1>14. Reactions'
    <2>. SUFFICES ASSUME NEW q \in Promises, value[q] # Nil
                  PROVE  React(clb', stack, q, Outcome(q)')
        BY <1>1 DEF Reactions
    <2>1. Outcome(q) \in Events /\ "FINALLY" \in Events
        BY TypeSplit, SettledProperties DEF IInv, Events
    <2>. QED
        BY <1>10, <1>11, <2>1 DEF IInv, Reactions, React
<1>15. CalledOnce' /\ Once(stack)'
    BY <1>1 DEF IInv, CalledOnce
<1>. QED
    BY <1>6, <1>7, <1>8, <1>12, <1>13, <1>14, <1>15 DEF IInv

\* res(), rej(), get_value() and the destructor of a promise: they emit on
\* top of what runs.
LEMMA EmittingStep ==
    ASSUME IInv, Nil \notin Values, StatesOK', Stays, Pends,
           NEW p \in Promises, NEW o \in Outcomes, o = Outcome(p)', value'[p] \in Values,
           \A q \in Promises \ {p} : value'[q] = value[q],
           NEW s \in Seq(Frame), Once(s), FirstRuns(clb, s), clb' = clb,
           Elems(s) \subseteq Elems(stack),
           \A f \in Elems(stack) : f.does \in Events => f \in Elems(s),
           Emit(s, p, o)
    PROVE  IInv'
<1>0. clb \in [Promises -> [Events -> Seq(Callbacks)]] /\ log \in Seq(Entry)
      /\ stack \in Seq(Frame)
    BY DEF IInv, TypeOK
<1>1. /\ StillCalled
      /\ \A q \in Promises : value[q] # Nil => Outcome(q)' = Outcome(q)
      /\ \A f \in Frame : FrameRuns(f) => FrameRuns(f)'
    <2>1. \A f \in Frame : FrameRuns(f) /\ f.does # "AWAIT" => clb'[f.promise][f.does] # <<>>
        BY DEF FrameRuns
    <2>. QED
        BY <2>1, SettledStay DEF IInv
<1>2. \A f \in Elems(s) : FrameRuns(f)'
    BY <1>0, <1>1, ElemsIndexed DEF IInv, FramesRun
<1>3. \A q \in Promises \ {p} : value'[q] # Nil => React(clb, s, q, Outcome(q)')
    <2>. SUFFICES ASSUME NEW q \in Promises \ {p}, value[q] # Nil
                  PROVE  React(clb, s, q, Outcome(q))
        BY <1>1
    <2>1. Outcome(q) \in Events
        BY TypeSplit, SettledProperties DEF IInv, Events
    <2>2. React(clb, stack, q, Outcome(q))
        BY DEF IInv, Reactions
    <2>3. \A e \in Events : Used(stack, q, e) => Used(s, q, e)
        BY UsedFrame
    <2>. QED
        BY <2>1, <2>2, <2>3 DEF React
<1>4. /\ stack' \in Seq(Frame) /\ log' \in Seq(Entry)
      /\ CalledOnce' /\ Called' /\ RunningFirst' /\ Once(stack)' /\ FramesRun'
      /\ Reactions'
    BY <1>0, <1>1, <1>2, <1>3, EmitKeeps DEF IInv
<1>5. TypeOK'
    BY <1>0, <1>4, TypeSplit DEF IInv, StatesOK, TypeOK, ShapeOK
<1>6. AttachedOnce'
    BY DEF IInv, AttachedOnce
<1>. QED
    BY <1>4, <1>5, <1>6 DEF IInv

\* A callback returns and is erased; the next is called, or the emission ends.
LEMMA ReturnStep ==
    ASSUME IInv, Nil \notin Values, StatesOK', Stays, Pends, CallbackReturns
    PROVE  IInv'
<1>0. /\ clb \in [Promises -> [Events -> Seq(Callbacks)]] /\ log \in Seq(Entry)
      /\ stack \in Seq(Frame) /\ Once(stack) /\ stack # <<>>
      /\ AttachedOnce /\ RunningFirst /\ CalledOnce
    BY DEF IInv, TypeOK, CallbackReturns, InCallback
<1>1. /\ Popped \in Seq(Frame) /\ Once(Popped) /\ Elems(stack) = Elems(Popped) \cup {Top}
      /\ Top \in Frame /\ Top \in Elems(stack) /\ Top \notin Elems(Popped)
      /\ Top.promise \in Promises /\ Top.does \in Events /\ "AWAIT" \notin Events
    BY <1>0, PoppedProperties DEF CallbackReturns, InCallback, Frame, Events, Outcomes
<1>2. PICK t \in Frame, p \in Promises, e \in Events :
         t = Top /\ p = Top.promise /\ e = Top.does /\ t = [does |-> e, promise |-> p]
    BY <1>1 DEF Frame
<1>. DEFINE w == Tail(clb[p][e])
<1>3. FrameRuns(t)
    BY <1>1, <1>2 DEF IInv, FramesRun
<1>4. /\ value[p] # Nil /\ e \in {"FINALLY", Outcome(p)} /\ clb[p][e] # <<>>
      /\ Outcome(p) \in Outcomes /\ Outcome(p) # "FINALLY"
    BY <1>1, <1>2, <1>3, TypeSplit, SettledProperties DEF FrameRuns, IInv
<1>5. /\ clb' = [clb EXCEPT ![p][e] = Tail(@)] /\ UNCHANGED <<state, value, executor>>
    BY <1>2 DEF CallbackReturns
<1>6. /\ w \in Seq(Callbacks) /\ Len(w) = Len(clb[p][e]) - 1
      /\ Len(clb[p][e]) \in Nat /\ Len(clb[p][e]) # 0
      /\ \A i \in 1..Len(w) : w[i] = clb[p][e][i + 1]
    BY <1>0, <1>1, <1>4, HeadTailProperties, ElemsIndexed
<1>7. /\ clb' \in [Promises -> [Events -> Seq(Callbacks)]]
      /\ clb'[p][e] = w
      /\ \A q \in Promises, f \in Events : q # p \/ f # e => clb'[q][f] = clb[q][f]
    BY <1>0, <1>1, <1>5, <1>6
<1>. HIDE DEF w
<1>8. AttachedOnce'
    <2>. SUFFICES ASSUME NEW q \in Promises, NEW r \in Promises, NEW f \in Events, NEW g \in Events,
                         NEW i \in 1..Len(clb'[q][f]), NEW j \in 1..Len(clb'[r][g]),
                         clb'[q][f][i] = clb'[r][g][j]
                  PROVE  q = r /\ f = g /\ i = j
        BY DEF AttachedOnce
    <2>1. ASSUME NEW x \in Promises, NEW h \in Events, NEW k \in 1..Len(clb'[x][h])
          PROVE  /\ k \in Nat
                 /\ (x = p /\ h = e) =>
                       (k + 1 \in 1..Len(clb[x][h]) /\ clb'[x][h][k] = clb[x][h][k + 1])
                 /\ (x # p \/ h # e) =>
                       (k \in 1..Len(clb[x][h]) /\ clb'[x][h][k] = clb[x][h][k])
        <3>0. k \in Nat
            OBVIOUS
        <3>1. ASSUME x = p, h = e
              PROVE  k + 1 \in 1..Len(clb[x][h]) /\ clb'[x][h][k] = clb[x][h][k + 1]
            <4>1. clb'[x][h] = w
                BY <1>7, <3>1
            <4>. QED
                BY <1>6, <3>1, <4>1
        <3>2. ASSUME x # p \/ h # e
              PROVE  k \in 1..Len(clb[x][h]) /\ clb'[x][h][k] = clb[x][h][k]
            BY <1>7, <3>2
        <3>. QED
            BY <3>0, <3>1, <3>2
    <2>2. CASE q = p /\ f = e /\ r = p /\ g = e
        <3>1. i + 1 = j + 1
            BY <1>0, <2>1, <2>2 DEF AttachedOnce
        <3>. QED
            BY <2>1, <2>2, <3>1
    <2>3. CASE (q = p /\ f = e) /\ (r # p \/ g # e)
        BY <1>0, <2>1, <2>3 DEF AttachedOnce
    <2>4. CASE (q # p \/ f # e) /\ (r = p /\ g = e)
        BY <1>0, <2>1, <2>4 DEF AttachedOnce
    <2>5. CASE (q # p \/ f # e) /\ (r # p \/ g # e)
        <3>1. /\ i \in 1..Len(clb[q][f]) /\ clb'[q][f][i] = clb[q][f][i]
              /\ j \in 1..Len(clb[r][g]) /\ clb'[r][g][j] = clb[r][g][j]
            BY <2>1, <2>5
        <3>2. clb[q][f][i] = clb[r][g][j]
            BY <3>1
        <3>. QED
            BY <1>0, <3>1, <3>2 DEF AttachedOnce
    <2>. QED
        BY <2>2, <2>3, <2>4, <2>5
<1>9. \A i \in 1..Len(w) : w[i] \notin Logged
    <2>. SUFFICES ASSUME NEW i \in 1..Len(w)
                  PROVE  w[i] \notin Logged
        OBVIOUS
    <2>1. i + 1 \in 1..Len(clb[p][e]) /\ i + 1 # 1
        BY <1>6
    <2>. QED
        BY <1>0, <1>1, <1>6, <2>1 DEF RunningFirst, FirstRuns
<1>10. \A q \in Promises, f \in Events :
          q # p \/ f # e => (Used(stack, q, f) => Used(Popped, q, f))
    <2>. SUFFICES ASSUME NEW q \in Promises, NEW f \in Events, q # p \/ f # e,
                         [does |-> f, promise |-> q] \in Elems(stack)
                  PROVE  [does |-> f, promise |-> q] \in Elems(Popped)
        BY UsedFrame
    <2>1. [does |-> f, promise |-> q] # t
        BY <1>2
    <2>. QED
        BY <1>1, <1>2, <2>1
<1>11. FirstRuns(clb', Popped)
    <2>. SUFFICES ASSUME NEW q \in Promises, NEW f \in Events, NEW i \in 1..Len(clb'[q][f]),
                         clb'[q][f][i] \in Logged
                  PROVE  i = 1 /\ Used(Popped, q, f)
        BY DEF FirstRuns
    <2>1. q # p \/ f # e
        BY <1>7, <1>9
    <2>2. clb'[q][f] = clb[q][f]
        BY <1>7, <2>1
    <2>. QED
        BY <1>0, <1>10, <2>1, <2>2 DEF RunningFirst, FirstRuns
<1>12. /\ StillCalled
       /\ \A q \in Promises : value[q] # Nil => Outcome(q)' = Outcome(q)
       /\ \A f \in Frame :
             FrameRuns(f) /\ (f.does # "AWAIT" => clb'[f.promise][f.does] # <<>>) => FrameRuns(f)'
    BY SettledStay DEF IInv
<1>13. ASSUME NEW f \in Elems(Popped)
       PROVE  FrameRuns(f)'
    <2>1. f \in Frame /\ FrameRuns(f) /\ f # t
        BY <1>0, <1>1, <1>2, ElemsIndexed DEF IInv, FramesRun
    <2>2. f.does # "AWAIT" => f.promise # p \/ f.does # e
        BY <1>2, <2>1 DEF Frame
    <2>3. f.does # "AWAIT" => clb'[f.promise][f.does] # <<>>
        BY <1>7, <2>1, <2>2 DEF Frame, FrameRuns
    <2>. QED
        BY <1>12, <2>1, <2>3
<1>14. ASSUME NEW q \in Promises \ {p}, value'[q] # Nil,
              NEW s, Elems(Popped) \subseteq Elems(s)
       PROVE  React(clb', s, q, Outcome(q)')
    <2>1. Outcome(q) \in Events /\ "FINALLY" \in Events /\ Outcome(q)' = Outcome(q)
        BY <1>5, <1>12, <1>14, TypeSplit, SettledProperties DEF IInv, Events
    <2>2. React(clb, stack, q, Outcome(q))
        BY <1>5, <1>14 DEF IInv, Reactions
    <2>3. clb'[q][Outcome(q)] = clb[q][Outcome(q)] /\ clb'[q]["FINALLY"] = clb[q]["FINALLY"]
        BY <1>7, <2>1
    <2>4. Used(stack, q, Outcome(q)) => Used(s, q, Outcome(q))
        BY <1>10, <1>14, <2>1, UsedFrame
    <2>5. \A f \in Elems(stack) : f.promise = q => f \in Elems(s)
        BY <1>1, <1>2, <1>14
    <2>. QED
        BY <2>1, <2>2, <2>3, <2>4, <2>5 DEF React
<1>15. Nil \notin Values /\ value'[p] \in Values /\ Outcome(p)' = Outcome(p)
    <2>1. value \in [Promises -> Values \cup {Nil}]
        BY DEF IInv, TypeOK
    <2>. QED
        BY <1>4, <1>5, <1>12, <2>1
<1>16. SUFFICES /\ stack' \in Seq(Frame) /\ log' \in Seq(Entry)
                /\ CalledOnce' /\ Called' /\ RunningFirst' /\ Once(stack)' /\ FramesRun'
                /\ Reactions'
    BY <1>7, <1>8, <1>16, TypeSplit DEF IInv, StatesOK, TypeOK, ShapeOK
<1>17. CASE NextListener
    <2>1. Len(clb[p][e]) > 1 /\ stack' = stack
        BY <1>2, <1>17 DEF NextListener
    <2>2. 1 \in 1..Len(w) /\ w # <<>> /\ w[1] = clb[p][e][2]
        BY <1>6, <2>1, ElemsIndexed
    <2>3. w[1] \notin Logged
        BY <1>9, <2>2
    <2>4. Used(stack', p, e)
        BY <1>1, <1>2, <2>1, UsedFrame
    <2>5. Calls(p, e)
        BY <1>1, <1>2, <1>4, <1>7, <1>15, <1>17, <2>2, <2>3, <2>4 DEF Calls, NextListener, Call
    <2>6. FirstRuns(clb', stack')
        BY <1>1, <1>11, <2>1, UsedFrame DEF FirstRuns
    <2>7. log' \in Seq(Entry) /\ CalledOnce' /\ Called' /\ RunningFirst'
        BY <1>0, <1>1, <1>7, <1>8, <1>12, <2>5, <2>6, LogKeeps
    <2>8. FramesRun'
        <3>1. clb'[p][e] # <<>>
            BY <1>7, <2>2
        <3>2. FrameRuns(t)'
            BY <1>2, <1>3, <1>12, <3>1
        <3>. QED
            BY <1>1, <1>2, <1>13, <2>1, <3>2 DEF FramesRun
    <2>9. Reactions'
        <3>1. React(clb', stack, p, Outcome(p))
            <4>1. React(clb, stack, p, Outcome(p))
                BY <1>1, <1>4 DEF IInv, Reactions
            <4>0. Outcome(p) \in Events /\ "FINALLY" \in Events
                BY <1>4 DEF Events
            <4>2. clb'[p][Outcome(p)] # <<>> => clb[p][Outcome(p)] # <<>>
                BY <1>4, <1>7, <4>0
            <4>3. clb'[p]["FINALLY"] # <<>> => clb[p]["FINALLY"] # <<>>
                BY <1>4, <1>7, <4>0
            <4>. QED
                BY <4>1, <4>2, <4>3 DEF React
        <3>2. \A q \in Promises \ {p} : value'[q] # Nil => React(clb', stack, q, Outcome(q)')
            BY <1>1, <1>14
        <3>. QED
            BY <1>15, <2>1, <3>1, <3>2 DEF Reactions
    <2>. QED
        BY <1>0, <2>1, <2>7, <2>8, <2>9
<1>18. CASE LastListener
    <2>1. Len(clb[p][e]) = 1
        BY <1>2, <1>18 DEF LastListener
    <2>2. w = <<>>
        BY <1>6, <2>1, ElemsIndexed
    <2>3. CASE e = "FINALLY" /\ stack' = Popped /\ UNCHANGED log
        <3>1. /\ stack' \in Seq(Frame) /\ log' \in Seq(Entry)
              /\ CalledOnce' /\ Called' /\ RunningFirst' /\ Once(stack)' /\ FramesRun'
            BY <1>0, <1>1, <1>7, <1>8, <1>11, <1>12, <1>13, <2>3, GoesKeeps
        <3>2. React(clb', Popped, p, Outcome(p))
            <4>1. React(clb, stack, p, Outcome(p))
                BY <1>1, <1>4 DEF IInv, Reactions
            <4>2. clb'[p]["FINALLY"] = <<>> /\ clb'[p][Outcome(p)] = clb[p][Outcome(p)]
                BY <1>1, <1>4, <1>7, <2>2, <2>3 DEF Events
            <4>3. Used(stack, p, Outcome(p)) => Used(Popped, p, Outcome(p))
                BY <1>1, <1>4, <1>10, <2>3 DEF Events
            <4>. QED
                BY <4>1, <4>2, <4>3 DEF React
        <3>3. \A q \in Promises \ {p} : value'[q] # Nil => React(clb', Popped, q, Outcome(q)')
            BY <1>14
        <3>4. Reactions'
            BY <1>15, <2>3, <3>2, <3>3 DEF Reactions
        <3>. QED
            BY <3>1, <3>4
    <2>4. CASE e \in Outcomes /\ EmitFinally(Popped, p)
        <3>1. e = Outcome(p) /\ e # "FINALLY" /\ "FINALLY" \in Events
            BY <1>4, <2>4 DEF Outcomes, Events
        <3>2. clb'[p]["FINALLY"] = clb[p]["FINALLY"] /\ clb'[p][Outcome(p)] = <<>>
            BY <1>1, <1>7, <2>2, <3>1
        <3>3. Fires(Popped, p, "FINALLY") => Goes(Popped, p, "FINALLY")
            <4>. SUFFICES ASSUME Fires(Popped, p, "FINALLY")
                          PROVE  Goes(Popped, p, "FINALLY")
                OBVIOUS
            <4>1. clb'[p]["FINALLY"] # <<>> /\ ~Used(Popped, p, "FINALLY")
                BY <3>2 DEF Fires
            <4>2. 1 \in 1..Len(clb'[p]["FINALLY"])
                BY <1>1, <1>7, <3>1, <4>1, ElemsIndexed
            <4>3. clb'[p]["FINALLY"][1] \notin Logged
                BY <1>1, <1>11, <3>1, <4>1, <4>2 DEF FirstRuns
            <4>4. Enter(Popped, p, "FINALLY")
                BY <2>4 DEF EmitFinally
            <4>. QED
                BY <1>15, <3>2, <4>1, <4>3, <4>4 DEF Goes, Enter, Call
        <3>4. \/ stack' = Popped /\ log' = log
              \/ \E f \in Events : Goes(Popped, p, f)
            BY <2>4, <3>1, <3>3 DEF EmitFinally
        <3>5. /\ stack' \in Seq(Frame) /\ log' \in Seq(Entry)
              /\ CalledOnce' /\ Called' /\ RunningFirst' /\ Once(stack)' /\ FramesRun'
              /\ Elems(Popped) \subseteq Elems(stack)'
            BY <1>0, <1>1, <1>7, <1>8, <1>11, <1>12, <1>13, <3>4, GoesKeeps
        <3>6. clb'[p]["FINALLY"] # <<>> =>
                 \E f \in Elems(stack') : f.promise = p /\ f.does \in Events
            <4>1. CASE Fires(Popped, p, "FINALLY")
                <5>1. stack' = Append(Popped, [does |-> "FINALLY", promise |-> p])
                    BY <2>4, <4>1 DEF EmitFinally, Enter
                <5>2. /\ [does |-> "FINALLY", promise |-> p] \in Frame
                      /\ [does |-> "FINALLY", promise |-> p] \notin Elems(Popped)
                    BY <1>1, <3>1, <4>1, UsedFrame DEF Frame, Fires
                <5>3. [does |-> "FINALLY", promise |-> p] \in Elems(stack')
                    BY <1>1, <5>1, <5>2, Pushed
                <5>. QED
                    BY <3>1, <5>3
            <4>2. CASE Used(Popped, p, "FINALLY")
                BY <3>1, <3>5, <4>2, UsedFrame
            <4>. QED
                BY <3>2, <4>1, <4>2 DEF Fires
        <3>7. \A q \in Promises \ {p} : value'[q] # Nil => React(clb', stack', q, Outcome(q)')
            BY <1>14, <3>5
        <3>8. Reactions'
            BY <1>15, <3>2, <3>6, <3>7 DEF Reactions, React
        <3>. QED
            BY <3>5, <3>8
    <2>. QED
        BY <1>2, <1>18, <2>3, <2>4 DEF LastListener
<1>. QED
    BY <1>17, <1>18 DEF CallbackReturns

-----------------------------------------------------------------------------
(* The theorems about promises.                                            *)

LEMMA Starts == Init => IInv
<1>. SUFFICES ASSUME Init
              PROVE  IInv
    OBVIOUS
<1>1. <<>> \in Seq(Callbacks) /\ <<>> \in Seq(Frame) /\ <<>> \in Seq(Entry)
      /\ Len(<<>>) = 0 /\ Elems(<<>>) = {}
    BY ElemsIndexed, EmptySeq DEF Elems
<1>2. /\ clb \in [Promises -> [Events -> Seq(Callbacks)]]
      /\ \A p \in Promises, e \in Events : clb[p][e] = <<>>
    BY <1>1 DEF Init
<1>3. StatesOK
    BY DEF Init, StatesOK, ShapeOK
<1>4. TypeOK
    BY <1>1, <1>2, <1>3, TypeSplit DEF Init
<1>5. AttachedOnce /\ RunningFirst
    BY <1>1, <1>2 DEF AttachedOnce, RunningFirst, FirstRuns
<1>6. CalledOnce /\ Called /\ Once(stack) /\ FramesRun
    BY <1>1 DEF Init, CalledOnce, Called, Once, FramesRun
<1>7. Reactions
    BY DEF Init, Reactions
<1>. QED
    BY <1>4, <1>5, <1>6, <1>7 DEF IInv

LEMMA Step ==
    ASSUME IInv, [Next]_vars
    PROVE  IInv'
<1>0. Nil \notin Values
    BY PromiseAssumption
<1>1. StatesOK' /\ Stays /\ Pends
    BY <1>0, TypeSplit, StatesStep DEF IInv
<1>2. /\ stack \in Seq(Frame) /\ Once(stack) /\ FirstRuns(clb, stack)
      /\ value \in [Promises -> Values \cup {Nil}] /\ StatesOK
      /\ state \in [Promises -> SUBSET Bits]
    BY TypeSplit DEF IInv, RunningFirst, StatesOK
<1>3. CASE UNCHANGED vars
    BY <1>0, <1>1, <1>3, QuietStep DEF vars
<1>4. ASSUME NEW p \in Promises, Construct(p) \/ RunExecutor(p) \/ Off(p)
      PROVE  IInv'
    BY <1>0, <1>1, <1>4, QuietStep DEF Construct, RunExecutor, Off
<1>5. ASSUME NEW p \in Promises, Await(p)
      PROVE  IInv'
    BY <1>0, <1>1, <1>5, AwaitStep
<1>6. ASSUME NEW p \in Promises, NEW c \in Callbacks, Then(p, c) \/ Fail(p, c) \/ Finally(p, c)
      PROVE  IInv'
    <2>1. PICK e \in Events, bits \in {{"RESOLVING"}, {"REJECTING"}, {}} : Attach(p, e, c, bits)
        BY <1>6 DEF Then, Fail, Finally, Events, Outcomes
    <2>. QED
        BY <1>0, <1>1, <2>1, ListenStep
<1>7. ASSUME NEW p \in Promises, NEW o \in Outcomes, NEW v \in Values, Settle(p, o, v)
      PROVE  IInv'
    <2>1. /\ state' = [state EXCEPT ![p] = {"FINISHED", o, "CLOSED"}]
          /\ value' = [value EXCEPT ![p] = v]
          /\ Emit(stack, p, o) /\ clb' = clb
        BY <1>7 DEF Settle, Mark, SettledState
    <2>2. /\ state'[p] = {"FINISHED", o, "CLOSED"} /\ value'[p] = v
          /\ \A q \in Promises \ {p} : value'[q] = value[q]
        BY <1>2, <2>1
    <2>3. o = Outcome(p)'
        BY <2>2 DEF Outcome, Is, Outcomes
    <2>. QED
        BY <1>0, <1>1, <1>2, <2>1, <2>2, <2>3, EmittingStep
<1>8. ASSUME NEW p \in Promises, GetValue(p)
      PROVE  IInv'
    <2>1. value[p] # Nil /\ UNCHANGED <<state, value, clb>> /\ Emit(stack, p, Outcome(p))
        BY <1>8 DEF GetValue, Settled
    <2>2. PICK o \in Outcomes : o = Outcome(p)
        BY <1>2, <2>1, SettledProperties
    <2>3. o = Outcome(p)'
        BY <2>1, <2>2 DEF Outcome, Is
    <2>4. Emit(stack, p, o) /\ value'[p] \in Values /\ clb' = clb
          /\ \A q \in Promises \ {p} : value'[q] = value[q]
        BY <1>2, <2>1, <2>2
    <2>. QED
        BY <1>0, <1>1, <1>2, <2>3, <2>4, EmittingStep
<1>9. CASE AwaitReturns
    <2>1. /\ stack # <<>> /\ Top.does = "AWAIT" /\ ~Is(Top.promise, "PENDING")
          /\ UNCHANGED <<state, value, clb>>
          /\ Emit(Popped, Top.promise, Outcome(Top.promise))
        BY <1>9 DEF AwaitReturns, AwaitUntil
    <2>2. /\ Popped \in Seq(Frame) /\ Once(Popped)
          /\ Elems(stack) = Elems(Popped) \cup {Top} /\ Top \in Frame
        BY <1>2, <2>1, PoppedProperties
    <2>3. PICK p \in Promises : p = Top.promise
        BY <2>2 DEF Frame
    <2>4. value[p] # Nil
        BY <2>1, <2>2, <2>3 DEF IInv, FramesRun, FrameRuns
    <2>5. PICK o \in Outcomes : o = Outcome(p)
        BY <1>2, <2>4, SettledProperties
    <2>6. o = Outcome(p)'
        BY <2>1, <2>5 DEF Outcome, Is
    <2>7. Emit(Popped, p, o) /\ value'[p] \in Values /\ clb' = clb
          /\ \A q \in Promises \ {p} : value'[q] = value[q]
        BY <1>2, <2>1, <2>3, <2>4, <2>5
    <2>8. "AWAIT" \notin Events
        BY DEF Events, Outcomes
    <2>9. \A f \in Elems(stack) : f.does \in Events => f \in Elems(Popped)
        BY <2>1, <2>2, <2>8
    <2>10. FirstRuns(clb, Popped)
        <3>1. \A q \in Promises, e \in Events : Used(stack, q, e) => Used(Popped, q, e)
            BY <2>9, UsedFrame
        <3>. QED
            BY <1>2, <3>1 DEF FirstRuns
    <2>. QED
        BY <1>0, <1>1, <2>2, <2>6, <2>7, <2>9, <2>10, EmittingStep
<1>10. CASE CallbackReturns
    BY <1>0, <1>1, <1>10, ReturnStep
<1>. QED
    BY <1>3, <1>4, <1>5, <1>6, <1>7, <1>8, <1>9, <1>10 DEF Next

\* The invariant the theorems below follow from.
THEOREM Invariance == Spec => []IInv
    BY Starts, Step, PTL DEF Spec

\* However the emissions of a promise nest, no callback is called twice, none
\* for another outcome, and none with another value than its promise's
\* (promise_t::emit, get_value and await).
THEOREM CallsFit == Spec => []CalledFittingly
<1>1. IInv => CalledFittingly
    <2>. SUFFICES ASSUME IInv
                  PROVE  CalledFittingly
        OBVIOUS
    <2>0. DOMAIN log = 1..Len(log) /\ \A k \in 1..Len(log) : log[k] \in Entry
        BY ElemsIndexed DEF IInv, TypeOK
    <2>1. DOMAIN log = 1..Len(log) /\ \A k \in 1..Len(log) : log[k].promise \in Promises
        BY <2>0 DEF Entry
    <2>. QED
        BY <2>1 DEF IInv, CalledOnce, Called, CalledFittingly
<1>. QED
    BY <1>1, Invariance, PTL

\* When a settled promise has nothing on the stack any more, none of its
\* callbacks is left (promise_t::then, fail, finally and emit).
THEOREM NoneLeft == Spec => []NoReactionLost
<1>1. IInv => NoReactionLost
    <2>. SUFFICES ASSUME IInv, NEW p \in Promises, Settled(p), ~Reacting(p)
                  PROVE  clb[p][Outcome(p)] = <<>> /\ clb[p]["FINALLY"] = <<>>
        BY DEF NoReactionLost
    <2>1. value[p] # Nil /\ React(clb, stack, p, Outcome(p))
        BY DEF IInv, Reactions, Settled
    <2>2. Outcome(p) \in Events
        BY <2>1, TypeSplit, SettledProperties DEF IInv, Events
    <2>3. ~\E f \in Elems(stack) : f.promise = p /\ f.does \in Events
        BY DEF Reacting, Elems
    <2>4. ~Used(stack, p, Outcome(p))
        BY <2>2, <2>3, UsedFrame
    <2>. QED
        BY <2>1, <2>3, <2>4 DEF React
<1>. QED
    BY <1>1, Invariance, PTL

\* Whoever settles a promise first decides, whatever closures are called after
\* (promise_t's res and rej).
THEOREM FirstDecides == Spec => SettledOnce
<1>1. IInv /\ [Next]_vars =>
         [\A p \in Promises :
             value[p] # Nil => value'[p] = value[p] /\ state'[p] = state[p]]_vars
    BY PromiseAssumption, TypeSplit, StatesStep DEF IInv, Stays
<1>. QED
    BY <1>1, Invariance, PTL DEF Spec, SettledOnce

-----------------------------------------------------------------------------
(* all() and any().                                                        *)

\* The coroutine counts, in a row, promises that are all resolved, and goes to
\* an answer it has seen the reason of.
Looked ==
    /\ Joined!TypeOK
    /\ pc \in {"start", "poll", "resolve", "reject"} => size > 0
    /\ pc \in {"executor", "start"} => count = 0 /\ index = 1
    /\ Joined!CountsResolved
    /\ kind = "any" => count = 0
    /\ pc = "poll" => count < size
    /\ outcome \in {"resolved", "rejected"} => pc = "done"
    /\ outcome = "resolved" => size > 0
    /\ pc = "resolve" /\ kind = "all" => count = size
    /\ pc = "resolve" /\ kind = "any" => status[index] = "resolved"
    /\ pc = "reject" => \E i \in Joined!Joined : status[i] = "rejected"
    /\ AnswerSound

\* Going round from any place, every promise is one of the last size ones.
LEMMA AllBefore ==
    ASSUME size \in Nat \ {0}, index \in 1..size, NEW i \in 1..size
    PROVE  \E k \in 1..size : Joined!Before(k) = i
<1>1. CASE i < index
    <2>1. index - i \in 1..size /\ Joined!Before(index - i) = i
        BY <1>1 DEF Joined!Before
    <2>. QED
        BY <2>1
<1>2. CASE i >= index
    <2>1. index - i + size \in 1..size /\ Joined!Before(index - i + size) = i
        BY <1>2 DEF Joined!Before
    <2>. QED
        BY <2>1
<1>. QED
    BY <1>1, <1>2

\* After one look ahead, the one looked at is the last one, and the others are
\* one further back.
LEMMA OneFurther ==
    ASSUME size \in Nat \ {0}, index \in 1..size, size' = size,
           index' = Joined!After(index)
    PROVE  /\ index' \in 1..size
           /\ Joined!Before(1)' = index
           /\ \A k \in 1..(size - 1) : Joined!Before(k + 1)' = Joined!Before(k)
           /\ \A k \in 1..size : Joined!Before(k) \in 1..size
    BY DEF Joined!Before, Joined!After

LEMMA LookedStarts == Joined!Init => Looked
    BY MCPromiseAssumption
    DEF Joined!Init, Looked, Joined!TypeOK, Joined!CountsResolved, Joined!Joined,
        Joined!Settled, AnswerSound, Joined!AnswerSound

\* A turn of the coroutine changes how far it has come, within the promises.
LEMMA TurnTyped ==
    ASSUME Joined!TypeOK, UNCHANGED <<kind, size, status, outcome>>,
           pc' \in {"poll", "resolve", "reject"}, count' \in 0..size, index' \in 1..size
    PROVE  Joined!TypeOK'
<1>1. /\ kind' \in {"all", "any"} /\ size' \in 0..MaxSize
      /\ status' \in [1..size' -> {"resolved", "rejected"} \cup {"pending", "off"}]
    BY DEF Joined!TypeOK, Joined!Joined, Joined!Settled
<1>2. outcome' \in {"resolved", "rejected"} \cup {"pending", "off"}
    BY DEF Joined!TypeOK, Joined!Settled
<1>3. count' \in 0..size' /\ index' \in (1..size') \cup {1}
    OBVIOUS
<1>. QED
    BY <1>1, <1>2, <1>3 DEF Joined!TypeOK, Joined!Joined, Joined!Settled

LEMMA LookedStep ==
    ASSUME Looked, [Joined!Next]_(Joined!vars)
    PROVE  Looked'
<1>. USE DEF Joined!Joined, Joined!Settled
<1>0. /\ size \in Nat /\ count \in 0..size /\ index \in (1..size) \cup {1}
      /\ kind \in {"all", "any"}
      /\ status \in [1..size -> {"resolved", "rejected", "pending", "off"}]
      /\ Joined!TypeOK
    BY MCPromiseAssumption DEF Looked, Joined!TypeOK
<1>1. CASE UNCHANGED Joined!vars
    BY <1>1 DEF Joined!vars, Looked, Joined!TypeOK, Joined!CountsResolved, Joined!Before,
                AnswerSound, Joined!AnswerSound
<1>2. ASSUME NEW i \in 1..size, NEW o \in {"off", "resolved", "rejected"}, Joined!Settle(i, o)
      PROVE  Looked'
    <2>1. /\ UNCHANGED <<kind, size, pc, count, index, outcome>>
          /\ status' \in [1..size -> {"resolved", "rejected", "pending", "off"}]
          /\ \A j \in 1..size : status[j] \in {"resolved", "rejected"} => status'[j] = status[j]
        BY <1>0, <1>2 DEF Joined!Settle
    <2>2. Joined!TypeOK'
        BY <1>0, <2>1 DEF Joined!TypeOK
    <2>3. size > 0 => index \in 1..size
        BY <1>0
    <2>4. Joined!CountsResolved'
        <3>. SUFFICES ASSUME kind = "all", pc \in {"poll", "resolve"}, NEW k \in 1..count
                      PROVE  status'[Joined!Before(k)] = "resolved"
            BY <2>1 DEF Joined!CountsResolved, Joined!Before
        <3>1. status[Joined!Before(k)] = "resolved"
            BY DEF Looked, Joined!CountsResolved
        <3>2. Joined!Before(k) \in 1..size
            BY <1>0, <2>3 DEF Joined!Before
        <3>. QED
            BY <2>1, <3>1, <3>2
    <2>5. pc = "resolve" /\ kind = "any" => status'[index] = "resolved"
        BY <2>1, <2>3 DEF Looked
    <2>6. pc = "reject" => \E j \in 1..size : status'[j] = "rejected"
        BY <2>1 DEF Looked
    <2>7. AnswerSound'
        <3>1. (outcome = "resolved" /\ kind = "all") => \A j \in 1..size : status'[j] = "resolved"
            BY <2>1 DEF Looked, AnswerSound, Joined!AnswerSound
        <3>2. (outcome = "resolved" /\ kind = "any") => status'[index] = "resolved"
            <4>. SUFFICES ASSUME outcome = "resolved", kind = "any"
                          PROVE  status'[index] = "resolved"
                OBVIOUS
            <4>1. status[index] = "resolved" /\ size > 0
                BY DEF Looked, AnswerSound, Joined!AnswerSound
            <4>. QED
                BY <2>1, <2>3, <4>1
        <3>3. outcome = "rejected" => size = 0 \/ \E j \in 1..size : status'[j] = "rejected"
            BY <2>1 DEF Looked, AnswerSound, Joined!AnswerSound
        <3>. QED
            BY <2>1, <3>1, <3>2, <3>3 DEF AnswerSound, Joined!AnswerSound
    <2>. QED
        BY <2>1, <2>2, <2>4, <2>5, <2>6, <2>7 DEF Looked
<1>3. CASE Joined!OffResult
    <2>1. UNCHANGED <<kind, size, status, pc, count, index>> /\ outcome' = "off"
        BY <1>3 DEF Joined!OffResult
    <2>. QED
        BY <1>0, <2>1 DEF Looked, Joined!TypeOK, Joined!CountsResolved, Joined!Before,
                          AnswerSound, Joined!AnswerSound
<1>4. CASE Joined!Executor
    <2>1. UNCHANGED <<kind, size, status, count, index>>
        BY <1>4 DEF Joined!Executor, Joined!Finish, Joined!Goto
    <2>2. CASE size = 0 /\ Joined!Finish("rejected")
        BY <1>0, <2>1, <2>2 DEF Joined!Finish, Joined!Answer, Looked, Joined!TypeOK,
              Joined!CountsResolved, AnswerSound, Joined!AnswerSound
    <2>3. CASE size > 0 /\ Joined!Goto("start")
        BY <1>0, <1>4, <2>1, <2>3 DEF Joined!Executor, Joined!Goto, Looked, Joined!TypeOK,
              Joined!CountsResolved, AnswerSound, Joined!AnswerSound
    <2>. QED
        BY <1>4, <2>2, <2>3 DEF Joined!Executor
<1>5. CASE Joined!Start
    <2>1. UNCHANGED <<kind, size, status, count, index, outcome>> /\ pc' = "poll" /\ pc = "start"
        BY <1>5 DEF Joined!Start, Joined!Goto
    <2>2. count = 0 /\ index = 1 /\ size > 0
        BY <2>1 DEF Looked
    <2>. QED
        BY <1>0, <2>1, <2>2 DEF Looked, Joined!TypeOK, Joined!CountsResolved,
              AnswerSound, Joined!AnswerSound
<1>6. CASE Joined!PollAll
    <2>1. /\ pc = "poll" /\ kind = "all" /\ index' = Joined!After(index)
          /\ UNCHANGED <<kind, size, status, outcome>>
          /\ size > 0
        BY <1>6 DEF Joined!PollAll, Joined!Goto, Looked
    <2>2. size \in Nat \ {0} /\ index \in 1..size
        BY <1>0, <2>1
    <2>3. /\ index' \in 1..size
          /\ Joined!Before(1)' = index
          /\ \A k \in 1..(size - 1) : Joined!Before(k + 1)' = Joined!Before(k)
          /\ \A k \in 1..size : Joined!Before(k) \in 1..size
        BY <2>1, <2>2, OneFurther
    <2>4. AnswerSound'
        BY <2>1 DEF Looked, AnswerSound, Joined!AnswerSound
    <2>5. CASE status[index] = "resolved" /\ count' = count + 1
               /\ IF count' >= size THEN pc' = "resolve" ELSE pc' = "poll"
        <3>1. count < size
            BY <2>1 DEF Looked
        <3>2. count' \in 1..size /\ (pc' = "resolve" => count' = size) /\ pc' \in {"poll", "resolve"}
              /\ (pc' = "poll" => count' < size)
            BY <1>0, <2>2, <2>5, <3>1
        <3>3. Joined!CountsResolved'
            <4>. SUFFICES ASSUME NEW k \in 1..count'
                          PROVE  status[Joined!Before(k)'] = "resolved"
                BY <2>1 DEF Joined!CountsResolved
            <4>1. CASE k = 1
                BY <2>3, <2>5, <4>1
            <4>2. CASE k # 1
                <5>1. k - 1 \in 1..count /\ k - 1 \in 1..(size - 1)
                    BY <1>0, <2>5, <3>1, <4>2
                <5>2. status[Joined!Before(k - 1)] = "resolved"
                    BY <2>1, <5>1 DEF Looked, Joined!CountsResolved
                <5>3. Joined!Before((k - 1) + 1)' = Joined!Before(k - 1)
                    BY <2>3, <5>1
                <5>4. (k - 1) + 1 = k
                    OBVIOUS
                <5>. QED
                    BY <5>2, <5>3, <5>4
            <4>. QED
                BY <4>1, <4>2
        <3>4. Joined!TypeOK'
            BY <1>0, <2>1, <2>3, <3>2, TurnTyped
        <3>. QED
            BY <2>1, <2>4, <3>2, <3>3, <3>4 DEF Looked
    <2>6. CASE status[index] = "rejected" /\ pc' = "reject" /\ count' = count
        <3>1. Joined!TypeOK'
            BY <1>0, <2>1, <2>3, <2>6, TurnTyped
        <3>. QED
            BY <2>1, <2>2, <2>4, <2>6, <3>1 DEF Looked, Joined!CountsResolved
    <2>7. CASE pc' = "poll" /\ count' = 0
        <3>1. Joined!TypeOK'
            BY <1>0, <2>1, <2>3, <2>7, TurnTyped
        <3>2. Joined!CountsResolved'
            BY <2>7 DEF Joined!CountsResolved
        <3>. QED
            BY <2>1, <2>2, <2>4, <2>7, <3>1, <3>2 DEF Looked
    <2>. QED
        BY <1>6, <2>5, <2>6, <2>7 DEF Joined!PollAll, Joined!Goto, Joined!Enough, Joined!Miss
<1>7. CASE Joined!PollAny
    <2>1. /\ pc = "poll" /\ kind = "any"
          /\ UNCHANGED <<kind, size, status, outcome, count>>
          /\ size > 0 /\ count = 0
        BY <1>7 DEF Joined!PollAny, Joined!Goto, Looked
    <2>2. size \in Nat \ {0} /\ index \in 1..size
        BY <1>0, <2>1
    <2>3. CASE status[index] = "resolved" /\ pc' = "resolve" /\ index' = index
        BY <1>0, <2>1, <2>2, <2>3 DEF Looked, Joined!TypeOK, Joined!CountsResolved,
              AnswerSound, Joined!AnswerSound
    <2>4. CASE status[index] = "rejected" /\ pc' = "reject" /\ index' = index
        BY <1>0, <2>1, <2>2, <2>4 DEF Looked, Joined!TypeOK, Joined!CountsResolved,
              AnswerSound, Joined!AnswerSound
    <2>5. CASE pc' = "poll" /\ index' = Joined!After(index)
        <3>1. index' \in 1..size
            BY <2>2, <2>5 DEF Joined!After
        <3>2. AnswerSound'
            BY <2>1 DEF Looked, AnswerSound, Joined!AnswerSound
        <3>. QED
            BY <1>0, <2>1, <2>2, <2>5, <3>1, <3>2 DEF Looked, Joined!TypeOK, Joined!CountsResolved
    <2>. QED
        BY <1>7, <2>3, <2>4, <2>5 DEF Joined!PollAny, Joined!Goto, Joined!MoveOn
<1>8. CASE Joined!Resolve
    <2>1. /\ pc = "resolve" /\ pc' = "done" /\ UNCHANGED <<kind, size, status, count, index>>
          /\ outcome' = IF outcome = "pending" THEN "resolved" ELSE outcome
          /\ size > 0
        BY <1>8 DEF Joined!Resolve, Joined!Finish, Joined!Answer, Looked
    <2>2. kind = "all" => \A i \in 1..size : status[i] = "resolved"
        <3>. SUFFICES ASSUME kind = "all", NEW i \in 1..size
                      PROVE  status[i] = "resolved"
            OBVIOUS
        <3>1. PICK k \in 1..size : Joined!Before(k) = i
            BY <1>0, <2>1, AllBefore
        <3>. QED
            BY <2>1, <3>1 DEF Looked, Joined!CountsResolved
    <2>3. kind = "any" => status[index] = "resolved"
        BY <2>1 DEF Looked
    <2>4. AnswerSound'
        BY <2>1, <2>2, <2>3 DEF Looked, AnswerSound, Joined!AnswerSound
    <2>5. Joined!TypeOK'
        BY <1>0, <2>1 DEF Joined!TypeOK
    <2>. QED
        BY <2>1, <2>4, <2>5 DEF Looked, Joined!CountsResolved
<1>9. CASE Joined!Reject
    <2>1. /\ pc = "reject" /\ pc' = "done" /\ UNCHANGED <<kind, size, status, count, index>>
          /\ outcome' = IF outcome = "pending" THEN "rejected" ELSE outcome
        BY <1>9 DEF Joined!Reject, Joined!Finish, Joined!Answer
    <2>2. AnswerSound'
        BY <2>1 DEF Looked, AnswerSound, Joined!AnswerSound
    <2>3. Joined!TypeOK'
        BY <1>0, <2>1 DEF Joined!TypeOK
    <2>. QED
        BY <2>1, <2>2, <2>3 DEF Looked, Joined!CountsResolved
<1>. QED
    BY <1>1, <1>2, <1>3, <1>4, <1>5, <1>6, <1>7, <1>8, <1>9 DEF Joined!Next, Joined!Turn

\* all() answers only what every promise, or a rejected one, says and any()
\* what one says, whatever the program settles between two looks
\* (promise::all and promise::any).
THEOREM AnswersRight == Joined!Spec => []AnswerSound
<1>1. Looked => AnswerSound
    BY DEF Looked
<1>. QED
    BY <1>1, LookedStarts, LookedStep, PTL DEF Joined!Spec
=============================================================================
