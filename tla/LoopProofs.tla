----------------------------- MODULE LoopProofs -----------------------------
(***************************************************************************)
(* Proofs about the schedulers of Loop.tla and Lite.tla, for any tasks,    *)
(* delays, clock steps, horizon and depth of nesting.                      *)
(***************************************************************************)
EXTENDS MCLoop, SequenceTheorems, TLAPS

-----------------------------------------------------------------------------
(* Sequences without duplicates, and the operations of the queue on them.  *)

\* A function on 1..n is a sequence of length n.
LEMMA SeqOfFunction ==
    ASSUME NEW S, NEW n \in Nat, NEW f \in [1..n -> S]
    PROVE  f \in Seq(S) /\ Len(f) = n /\ DOMAIN f = 1..n
<1>1. f \in Seq(S)
    BY SeqDef
<1>2. DOMAIN f = 1..n
    OBVIOUS
<1>3. DOMAIN f = 1..Len(f) /\ Len(f) \in Nat
    BY <1>1, LenProperties
<1>. QED
    BY <1>1, <1>2, <1>3

\* The members of a sequence are of its type.
LEMMA ElemsType ==
    ASSUME NEW S, NEW s \in Seq(S)
    PROVE  /\ Elems(s) \subseteq S
           /\ Len(s) \in Nat /\ DOMAIN s = 1..Len(s)
           /\ (s = <<>> <=> Len(s) = 0)
           /\ (s = <<>> <=> Elems(s) = {})
<1>1. Len(s) \in Nat /\ DOMAIN s = 1..Len(s) /\ s \in [1..Len(s) -> S]
    BY LenProperties
<1>2. s = <<>> <=> Len(s) = 0
    BY EmptySeq
<1>3. Elems(s) \subseteq S
    BY <1>1 DEF Elems
<1>4. Len(s) = 0 => Elems(s) = {}
    BY <1>1 DEF Elems
<1>5. Len(s) # 0 => s[1] \in Elems(s)
    BY <1>1 DEF Elems
<1>. QED
    BY <1>1, <1>2, <1>3, <1>4, <1>5

\* Position finds a member.
LEMMA PositionType ==
    ASSUME NEW S, NEW s \in Seq(S), NEW x \in Elems(s)
    PROVE  /\ Position(s, x) \in 1..Len(s)
           /\ s[Position(s, x)] = x
<1>1. \E i \in DOMAIN s : s[i] = x
    BY DEF Elems
<1>2. Position(s, x) \in DOMAIN s /\ s[Position(s, x)] = x
    BY <1>1 DEF Position
<1>. QED
    BY <1>2, ElemsType

\* Erasing a node leaves the others, in a sequence without duplicates.
LEMMA WithoutProperties ==
    ASSUME NEW S, NEW s \in Seq(S), NEW x \in Elems(s), NoDuplicates(s)
    PROVE  /\ Without(s, x) \in Seq(S)
           /\ Len(Without(s, x)) = Len(s) - 1
           /\ NoDuplicates(Without(s, x))
           /\ Elems(Without(s, x)) = Elems(s) \ {x}
<1>. DEFINE p == Position(s, x)
            n == Len(s) - 1
            w == Without(s, x)
<1>1. Len(s) \in Nat /\ DOMAIN s = 1..Len(s) /\ s \in [1..Len(s) -> S]
    BY LenProperties
<1>2. p \in 1..Len(s) /\ s[p] = x
    BY PositionType
<1>3. n \in Nat
    BY <1>1, <1>2
<1>4. w = [i \in 1..n |-> IF i < p THEN s[i] ELSE s[i + 1]]
    BY DEF Without
<1>5. w \in [1..n -> S]
    BY <1>1, <1>2, <1>3, <1>4
<1>6. w \in Seq(S) /\ Len(w) = n /\ DOMAIN w = 1..n
    BY <1>3, <1>5, SeqOfFunction
<1>7. NoDuplicates(w)
    <2>. SUFFICES ASSUME NEW i \in 1..n, NEW j \in 1..n, w[i] = w[j]
                  PROVE  i = j
        BY <1>6 DEF NoDuplicates
    <2>1. \A a, b \in 1..Len(s) : s[a] = s[b] => a = b
        BY <1>1 DEF NoDuplicates
    <2>. QED
        BY <1>1, <1>2, <1>3, <1>4, <2>1
<1>8. Elems(w) \subseteq Elems(s) \ {x}
    <2>. SUFFICES ASSUME NEW i \in 1..n
                  PROVE  w[i] \in Elems(s) /\ w[i] # x
        BY <1>6 DEF Elems
    <2>1. \A a, b \in 1..Len(s) : s[a] = s[b] => a = b
        BY <1>1 DEF NoDuplicates
    <2>2. w[i] = IF i < p THEN s[i] ELSE s[i + 1]
        BY <1>4
    <2>. QED
        BY <1>1, <1>2, <1>3, <2>1, <2>2 DEF Elems
<1>9. Elems(s) \ {x} \subseteq Elems(w)
    <2>. SUFFICES ASSUME NEW a \in 1..Len(s), s[a] # x
                  PROVE  \E i \in 1..n : w[i] = s[a]
        BY <1>1, <1>6 DEF Elems
    <2>1. CASE a < p
        BY <1>1, <1>2, <1>3, <1>4, <2>1
    <2>2. CASE a > p
        <3>1. a - 1 \in 1..n /\ w[a - 1] = s[a]
            BY <1>1, <1>2, <1>3, <1>4, <2>2
        <3>. QED
            BY <3>1
    <2>. QED
        BY <1>1, <1>2, <2>1, <2>2
<1>. QED
    BY <1>6, <1>7, <1>8, <1>9

\* One step of the cursor towards the back leaves the node it was on.
LEMMA NextOfProperties ==
    ASSUME NEW S, NEW s \in Seq(S), NEW c \in Elems(s), NoDuplicates(s)
    PROVE  NextOf(s, c) \in (Elems(s) \ {c}) \cup {Nil}
<1>1. Len(s) \in Nat /\ DOMAIN s = 1..Len(s)
    BY LenProperties
<1>2. Position(s, c) \in 1..Len(s) /\ s[Position(s, c)] = c
    BY PositionType
<1>3. \A a, b \in 1..Len(s) : s[a] = s[b] => a = b
    BY <1>1 DEF NoDuplicates
<1>4. CASE Len(s) = 1
    BY <1>4 DEF NextOf
<1>5. CASE Len(s) # 1 /\ c # s[Len(s)]
    <2>1. Position(s, c) + 1 \in 1..Len(s)
        BY <1>1, <1>2, <1>5
    <2>2. s[Position(s, c) + 1] # c
        BY <1>1, <1>2, <1>3, <2>1
    <2>3. NextOf(s, c) = s[Position(s, c) + 1]
        BY <1>5 DEF NextOf
    <2>. QED
        BY <1>1, <2>1, <2>2, <2>3 DEF Elems
<1>6. CASE Len(s) # 1 /\ c = s[Len(s)]
    <2>1. 1 \in 1..Len(s) /\ Len(s) \in 1..Len(s)
        BY <1>1, <1>2
    <2>2. s[1] # c
        BY <1>1, <1>3, <1>6, <2>1
    <2>3. NextOf(s, c) = s[1]
        BY <1>6 DEF NextOf
    <2>. QED
        BY <1>1, <2>1, <2>2, <2>3 DEF Elems
<1>. QED
    BY <1>4, <1>5, <1>6

\* One step of the cursor towards the front ends on a node.
LEMMA PrevOfProperties ==
    ASSUME NEW S, NEW s \in Seq(S), s # <<>>, NEW c \in Elems(s) \cup {Nil}
    PROVE  PrevOf(s, c) \in Elems(s)
<1>1. Len(s) \in Nat \ {0} /\ DOMAIN s = 1..Len(s)
    BY LenProperties, EmptySeq
<1>2. CASE c = Nil \/ c = s[1]
    <2>1. PrevOf(s, c) = s[Len(s)]
        BY <1>2 DEF PrevOf
    <2>. QED
        BY <1>1, <2>1 DEF Elems
<1>3. CASE c # Nil /\ c # s[1]
    <2>1. Position(s, c) \in 1..Len(s) /\ s[Position(s, c)] = c
        BY <1>3, PositionType
    <2>2. Position(s, c) - 1 \in 1..Len(s)
        BY <1>1, <1>3, <2>1
    <2>3. PrevOf(s, c) = s[Position(s, c) - 1]
        BY <1>3 DEF PrevOf
    <2>. QED
        BY <1>1, <2>2, <2>3 DEF Elems
<1>. QED
    BY <1>2, <1>3

\* A node put at the front.
LEMMA PushFront ==
    ASSUME NEW S, NEW s \in Seq(S), NEW x \in S, x \notin Elems(s), NoDuplicates(s)
    PROVE  /\ <<x>> \o s \in Seq(S)
           /\ NoDuplicates(<<x>> \o s)
           /\ Elems(<<x>> \o s) = {x} \cup Elems(s)
<1>. DEFINE r == <<x>> \o s
<1>1. Len(s) \in Nat /\ DOMAIN s = 1..Len(s)
    BY LenProperties
<1>2. <<x>> \in Seq(S) /\ Len(<<x>>) = 1 /\ <<x>>[1] = x
    OBVIOUS
<1>3. /\ r \in Seq(S) /\ Len(r) = Len(s) + 1
      /\ \A i \in 1..Len(s) + 1 : r[i] = IF i = 1 THEN x ELSE s[i - 1]
    BY <1>1, <1>2, ConcatProperties
<1>4. DOMAIN r = 1..Len(s) + 1
    BY <1>3, LenProperties
<1>. HIDE DEF r
<1>5. \A i \in 1..Len(s) : s[i] # x
    BY <1>1 DEF Elems
<1>6. NoDuplicates(r)
    <2>. SUFFICES ASSUME NEW i \in 1..Len(s) + 1, NEW j \in 1..Len(s) + 1, r[i] = r[j]
                  PROVE  i = j
        BY <1>4 DEF NoDuplicates
    <2>1. \A a, b \in 1..Len(s) : s[a] = s[b] => a = b
        BY <1>1 DEF NoDuplicates
    <2>. QED
        BY <1>1, <1>3, <1>5, <2>1
<1>7. Elems(r) \subseteq {x} \cup Elems(s)
    <2>. SUFFICES ASSUME NEW i \in 1..Len(s) + 1
                  PROVE  r[i] \in {x} \cup Elems(s)
        BY <1>4 DEF Elems
    <2>1. CASE i = 1
        BY <1>1, <1>3, <2>1
    <2>2. CASE i # 1
        <3>1. r[i] = s[i - 1] /\ i - 1 \in 1..Len(s)
            BY <1>1, <1>3, <2>2
        <3>. QED
            BY <1>1, <3>1 DEF Elems
    <2>. QED
        BY <2>1, <2>2
<1>8. x \in Elems(r)
    BY <1>1, <1>3, <1>4 DEF Elems
<1>9. Elems(s) \subseteq Elems(r)
    <2>. SUFFICES ASSUME NEW i \in 1..Len(s)
                  PROVE  s[i] \in Elems(r)
        BY <1>1 DEF Elems
    <2>1. i + 1 \in 1..Len(s) + 1 /\ r[i + 1] = s[i]
        BY <1>1, <1>3
    <2>. QED
        BY <1>4, <2>1 DEF Elems
<1>10. Elems(r) = {x} \cup Elems(s)
    BY <1>7, <1>8, <1>9
<1>. QED
    BY <1>3, <1>6, <1>10 DEF r

\* A frame pushed on the stack.
LEMMA PushFrame ==
    ASSUME NEW S, NEW s \in Seq(S), NEW x \in S, x \notin Elems(s), NoDuplicates(s)
    PROVE  /\ Append(s, x) \in Seq(S)
           /\ NoDuplicates(Append(s, x))
           /\ Elems(Append(s, x)) = Elems(s) \cup {x}
<1>. DEFINE r == Append(s, x)
<1>1. Len(s) \in Nat /\ DOMAIN s = 1..Len(s)
    BY LenProperties
<1>2. /\ r \in Seq(S) /\ Len(r) = Len(s) + 1
      /\ \A i \in 1..Len(s) : r[i] = s[i]
      /\ r[Len(s) + 1] = x
    BY AppendProperties
<1>3. DOMAIN r = 1..Len(s) + 1
    BY <1>2, LenProperties
<1>. HIDE DEF r
<1>4. \A i \in 1..Len(s) : s[i] # x
    BY <1>1 DEF Elems
<1>5. \A i \in 1..Len(s) + 1 : i \in 1..Len(s) \/ i = Len(s) + 1
    BY <1>1
<1>6. NoDuplicates(r)
    <2>1. \A a, b \in 1..Len(s) : s[a] = s[b] => a = b
        BY <1>1 DEF NoDuplicates
    <2>. QED
        BY <1>2, <1>3, <1>4, <1>5, <2>1 DEF NoDuplicates
<1>7. Elems(r) = Elems(s) \cup {x}
    <2>1. Elems(r) \subseteq Elems(s) \cup {x}
        BY <1>1, <1>2, <1>3, <1>5 DEF Elems
    <2>2. \A i \in 1..Len(s) : i \in 1..Len(s) + 1
        BY <1>1
    <2>3. Elems(s) \subseteq Elems(r)
        BY <1>1, <1>2, <1>3, <2>2 DEF Elems
    <2>4. Len(s) + 1 \in 1..Len(s) + 1
        BY <1>1
    <2>5. x \in Elems(r)
        BY <1>2, <1>3, <2>4 DEF Elems
    <2>. QED
        BY <2>1, <2>3, <2>5
<1>. QED
    BY <1>2, <1>6, <1>7 DEF r

\* An interval and its last element.
LEMMA LastOfInterval ==
    ASSUME NEW m \in Nat, m # 0
    PROVE  /\ m \in 1..m
           /\ \A i \in 1..m : i \in 1..m - 1 \/ i = m
           /\ \A i \in 1..m - 1 : i \in 1..m /\ i # m
OBVIOUS

\* The innermost frame leaves the stack.
LEMMA PopFrame ==
    ASSUME NEW S, NEW s \in Seq(S), s # <<>>, NoDuplicates(s)
    PROVE  LET r == SubSeq(s, 1, Len(s) - 1)
           IN  /\ r \in Seq(S)
               /\ NoDuplicates(r)
               /\ Elems(r) = Elems(s) \ {s[Len(s)]}
               /\ s[Len(s)] \in Elems(s)
<1>. DEFINE r == SubSeq(s, 1, Len(s) - 1)
<1>1. Len(s) \in Nat /\ Len(s) # 0 /\ DOMAIN s = 1..Len(s)
    BY LenProperties, EmptySeq
<1>2. Len(s) - 1 \in Nat /\ \A i \in 1..Len(s) - 1 : s[i] \in S
    BY <1>1, ElementOfSeq
<1>3. /\ r \in Seq(S) /\ Len(r) = Len(s) - 1
      /\ \A i \in 1..Len(s) - 1 : r[i] = s[i]
    BY <1>1, <1>2, SubSeqProperties
<1>4. DOMAIN r = 1..Len(s) - 1
    BY <1>3, LenProperties
<1>. HIDE DEF r
<1>5. \A a, b \in 1..Len(s) : s[a] = s[b] => a = b
    BY <1>1 DEF NoDuplicates
<1>6. NoDuplicates(r)
    BY SMTT(40), <1>1, <1>3, <1>4, <1>5 DEF NoDuplicates
<1>7. \A i \in 1..Len(s) : i \in 1..Len(s) - 1 \/ i = Len(s)
    BY ZenonT(40), <1>1, LastOfInterval
<1>8. /\ Len(s) \in 1..Len(s)
      /\ \A i \in 1..Len(s) - 1 : i \in 1..Len(s) /\ i # Len(s)
    BY <1>1, LastOfInterval
<1>9. Elems(r) = Elems(s) \ {s[Len(s)]}
    <2>1. Elems(r) \subseteq Elems(s) \ {s[Len(s)]}
        BY ZenonT(40), <1>1, <1>3, <1>4, <1>5, <1>8 DEF Elems
    <2>2. Elems(s) \ {s[Len(s)]} \subseteq Elems(r)
        BY <1>1, <1>3, <1>4, <1>7 DEF Elems
    <2>. QED
        BY SMTT(40), <2>1, <2>2
<1>10. s[Len(s)] \in Elems(s)
    BY <1>1 DEF Elems
<1>. QED
    BY <1>3, <1>6, <1>9, <1>10 DEF r

-----------------------------------------------------------------------------
(* The two sequences of the scheduler: what a turn takes from blocked, and *)
(* what a delay adds to it.                                                *)

TasksOf(b)  == {b[i].task : i \in DOMAIN b}
Distinct(b) == \A i, j \in DOMAIN b : b[i].task = b[j].task => i = j
Rest(k)     == SubSeq(blocked, k + 1, Len(blocked))

\* Sleepers that stay.
LEMMA RestProperties ==
    ASSUME blocked \in Seq(SleepRec), NEW k \in 0..Len(blocked)
    PROVE  /\ Rest(k) \in Seq(SleepRec)
           /\ Len(Rest(k)) = Len(blocked) - k
           /\ DOMAIN Rest(k) = 1..Len(blocked) - k
           /\ \A i \in 1..Len(blocked) - k : /\ Rest(k)[i] = blocked[k + i]
                                            /\ k + i \in 1..Len(blocked)
<1>1. Len(blocked) \in Nat /\ k \in Nat /\ k <= Len(blocked)
    BY LenProperties
<1>2. \A i \in k + 1..Len(blocked) : blocked[i] \in SleepRec
    <2>1. \A i \in k + 1..Len(blocked) : i \in 1..Len(blocked)
        BY <1>1
    <2>. QED
        BY <2>1, ElementOfSeq
<1>3. /\ Rest(k) \in Seq(SleepRec)
      /\ Len(Rest(k)) = IF k + 1 <= Len(blocked) THEN Len(blocked) - (k + 1) + 1 ELSE 0
      /\ \A i \in 1..Len(blocked) - (k + 1) + 1 : Rest(k)[i] = blocked[k + 1 + i - 1]
    BY <1>1, <1>2, SubSeqProperties DEF Rest
<1>4. Len(Rest(k)) = Len(blocked) - k
    BY <1>1, <1>3
<1>5. DOMAIN Rest(k) = 1..Len(blocked) - k
    BY <1>3, <1>4, LenProperties
<1>6. \A i \in 1..Len(blocked) - k :
          Rest(k)[i] = blocked[k + i] /\ k + i \in 1..Len(blocked)
    BY <1>1, <1>3
<1>. QED
    BY <1>3, <1>4, <1>5, <1>6

\* The line of a turn, index by index: the woken tasks, last one first, and
\* behind them normal.
LEMMA LineType ==
    ASSUME normal \in Seq(Tasks), blocked \in Seq(SleepRec), NEW k \in 0..Len(blocked)
    PROVE  /\ Line(k) \in Seq(Tasks)
           /\ DOMAIN Line(k) = 1..k + Len(normal)
           /\ \A i \in 1..k : /\ Line(k)[i] = blocked[k + 1 - i].task
                             /\ k + 1 - i \in 1..k /\ k + 1 - i \in 1..Len(blocked)
                             /\ i \in 1..k + Len(normal)
           /\ \A i \in 1..Len(normal) : /\ Line(k)[k + i] = normal[i]
                                       /\ k + i \in 1..k + Len(normal)
           /\ \A i \in 1..k + Len(normal) : i \in 1..k \/ i - k \in 1..Len(normal)
<1>1. /\ Len(blocked) \in Nat /\ k \in Nat /\ k <= Len(blocked)
      /\ Len(normal) \in Nat /\ DOMAIN normal = 1..Len(normal)
    BY LenProperties
<1>2. \A i \in 1..k : k + 1 - i \in 1..k /\ k + 1 - i \in 1..Len(blocked)
    BY <1>1
<1>3. \A i \in 1..Len(blocked) : blocked[i].task \in Tasks
    <2>1. \A i \in 1..Len(blocked) : blocked[i] \in SleepRec
        BY ElementOfSeq
    <2>. QED
        BY <2>1 DEF SleepRec
<1>4. Woken(k) \in [1..k -> Tasks]
    BY <1>2, <1>3 DEF Woken
<1>5. Woken(k) \in Seq(Tasks) /\ Len(Woken(k)) = k
    BY <1>1, <1>4, SeqOfFunction
<1>6. /\ Line(k) \in Seq(Tasks)
      /\ Len(Line(k)) = k + Len(normal)
      /\ \A i \in 1..k + Len(normal) :
            Line(k)[i] = IF i <= k THEN Woken(k)[i] ELSE normal[i - k]
    <2>1. /\ Woken(k) \o normal \in Seq(Tasks)
          /\ Len(Woken(k) \o normal) = Len(Woken(k)) + Len(normal)
          /\ \A i \in 1..Len(Woken(k)) + Len(normal) :
                (Woken(k) \o normal)[i] =
                    IF i <= Len(Woken(k)) THEN Woken(k)[i] ELSE normal[i - Len(Woken(k))]
        BY <1>5, ConcatProperties
    <2>. QED
        BY <1>5, <2>1 DEF Line
<1>7. DOMAIN Line(k) = 1..k + Len(normal)
    BY <1>6, LenProperties
<1>8. \A i \in 1..k : i \in 1..k + Len(normal) /\ i <= k
    BY <1>1
<1>9. \A i \in 1..k : Line(k)[i] = blocked[k + 1 - i].task
    BY <1>6, <1>8 DEF Woken
<1>10. \A i \in 1..Len(normal) :
          Line(k)[k + i] = normal[i] /\ k + i \in 1..k + Len(normal)
    BY <1>1, <1>6
<1>11. \A i \in 1..k + Len(normal) : i \in 1..k \/ i - k \in 1..Len(normal)
    BY <1>1
<1>. QED
    BY <1>2, <1>6, <1>7, <1>8, <1>9, <1>10, <1>11

\* The line holds each task once, with those that stay asleep it holds the
\* live ones, and no task is in both.
LEMMA LineProperties ==
    ASSUME TypeOK, NoTaskLost, NEW k \in 0..Len(blocked)
    PROVE  /\ Line(k) \in Seq(Tasks)
           /\ NoDuplicates(Line(k))
           /\ Elems(normal) \subseteq Elems(Line(k))
           /\ Elems(Line(k)) \cup TasksOf(Rest(k)) = queue
           /\ Elems(Line(k)) \cap TasksOf(Rest(k)) = {}
           /\ Rest(k) \in Seq(SleepRec) /\ Distinct(Rest(k))
           /\ TasksOf(Rest(k)) \subseteq Sleepers
<1>. DEFINE m == Len(normal)
            n == Len(blocked)
<1>1. normal \in Seq(Tasks) /\ blocked \in Seq(SleepRec)
    BY DEF TypeOK
<1>2. /\ n \in Nat /\ DOMAIN blocked = 1..n
      /\ m \in Nat /\ DOMAIN normal = 1..m
      /\ k \in Nat /\ k <= n
    BY <1>1, LenProperties
<1>3. /\ Line(k) \in Seq(Tasks)
      /\ DOMAIN Line(k) = 1..k + m
      /\ \A i \in 1..k : /\ Line(k)[i] = blocked[k + 1 - i].task
                        /\ k + 1 - i \in 1..k /\ k + 1 - i \in 1..n
                        /\ i \in 1..k + m
      /\ \A i \in 1..m : Line(k)[k + i] = normal[i] /\ k + i \in 1..k + m
      /\ \A i \in 1..k + m : i \in 1..k \/ i - k \in 1..m
    BY <1>1, LineType
<1>4. /\ Rest(k) \in Seq(SleepRec)
      /\ DOMAIN Rest(k) = 1..n - k
      /\ \A i \in 1..n - k : Rest(k)[i] = blocked[k + i] /\ k + i \in 1..n
    BY <1>1, RestProperties
<1>5. /\ \A i, j \in 1..m : normal[i] = normal[j] => i = j
      /\ \A i, j \in 1..n : blocked[i].task = blocked[j].task => i = j
      /\ \A i \in 1..m, j \in 1..n : normal[i] # blocked[j].task
    <2>1. \A i \in 1..m : normal[i] \in Elems(normal)
        BY <1>2 DEF Elems
    <2>2. \A j \in 1..n : blocked[j].task \in Sleepers
        BY <1>2 DEF Sleepers
    <2>. QED
        BY <1>2, <2>1, <2>2 DEF NoTaskLost, NoDuplicates
<1>. HIDE DEF m, n
<1>6. NoDuplicates(Line(k))
    <2>. SUFFICES ASSUME NEW i \in 1..k + m, NEW j \in 1..k + m, Line(k)[i] = Line(k)[j]
                  PROVE  i = j
        BY <1>3 DEF NoDuplicates
    <2>0. i \in Int /\ j \in Int
        BY <1>2
    <2>1. CASE i \in 1..k /\ j \in 1..k
        <3>1. k + 1 - i = k + 1 - j
            BY <1>3, <1>5, <2>1
        <3>. QED
            BY <1>2, <2>0, <3>1
    <2>2. CASE i - k \in 1..m /\ j - k \in 1..m
        <3>1. k + (i - k) = i /\ k + (j - k) = j
            BY <1>2, <2>0
        <3>2. normal[i - k] = normal[j - k]
            BY <1>3, <2>2, <3>1
        <3>3. i - k = j - k
            BY <1>5, <2>2, <3>2
        <3>. QED
            BY <1>2, <2>0, <3>3
    <2>3. CASE i \in 1..k /\ j - k \in 1..m
        <3>1. k + (j - k) = j
            BY <1>2, <2>0
        <3>. QED
            BY <1>3, <1>5, <2>3, <3>1
    <2>4. CASE i - k \in 1..m /\ j \in 1..k
        <3>1. k + (i - k) = i
            BY <1>2, <2>0
        <3>. QED
            BY <1>3, <1>5, <2>4, <3>1
    <2>. QED
        BY <1>3, <2>1, <2>2, <2>3, <2>4
<1>7. Elems(normal) \subseteq Elems(Line(k))
    BY <1>2, <1>3 DEF Elems
<1>8. \A x \in Elems(Line(k)) :
          x \in Elems(normal) \/ \E j \in 1..k : x = blocked[j].task
    <2>0. \A x \in Elems(Line(k)) : \E i \in 1..k + m : x = Line(k)[i]
        BY <1>3 DEF Elems
    <2>. SUFFICES ASSUME NEW i \in 1..k + m
                  PROVE  \/ Line(k)[i] \in Elems(normal)
                         \/ \E j \in 1..k : Line(k)[i] = blocked[j].task
        BY <2>0
    <2>1. CASE i \in 1..k
        BY <1>3, <2>1
    <2>2. CASE i - k \in 1..m
        <3>1. k + (i - k) = i
            BY <1>2
        <3>. QED
            BY ZenonT(60), <1>2, <1>3, <2>2, <3>1 DEF Elems
    <2>. QED
        BY <1>3, <2>1, <2>2
<1>9. \A j \in 1..k : blocked[j].task \in Elems(Line(k)) /\ j \in 1..n
    <2>. SUFFICES ASSUME NEW j \in 1..k
                  PROVE  blocked[j].task \in Elems(Line(k)) /\ j \in 1..n
        OBVIOUS
    <2>1. k + 1 - j \in 1..k /\ k + 1 - (k + 1 - j) = j /\ j \in 1..n
        BY <1>2
    <2>2. Line(k)[k + 1 - j] = blocked[j].task /\ k + 1 - j \in 1..k + m
        BY <1>3, <2>1
    <2>. QED
        BY <1>3, <2>1, <2>2 DEF Elems
<1>10. \A x \in TasksOf(Rest(k)) :
          \E j \in 1..n : x = blocked[j].task /\ j \notin 1..k
    <2>. SUFFICES ASSUME NEW i \in 1..n - k
                  PROVE  \E j \in 1..n : Rest(k)[i].task = blocked[j].task /\ j \notin 1..k
        BY <1>4 DEF TasksOf
    <2>1. k + i \notin 1..k
        BY <1>2
    <2>. QED
        BY <1>4, <2>1
<1>11. \A j \in 1..n : j \in 1..k \/ blocked[j].task \in TasksOf(Rest(k))
    <2>. SUFFICES ASSUME NEW j \in 1..n, j \notin 1..k
                  PROVE  blocked[j].task \in TasksOf(Rest(k))
        OBVIOUS
    <2>1. j - k \in 1..n - k /\ k + (j - k) = j
        BY <1>2
    <2>. QED
        BY <1>4, <2>1 DEF TasksOf
<1>12. Elems(Line(k)) \cup TasksOf(Rest(k)) = queue
    <2>1. queue = Elems(normal) \cup {blocked[j].task : j \in 1..n}
        BY <1>2 DEF NoTaskLost, Sleepers
    <2>. QED
        BY <1>7, <1>8, <1>9, <1>10, <1>11, <2>1
<1>13. Elems(Line(k)) \cap TasksOf(Rest(k)) = {}
    <2>. SUFFICES ASSUME NEW x \in Elems(Line(k)), x \in TasksOf(Rest(k))
                  PROVE  FALSE
        OBVIOUS
    <2>1. PICK j \in 1..n : x = blocked[j].task /\ j \notin 1..k
        BY <1>10
    <2>2. x \notin Elems(normal)
        BY <1>2, <1>5, <2>1 DEF Elems
    <2>. QED
        BY <1>5, <1>8, <1>9, <2>1, <2>2
<1>14. Distinct(Rest(k))
    <2>. SUFFICES ASSUME NEW i \in 1..n - k, NEW j \in 1..n - k,
                         Rest(k)[i].task = Rest(k)[j].task
                  PROVE  i = j
        BY <1>4 DEF Distinct
    <2>1. k + i = k + j
        BY <1>4, <1>5
    <2>. QED
        BY <1>2, <2>1
<1>15. TasksOf(Rest(k)) \subseteq Sleepers
    BY <1>2, <1>10 DEF Sleepers
<1>. QED
    BY <1>3, <1>4, <1>6, <1>7, <1>12, <1>13, <1>14, <1>15

\* One sleeper more.
LEMMA InsertedProperties ==
    ASSUME blocked \in Seq(SleepRec), NEW i \in 0..Len(blocked), NEW r \in SleepRec
    PROVE  /\ Inserted(i, r) \in Seq(SleepRec)
           /\ DOMAIN Inserted(i, r) = 1..Len(blocked) + 1
           /\ TasksOf(Inserted(i, r)) = Sleepers \cup {r.task}
           /\ Distinct(blocked) /\ r.task \notin Sleepers => Distinct(Inserted(i, r))
<1>. DEFINE n == Len(blocked)
            b == Inserted(i, r)
<1>1. n \in Nat /\ DOMAIN blocked = 1..n /\ i \in Nat /\ i <= n
    BY LenProperties
<1>2. \A j \in 1..n : blocked[j] \in SleepRec
    BY ElementOfSeq
<1>3. b = [j \in 1..n + 1 |->
              IF j <= i THEN blocked[j] ELSE IF j = i + 1 THEN r ELSE blocked[j - 1]]
    BY DEF Inserted
<1>4. b \in [1..n + 1 -> SleepRec]
    BY <1>1, <1>2, <1>3
<1>5. b \in Seq(SleepRec) /\ DOMAIN b = 1..n + 1
    BY <1>1, <1>4, SeqOfFunction
<1>6. /\ \A j \in 1..n + 1 : j <= i => b[j] = blocked[j] /\ j \in 1..n
      /\ b[i + 1] = r /\ i + 1 \in 1..n + 1
      /\ \A j \in 1..n + 1 : j > i + 1 => b[j] = blocked[j - 1] /\ j - 1 \in 1..n
      /\ \A j \in 1..n : j > i => b[j + 1] = blocked[j] /\ j + 1 \in 1..n + 1
      /\ \A j \in 1..n : j \in 1..n + 1
    BY <1>1, <1>3
<1>. HIDE DEF b, n
<1>7. \A j \in 1..n + 1 : j <= i \/ j = i + 1 \/ j > i + 1
    BY <1>1
<1>8. \A j \in 1..n : j <= i \/ j > i
    BY <1>1
<1>9. TasksOf(b) \subseteq Sleepers \cup {r.task}
    <2>1. \A j \in 1..n + 1 : b[j].task = r.task \/ \E l \in 1..n : b[j].task = blocked[l].task
        BY <1>6, <1>7
    <2>. QED
        BY <1>1, <1>5, <2>1 DEF TasksOf, Sleepers
<1>10. Sleepers \cup {r.task} \subseteq TasksOf(b)
    <2>1. \A j \in 1..n : \E l \in 1..n + 1 : blocked[j].task = b[l].task
        BY <1>6, <1>8
    <2>2. \E l \in 1..n + 1 : r.task = b[l].task
        BY <1>6
    <2>3. \A l \in 1..n + 1 : b[l].task \in TasksOf(b)
        BY <1>5 DEF TasksOf
    <2>4. \A x \in Sleepers : \E j \in 1..n : x = blocked[j].task
        BY <1>1 DEF Sleepers
    <2>. QED
        BY <2>1, <2>2, <2>3, <2>4
<1>11. ASSUME Distinct(blocked), r.task \notin Sleepers
       PROVE  Distinct(b)
    <2>. SUFFICES ASSUME NEW j \in 1..n + 1, NEW l \in 1..n + 1, b[j].task = b[l].task
                  PROVE  j = l
        BY <1>5 DEF Distinct
    <2>1. \A x \in 1..n : blocked[x].task # r.task
        BY <1>1, <1>11 DEF Sleepers
    <2>2. \A x, y \in 1..n : blocked[x].task = blocked[y].task => x = y
        BY <1>1, <1>11 DEF Distinct
    <2>3. j \in Int /\ l \in Int
        BY <1>1
    <2>4. CASE j <= i /\ l <= i
        BY <1>6, <2>2, <2>4
    <2>5. CASE j > i + 1 /\ l > i + 1
        <3>1. j - 1 = l - 1
            BY <1>6, <2>2, <2>5
        <3>. QED
            BY <2>3, <3>1
    <2>6. CASE j <= i /\ l > i + 1
        <3>1. j = l - 1
            BY <1>6, <2>2, <2>6
        <3>. QED
            BY <1>1, <2>3, <2>6, <3>1
    <2>7. CASE j > i + 1 /\ l <= i
        <3>1. j - 1 = l
            BY <1>6, <2>2, <2>7
        <3>. QED
            BY <1>1, <2>3, <2>7, <3>1
    <2>8. CASE j = i + 1 \/ l = i + 1
        BY <1>6, <1>7, <2>1, <2>8
    <2>. QED
        BY <1>7, <2>4, <2>5, <2>6, <2>7, <2>8
<1>. QED
    BY <1>5, <1>9, <1>10, <1>11 DEF b, n

-----------------------------------------------------------------------------
(* The inductive invariant.  None of its parts is inductive alone: what a  *)
(* turn erases is in normal because no task is lost, it is on no frame     *)
(* because running tasks are protected by their flags, and the cursor is   *)
(* good because no task is in normal twice.                                *)

IInv == TypeOK /\ NoTaskLost /\ CursorValid /\ RunningAlive /\ SleepersFree

\* The loop starts empty.
LEMMA InitIInv == Init => IInv
<1>. SUFFICES ASSUME Init PROVE IInv
    OBVIOUS
<1>1. <<>> \in Seq(Tasks) /\ <<>> \in Seq(SleepRec)
    BY EmptySeq
<1>2. TypeOK
    BY <1>1, LoopAssumption DEF Init, TypeOK, FLAGS
<1>3. NoTaskLost
    BY DEF Init, NoTaskLost, NoDuplicates, Elems, Sleepers
<1>4. CursorValid /\ RunningAlive /\ SleepersFree
    BY DEF Init, CursorValid, RunningAlive, SleepersFree, NoDuplicates, Sleepers
<1>. QED
    BY <1>2, <1>3, <1>4 DEF IInv

\* Adding a task.
LEMMA AddIInv ==
    ASSUME IInv, Disciplined, NEW t \in Tasks, Add(t)
    PROVE  IInv'
<1>. USE DEF IInv
<1>1. t \notin Elems(normal) /\ t \notin Sleepers /\ NoDuplicates(normal)
    BY DEF Add, NoTaskLost
<1>2. normal \in Seq(Tasks) /\ normal' = <<t>> \o normal /\ queue' = queue \cup {t}
    BY DEF TypeOK, Add
<1>3. /\ normal' \in Seq(Tasks)
      /\ NoDuplicates(normal')
      /\ Elems(normal') = {t} \cup Elems(normal)
    BY <1>1, <1>2, PushFront
<1>4. UNCHANGED <<act, blocked, stack, left>> /\ Sleepers' = Sleepers /\ Frames' = Frames
    BY DEF Add, Sleepers, Frames
<1>5. flag' = [flag EXCEPT ![t] = {"OPEN"}] /\ flag \in [Tasks -> SUBSET FLAGS]
    BY DEF Add, TypeOK
<1>6. TypeOK'
    BY <1>2, <1>3, <1>4, <1>5 DEF TypeOK, FLAGS
<1>7. NoTaskLost'
    BY <1>1, <1>2, <1>3, <1>4 DEF NoTaskLost
<1>8. CursorValid'
    BY <1>3, <1>4 DEF CursorValid
<1>9. RunningAlive'
    <2>1. t \notin Frames /\ (queue = {} => Frames = {})
        BY DEF Add
    <2>. QED
        BY <1>3, <1>4, <1>5, <2>1 DEF RunningAlive
<1>10. SleepersFree'
    BY <1>1, <1>4, <1>5 DEF SleepersFree
<1>. QED
    BY <1>6, <1>7, <1>8, <1>9, <1>10

\* Frames and sleepers are tasks.
LEMMA KnownTasks ==
    ASSUME TypeOK
    PROVE  Frames \subseteq Tasks /\ Sleepers \subseteq Tasks
<1>1. Frames \subseteq Tasks
    BY ElemsType DEF TypeOK, Frames
<1>2. \A i \in DOMAIN blocked : blocked[i] \in SleepRec
    BY LenProperties, ElementOfSeq DEF TypeOK
<1>. QED
    BY <1>1, <1>2 DEF Sleepers, SleepRec

\* Turning a task off.
LEMMA OffIInv ==
    ASSUME IInv, NEW t \in Tasks, Off(t)
    PROVE  IInv'
<1>. USE DEF IInv
<1>1. UNCHANGED <<queue, normal, act, blocked, stack, left>>
    BY DEF Off
<1>2. flag' = [flag EXCEPT ![t] = {"CLOSED"}] /\ flag \in [Tasks -> SUBSET FLAGS]
    BY DEF Off, TypeOK
<1>3. Elems(normal') = Elems(normal) /\ Sleepers' = Sleepers /\ Frames' = Frames
    BY <1>1 DEF Sleepers, Frames
<1>4. Frames \subseteq Tasks /\ Sleepers \subseteq Tasks
    BY KnownTasks
<1>5. TypeOK'
    BY <1>1, <1>2 DEF TypeOK, FLAGS
<1>6. NoTaskLost' /\ CursorValid'
    BY <1>1, <1>3 DEF NoTaskLost, CursorValid
<1>7. RunningAlive'
    BY <1>1, <1>2, <1>3, <1>4 DEF RunningAlive
<1>8. SleepersFree'
    BY <1>2, <1>3, <1>4 DEF SleepersFree
<1>. QED
    BY <1>5, <1>6, <1>7, <1>8

\* Clearing the loop.
LEMMA ClearIInv ==
    ASSUME IInv, Clear
    PROVE  IInv'
<1>. USE DEF IInv
<1>1. /\ queue' = {} /\ normal' = <<>> /\ blocked' = <<>> /\ act' = Nil
      /\ UNCHANGED <<flag, stack, left>>
    BY DEF Clear
<1>2. <<>> \in Seq(Tasks) /\ <<>> \in Seq(SleepRec)
    BY EmptySeq
<1>3. TypeOK'
    BY <1>1, <1>2 DEF TypeOK
<1>4. NoTaskLost'
    BY <1>1 DEF NoTaskLost, NoDuplicates, Elems, Sleepers
<1>5. CursorValid' /\ RunningAlive' /\ SleepersFree'
    BY <1>1 DEF CursorValid, RunningAlive, SleepersFree, Sleepers
<1>. QED
    BY <1>3, <1>4, <1>5

\* A clamped number is -1 or a natural one.
LEMMA AtLeastMinusOneType ==
    \A n \in Int : AtLeastMinusOne(n) \in Nat \cup {-1} /\ AtLeastMinusOne(n) \in Int
BY DEF AtLeastMinusOne

\* The clock moves: the same sleepers, with other deadlines.
LEMMA TickIInv ==
    ASSUME IInv, NEW e \in Steps, Tick(e)
    PROVE  IInv'
<1>. USE DEF IInv
<1>1. UNCHANGED <<queue, normal, act, flag, stack>> /\ Frames' = Frames
    BY DEF Tick, Frames
<1>2. blocked \in Seq(SleepRec) /\ e \in Int
    BY LoopAssumption DEF TypeOK
<1>3. Len(blocked) \in Nat /\ DOMAIN blocked = 1..Len(blocked)
    BY <1>2, LenProperties
<1>4. \A i \in 1..Len(blocked) : blocked[i] \in SleepRec
    BY <1>2, ElementOfSeq
<1>. DEFINE f == [i \in 1..Len(blocked) |->
                     [blocked[i] EXCEPT !.wake = AtLeastMinusOne(@ - e),
                                        !.owed = AtLeastMinusOne(@ - e)]]
<1>5. blocked' = f
    BY <1>3 DEF Tick
<1>6. \A i \in 1..Len(blocked) : f[i] \in SleepRec /\ f[i].task = blocked[i].task
    <2>. SUFFICES ASSUME NEW i \in 1..Len(blocked)
                  PROVE  f[i] \in SleepRec /\ f[i].task = blocked[i].task
        OBVIOUS
    <2>1. f[i] = [blocked[i] EXCEPT !.wake = AtLeastMinusOne(blocked[i].wake - e),
                                    !.owed = AtLeastMinusOne(blocked[i].owed - e)]
        OBVIOUS
    <2>2. /\ AtLeastMinusOne(blocked[i].wake - e) \in Int
          /\ AtLeastMinusOne(blocked[i].owed - e) \in Int
        <3>1. blocked[i].wake - e \in Int /\ blocked[i].owed - e \in Int
            BY <1>2, <1>4 DEF SleepRec
        <3>. QED
            BY <3>1, AtLeastMinusOneType
    <2>. QED
        BY <1>4, <2>1, <2>2 DEF SleepRec
<1>7. f \in [1..Len(blocked) -> SleepRec]
    BY <1>6
<1>. HIDE DEF f
<1>8. blocked' \in Seq(SleepRec) /\ DOMAIN blocked' = 1..Len(blocked)
    BY <1>3, <1>5, <1>7, SeqOfFunction
<1>9. Sleepers' = Sleepers
    BY <1>3, <1>5, <1>6, <1>8 DEF Sleepers
<1>10. left' \in Nat \cup {-1, Never}
    <2>1. CASE left = Never
        BY <2>1 DEF Tick
    <2>2. CASE left # Never
        <3>1. left \in Int
            BY <2>2 DEF TypeOK
        <3>2. left' = AtLeastMinusOne(left - e)
            BY <2>2 DEF Tick
        <3>3. left - e \in Int
            BY <1>2, <3>1
        <3>. QED
            BY <3>2, <3>3, AtLeastMinusOneType
    <2>. QED
        BY <2>1, <2>2
<1>11. TypeOK'
    BY <1>1, <1>8, <1>10 DEF TypeOK
<1>12. NoTaskLost'
    BY <1>1, <1>3, <1>5, <1>6, <1>8, <1>9 DEF NoTaskLost
<1>13. CursorValid' /\ RunningAlive' /\ SleepersFree'
    BY <1>1, <1>9 DEF CursorValid, RunningAlive, SleepersFree
<1>. QED
    BY <1>11, <1>12, <1>13

-----------------------------------------------------------------------------
(* One turn of the loop.                                                   *)

\* What holds whatever the turn does with the node under the cursor.
LEMMA TurnFacts ==
    ASSUME IInv, NEW k \in 0..Len(blocked), WakeUp(k)
    PROVE  /\ blocked' \in Seq(SleepRec) /\ Distinct(blocked')
           /\ Sleepers' = TasksOf(Rest(k)) /\ Sleepers' \subseteq Sleepers
           /\ Line(k) \in Seq(Tasks) /\ NoDuplicates(Line(k))
           /\ Elems(normal) \subseteq Elems(Line(k)) /\ Elems(Line(k)) \subseteq Tasks
           /\ Elems(Line(k)) \cup TasksOf(Rest(k)) = queue
           /\ Elems(Line(k)) \cap TasksOf(Rest(k)) = {}
           /\ Line(k) # <<>> => Cursor(Line(k)) \in Elems(Line(k))
           /\ Line(k) = <<>> => normal = <<>>
<1>. USE DEF IInv
<1>1. blocked' = Rest(k)
    BY DEF WakeUp, Rest
<1>2. Sleepers' = TasksOf(Rest(k))
    BY <1>1 DEF Sleepers, TasksOf
<1>3. /\ Line(k) \in Seq(Tasks) /\ NoDuplicates(Line(k))
      /\ Elems(normal) \subseteq Elems(Line(k))
      /\ Elems(Line(k)) \cup TasksOf(Rest(k)) = queue
      /\ Elems(Line(k)) \cap TasksOf(Rest(k)) = {}
      /\ Rest(k) \in Seq(SleepRec) /\ Distinct(Rest(k))
      /\ TasksOf(Rest(k)) \subseteq Sleepers
    BY LineProperties
<1>4. ASSUME Line(k) # <<>>
      PROVE  Cursor(Line(k)) \in Elems(Line(k))
    <2>1. CASE act = Nil
        <3>1. 1 \in DOMAIN Line(k)
            BY <1>3, <1>4, ElemsType
        <3>. QED
            BY <2>1, <3>1 DEF Cursor, Elems
    <2>2. CASE act # Nil
        BY <1>3, <2>2 DEF Cursor, CursorValid
    <2>. QED
        BY <2>1, <2>2
<1>5. normal \in Seq(Tasks)
    BY DEF TypeOK
<1>6. Line(k) = <<>> => normal = <<>>
    <2>1. Line(k) = <<>> => Elems(Line(k)) = {}
        BY <1>3, ElemsType
    <2>2. Elems(normal) = {} => normal = <<>>
        BY <1>5, ElemsType
    <2>. QED
        BY <1>3, <2>1, <2>2
<1>7. Elems(Line(k)) \subseteq Tasks
    BY <1>3, ElemsType
<1>. QED
    BY <1>1, <1>2, <1>3, <1>4, <1>6, <1>7

\* A turn that only looks: nothing is ready, or the task is running already.
LEMMA LookIInv ==
    ASSUME IInv, NEW k \in 0..Len(blocked), WakeUp(k), UNCHANGED left,
           NothingReady(k) \/ SkipUsed(k)
    PROVE  IInv'
<1>. USE DEF IInv
<1>1. /\ blocked' \in Seq(SleepRec) /\ Distinct(blocked')
      /\ Sleepers' = TasksOf(Rest(k)) /\ Sleepers' \subseteq Sleepers
      /\ Line(k) \in Seq(Tasks) /\ NoDuplicates(Line(k))
      /\ Elems(normal) \subseteq Elems(Line(k))
      /\ Elems(Line(k)) \cup TasksOf(Rest(k)) = queue
      /\ Elems(Line(k)) \cap TasksOf(Rest(k)) = {}
    BY TurnFacts
<1>2. UNCHANGED <<queue, flag, stack>> /\ Frames' = Frames
    BY DEF NothingReady, SkipUsed, Frames
<1>3. normal' = Line(k)
    BY TurnFacts DEF NothingReady, SkipUsed
<1>4. act' \in Elems(Line(k)) \cup {Nil}
    <2>1. CASE NothingReady(k)
        BY <1>1, <2>1 DEF NothingReady, CursorValid
    <2>2. CASE SkipUsed(k)
        <3>1. Line(k) # <<>> /\ act' = PrevOf(Line(k), Cursor(Line(k)))
            BY <2>2 DEF SkipUsed
        <3>2. Cursor(Line(k)) \in Elems(Line(k))
            BY <3>1, TurnFacts
        <3>. QED
            BY <1>1, <3>1, <3>2, PrevOfProperties
    <2>. QED
        BY <2>1, <2>2
<1>5. act' \in Tasks \cup {Nil}
    BY <1>1, <1>4, ElemsType
<1>6. TypeOK'
    BY <1>1, <1>2, <1>3, <1>5 DEF TypeOK
<1>7. NoTaskLost'
    BY <1>1, <1>2, <1>3 DEF NoTaskLost, Distinct
<1>8. CursorValid'
    BY <1>3, <1>4 DEF CursorValid
<1>9. RunningAlive' /\ SleepersFree'
    BY <1>1, <1>2, <1>3 DEF RunningAlive, SleepersFree
<1>. QED
    BY <1>6, <1>7, <1>8, <1>9

\* A turn that erases a closed task: no frame is on it.
LEMMA ReapIInv ==
    ASSUME IInv, Disciplined, MayEnter, NEW k \in 0..Len(blocked), WakeUp(k),
           UNCHANGED left, ReapClosed(k)
    PROVE  IInv'
<1>. USE DEF IInv
<1>. DEFINE x == Cursor(Line(k))
<1>1. /\ blocked' \in Seq(SleepRec) /\ Distinct(blocked')
      /\ Sleepers' = TasksOf(Rest(k)) /\ Sleepers' \subseteq Sleepers
      /\ Line(k) \in Seq(Tasks) /\ NoDuplicates(Line(k))
      /\ Elems(normal) \subseteq Elems(Line(k)) /\ Elems(Line(k)) \subseteq Tasks
      /\ Elems(Line(k)) \cup TasksOf(Rest(k)) = queue
      /\ Elems(Line(k)) \cap TasksOf(Rest(k)) = {}
    BY TurnFacts
<1>2. /\ Line(k) # <<>> /\ "CLOSED" \in flag[x]
      /\ normal' = Without(Line(k), x)
      /\ act' = NextOf(Line(k), x)
      /\ queue' = queue \ {x}
      /\ UNCHANGED <<flag, stack>> /\ Frames' = Frames
    BY DEF ReapClosed, Frames
<1>3. x \in Elems(Line(k))
    BY <1>2, TurnFacts
<1>. HIDE DEF x
<1>4. /\ normal' \in Seq(Tasks)
      /\ NoDuplicates(normal')
      /\ Elems(normal') = Elems(Line(k)) \ {x}
    BY <1>1, <1>2, <1>3, WithoutProperties
<1>5. act' \in (Elems(Line(k)) \ {x}) \cup {Nil}
    BY <1>1, <1>2, <1>3, NextOfProperties
<1>6. x \notin Frames
    BY <1>2 DEF MayEnter
<1>7. TypeOK'
    BY <1>1, <1>2, <1>4, <1>5 DEF TypeOK
<1>8. NoTaskLost'
    BY <1>1, <1>2, <1>3, <1>4 DEF NoTaskLost, Distinct
<1>9. CursorValid'
    BY <1>4, <1>5 DEF CursorValid
<1>10. RunningAlive'
    BY <1>1, <1>2, <1>4, <1>6 DEF RunningAlive
<1>11. SleepersFree'
    BY <1>1, <1>2 DEF SleepersFree
<1>. QED
    BY <1>7, <1>8, <1>9, <1>10, <1>11

\* A turn that calls a task: it is not running yet.
LEMMA RunIInv ==
    ASSUME IInv, NEW k \in 0..Len(blocked), WakeUp(k), UNCHANGED left, RunTask(k)
    PROVE  IInv'
<1>. USE DEF IInv
<1>. DEFINE x == Cursor(Line(k))
<1>1. /\ blocked' \in Seq(SleepRec) /\ Distinct(blocked')
      /\ Sleepers' = TasksOf(Rest(k)) /\ Sleepers' \subseteq Sleepers
      /\ Line(k) \in Seq(Tasks) /\ NoDuplicates(Line(k))
      /\ Elems(normal) \subseteq Elems(Line(k)) /\ Elems(Line(k)) \subseteq Tasks
      /\ Elems(Line(k)) \cup TasksOf(Rest(k)) = queue
      /\ Elems(Line(k)) \cap TasksOf(Rest(k)) = {}
    BY TurnFacts
<1>2. /\ Line(k) # <<>> /\ flag[x] \cap {"USED", "CLOSED"} = {}
      /\ normal' = Line(k)
      /\ act' = x
      /\ flag' = [flag EXCEPT ![x] = flag[x] \cup {"USED"}]
      /\ stack' = Append(stack, x)
      /\ queue' = queue
    BY DEF RunTask, RunUnless
<1>3. x \in Elems(Line(k))
    BY <1>2, TurnFacts
<1>. HIDE DEF x
<1>4. x \in Tasks /\ flag \in [Tasks -> SUBSET FLAGS] /\ stack \in Seq(Tasks)
    BY <1>1, <1>3 DEF TypeOK
<1>5. x \notin Frames /\ Frames \subseteq Tasks
    BY <1>1, <1>2, <1>3, <1>4, ElemsType DEF RunningAlive, Frames
<1>6. /\ stack' \in Seq(Tasks)
      /\ NoDuplicates(stack')
      /\ Frames' = Frames \cup {x}
    BY <1>2, <1>4, <1>5, PushFrame DEF RunningAlive, Frames
<1>7. flag' \in [Tasks -> SUBSET FLAGS]
    BY <1>2, <1>4 DEF FLAGS
<1>8. TypeOK'
    BY <1>1, <1>2, <1>4, <1>6, <1>7 DEF TypeOK
<1>9. NoTaskLost'
    BY <1>1, <1>2 DEF NoTaskLost, Distinct
<1>10. CursorValid'
    BY <1>2, <1>3 DEF CursorValid
<1>11. RunningAlive'
    BY <1>1, <1>2, <1>3, <1>4, <1>5, <1>6 DEF RunningAlive
<1>12. SleepersFree'
    BY <1>1, <1>2, <1>3, <1>4 DEF SleepersFree
<1>. QED
    BY <1>8, <1>9, <1>10, <1>11, <1>12

\* Every turn.
LEMMA LoopNextIInv ==
    ASSUME IInv, Disciplined, LoopNext
    PROVE  IInv'
<1>1. PICK k \in 0..Len(blocked) :
          /\ WakeUp(k)
          /\ NothingReady(k) \/ SkipUsed(k) \/ ReapClosed(k) \/ RunTask(k)
    BY DEF LoopNext
<1>2. UNCHANGED left /\ MayEnter
    BY DEF LoopNext
<1>3. CASE NothingReady(k) \/ SkipUsed(k)
    BY <1>1, <1>2, <1>3, LookIInv
<1>4. CASE ReapClosed(k)
    BY <1>1, <1>2, <1>4, ReapIInv
<1>5. CASE RunTask(k)
    BY <1>1, <1>2, <1>5, RunIInv
<1>. QED
    BY <1>1, <1>3, <1>4, <1>5

-----------------------------------------------------------------------------
(* A callback returns.                                                     *)

\* The frame that leaves, and what stays of the stack.
LEMMA ReturnFacts ==
    ASSUME IInv, Returning
    PROVE  /\ stack' \in Seq(Tasks) /\ NoDuplicates(stack')
           /\ Frames' = Frames \ {Top}
           /\ Top \in Frames /\ Top \in Tasks
<1>1. stack \in Seq(Tasks) /\ stack # <<>> /\ NoDuplicates(stack)
    BY DEF IInv, TypeOK, RunningAlive, Returning
<1>2. stack' = SubSeq(stack, 1, Len(stack) - 1)
    BY DEF Returning, Popped
<1>3. /\ stack' \in Seq(Tasks)
      /\ NoDuplicates(stack')
      /\ Elems(stack') = Elems(stack) \ {Top}
      /\ Top \in Elems(stack)
    BY <1>1, <1>2, PopFrame DEF Top
<1>4. Elems(stack) \subseteq Tasks
    BY <1>1, ElemsType
<1>. QED
    BY <1>3, <1>4 DEF Frames

\* The loop was cleared meanwhile, or the task blocks: only the frame goes.
LEMMA LeaveIInv ==
    ASSUME IInv, ReturnCleared \/ ReturnBlock
    PROVE  IInv'
<1>. USE DEF IInv
<1>1. UNCHANGED <<queue, normal, act, blocked, flag, left>> /\ Sleepers' = Sleepers
    BY DEF ReturnCleared, ReturnBlock, Sleepers
<1>2. /\ stack' \in Seq(Tasks) /\ NoDuplicates(stack')
      /\ Frames' = Frames \ {Top}
    BY ReturnFacts DEF ReturnCleared, ReturnBlock
<1>3. TypeOK'
    BY <1>1, <1>2 DEF TypeOK
<1>4. NoTaskLost' /\ CursorValid' /\ SleepersFree'
    BY <1>1 DEF NoTaskLost, CursorValid, SleepersFree
<1>5. RunningAlive'
    BY <1>1, <1>2 DEF RunningAlive
<1>. QED
    BY <1>3, <1>4, <1>5

\* The task yields: its flag is released and the cursor moves.
LEMMA ReturnYieldIInv ==
    ASSUME IInv, ReturnYield
    PROVE  IInv'
<1>. USE DEF IInv
<1>1. /\ UNCHANGED <<queue, normal, blocked, left>> /\ Sleepers' = Sleepers
      /\ flag' = [flag EXCEPT ![Top] = flag[Top] \ {"USED"}]
      /\ act' = PrevOf(normal, act)
      /\ normal # <<>>
    BY DEF ReturnYield, Alive, Sleepers
<1>2. /\ stack' \in Seq(Tasks) /\ NoDuplicates(stack')
      /\ Frames' = Frames \ {Top} /\ Top \in Frames /\ Top \in Tasks
    BY ReturnFacts DEF ReturnYield
<1>3. normal \in Seq(Tasks) /\ flag \in [Tasks -> SUBSET FLAGS]
    BY DEF TypeOK
<1>4. act' \in Elems(normal) /\ Elems(normal) \subseteq Tasks
    BY <1>1, <1>3, PrevOfProperties, ElemsType DEF CursorValid
<1>. HIDE DEF Top
<1>5. TypeOK'
    BY <1>1, <1>2, <1>3, <1>4 DEF TypeOK
<1>6. NoTaskLost' /\ CursorValid'
    BY <1>1, <1>4 DEF NoTaskLost, CursorValid
<1>7. Frames \subseteq Tasks /\ Sleepers \subseteq Tasks
    BY KnownTasks
<1>8. RunningAlive'
    BY <1>1, <1>2, <1>3, <1>7 DEF RunningAlive
<1>9. SleepersFree'
    BY <1>1, <1>2, <1>3, <1>7 DEF SleepersFree
<1>. QED
    BY <1>5, <1>6, <1>8, <1>9

\* The task is done: it is closed where it stands.
LEMMA ReturnEndIInv ==
    ASSUME IInv, ReturnEnd
    PROVE  IInv'
<1>. USE DEF IInv
<1>1. /\ UNCHANGED <<queue, normal, act, blocked, left>> /\ Sleepers' = Sleepers
      /\ flag' = [flag EXCEPT ![Top] = {"CLOSED"}]
    BY DEF ReturnEnd, Sleepers
<1>2. /\ stack' \in Seq(Tasks) /\ NoDuplicates(stack')
      /\ Frames' = Frames \ {Top} /\ Top \in Frames /\ Top \in Tasks
    BY ReturnFacts DEF ReturnEnd
<1>3. flag \in [Tasks -> SUBSET FLAGS]
    BY DEF TypeOK
<1>. HIDE DEF Top
<1>4. TypeOK'
    BY <1>1, <1>2, <1>3 DEF TypeOK, FLAGS
<1>5. NoTaskLost' /\ CursorValid'
    BY <1>1 DEF NoTaskLost, CursorValid
<1>6. Frames \subseteq Tasks /\ Sleepers \subseteq Tasks
    BY KnownTasks
<1>7. RunningAlive'
    BY <1>1, <1>2, <1>3, <1>6 DEF RunningAlive
<1>8. SleepersFree'
    BY <1>1, <1>2, <1>3, <1>6 DEF SleepersFree
<1>. QED
    BY <1>4, <1>5, <1>7, <1>8

\* The task sleeps: it moves from normal to blocked.
LEMMA ReturnDelayIInv ==
    ASSUME IInv, NEW d \in Delays, ReturnDelay(d)
    PROVE  IInv'
<1>. USE DEF IInv
<1>1. /\ UNCHANGED <<queue, left>>
      /\ flag' = [flag EXCEPT ![Top] = flag[Top] \ {"USED"}]
      /\ normal' = Without(normal, Top)
      /\ act' = CursorWithout(normal, act, Top)
      /\ normal # <<>> /\ Top \in queue
    BY DEF ReturnDelay, Alive
<1>2. /\ stack' \in Seq(Tasks) /\ NoDuplicates(stack')
      /\ Frames' = Frames \ {Top} /\ Top \in Frames /\ Top \in Tasks
    BY ReturnFacts DEF ReturnDelay
<1>. DEFINE r == [task |-> Top, wake |-> Deadline(d), owed |-> d]
<1>3. PICK i \in 0..Len(blocked) : blocked' = Inserted(i, r)
    BY DEF ReturnDelay, Block
<1>. HIDE DEF Top
<1>4. /\ normal \in Seq(Tasks) /\ flag \in [Tasks -> SUBSET FLAGS]
      /\ blocked \in Seq(SleepRec)
    BY DEF TypeOK
<1>5. d \in Int /\ Deadline(d) \in Int
    BY LoopAssumption DEF Deadline, TypeOK
<1>6. r \in SleepRec /\ r.task = Top
    BY <1>2, <1>5 DEF SleepRec
<1>. HIDE DEF r
<1>7. Top \in Elems(normal) /\ NoDuplicates(normal) /\ Top \notin Sleepers
    BY <1>1, <1>2 DEF RunningAlive, NoTaskLost
<1>8. /\ normal' \in Seq(Tasks)
      /\ NoDuplicates(normal')
      /\ Elems(normal') = Elems(normal) \ {Top}
    BY <1>1, <1>4, <1>7, WithoutProperties
<1>9. Distinct(blocked)
    BY DEF NoTaskLost, Distinct
<1>10. /\ blocked' \in Seq(SleepRec)
       /\ TasksOf(blocked') = Sleepers \cup {Top}
       /\ Distinct(blocked')
    BY <1>3, <1>4, <1>6, <1>7, <1>9, InsertedProperties
<1>11. Sleepers' = Sleepers \cup {Top}
    BY <1>10 DEF Sleepers, TasksOf
<1>12. act' \in Elems(normal') \cup {Nil}
    <2>1. CASE act = Top
        <3>1. act' = NextOf(normal, Top)
            BY <1>1, <2>1 DEF CursorWithout
        <3>. QED
            BY <1>4, <1>7, <1>8, <3>1, NextOfProperties
    <2>2. CASE act # Top
        BY <1>1, <1>8, <2>2 DEF CursorWithout, CursorValid
    <2>. QED
        BY <2>1, <2>2
<1>13. Elems(normal') \subseteq Tasks
    BY <1>8, ElemsType
<1>14. TypeOK'
    BY <1>1, <1>2, <1>4, <1>8, <1>10, <1>12, <1>13 DEF TypeOK
<1>15. NoTaskLost'
    BY <1>1, <1>7, <1>8, <1>10, <1>11 DEF NoTaskLost, Distinct
<1>16. CursorValid'
    BY <1>12 DEF CursorValid
<1>17. Frames \subseteq Tasks /\ Sleepers \subseteq Tasks
    BY KnownTasks
<1>18. RunningAlive'
    BY <1>1, <1>2, <1>4, <1>8, <1>17 DEF RunningAlive
<1>19. SleepersFree'
    BY <1>1, <1>2, <1>4, <1>11, <1>17 DEF SleepersFree
<1>. QED
    BY <1>14, <1>15, <1>16, <1>18, <1>19

-----------------------------------------------------------------------------
\* Every step keeps the invariant.
LEMMA NextIInv ==
    ASSUME IInv, Disciplined, [Next]_vars
    PROVE  IInv'
<1>1. CASE \E t \in Tasks : Add(t) \/ Off(t)
    BY <1>1, AddIInv, OffIInv
<1>2. CASE Clear
    BY <1>2, ClearIInv
<1>3. CASE \E e \in Steps : Tick(e)
    BY <1>3, TickIInv
<1>4. CASE LoopNext
    BY <1>4, LoopNextIInv
<1>5. CASE Return
    BY <1>5, LeaveIInv, ReturnYieldIInv, ReturnEndIInv, ReturnDelayIInv DEF Return
<1>6. CASE UNCHANGED vars
    <2>1. Sleepers' = Sleepers /\ Frames' = Frames
        BY <1>6 DEF vars, Sleepers, Frames
    <2>. QED
        BY <1>6, <2>1 DEF vars, IInv, TypeOK, NoTaskLost, CursorValid, RunningAlive,
                          SleepersFree
<1>. QED
    BY <1>1, <1>2, <1>3, <1>4, <1>5, <1>6 DEF Next

\* For a disciplined program the invariant holds in every reachable state.
THEOREM Invariance == Disciplined => (Spec => []IInv)
<1>. SUFFICES ASSUME Disciplined PROVE Spec => []IInv
    OBVIOUS
<1>1. Init => IInv
    BY InitIInv
<1>2. IInv /\ [Next]_vars => IInv'
    BY NextIInv
<1>. QED
    BY <1>1, <1>2, PTL DEF Spec

\* Every variable keeps its type.
THEOREM TypeCorrect == Disciplined => (Spec => []TypeOK)
<1>1. IInv => TypeOK
    BY DEF IInv
<1>. QED
    BY <1>1, Invariance, PTL

\* No task is lost or queued twice, and no queue holds a freed one.
THEOREM NoneLost == Disciplined => (Spec => []NoTaskLost)
<1>1. IInv => NoTaskLost
    BY DEF IInv
<1>. QED
    BY <1>1, Invariance, PTL

\* The cursor never points to a freed task.
THEOREM CursorSafe == Disciplined => (Spec => []CursorValid)
<1>1. IInv => CursorValid
    BY DEF IInv
<1>. QED
    BY <1>1, Invariance, PTL

\* A task whose callback is running is neither freed nor called again.
THEOREM FramesSafe == Disciplined => (Spec => []RunningAlive)
<1>1. IInv => RunningAlive
    BY DEF IInv
<1>. QED
    BY <1>1, Invariance, PTL

\* A sleeping task is not marked as running.
THEOREM SleepersUnmarked == Disciplined => (Spec => []SleepersFree)
<1>1. IInv => SleepersFree
    BY SMTT(40) DEF IInv
<1>. QED
    BY <1>1, Invariance, PTL

-----------------------------------------------------------------------------
(* Deadlines.                                                              *)

\* A deadline is what the sleeper is owed, or the horizon of the clock.
DeadlineKept ==
    \A i \in DOMAIN blocked : blocked[i].wake = blocked[i].owed \/ blocked[i].wake = left

TInv == IInv /\ BlockedSorted /\ DeadlineKept

\* What one move of the clock does to a sleeper.
LEMMA TickFacts ==
    ASSUME TypeOK, NEW e \in Steps, Tick(e)
    PROVE  /\ DOMAIN blocked' = DOMAIN blocked
           /\ \A i \in DOMAIN blocked :
                 /\ blocked'[i].task = blocked[i].task
                 /\ blocked'[i].wake = AtLeastMinusOne(blocked[i].wake - e)
                 /\ blocked'[i].owed = AtLeastMinusOne(blocked[i].owed - e)
                 /\ blocked[i].wake \in Int /\ blocked[i].owed \in Int
           /\ left' = IF left = Never THEN Never ELSE AtLeastMinusOne(left - e)
<1>1. \A i \in DOMAIN blocked : blocked[i] \in SleepRec
    BY LenProperties, ElementOfSeq DEF TypeOK
<1>2. blocked' = [i \in DOMAIN blocked |->
                     [blocked[i] EXCEPT !.wake = AtLeastMinusOne(blocked[i].wake - e),
                                        !.owed = AtLeastMinusOne(blocked[i].owed - e)]]
    BY DEF Tick
<1>3. ASSUME NEW i \in DOMAIN blocked
      PROVE  /\ blocked'[i].task = blocked[i].task
             /\ blocked'[i].wake = AtLeastMinusOne(blocked[i].wake - e)
             /\ blocked'[i].owed = AtLeastMinusOne(blocked[i].owed - e)
             /\ blocked[i].wake \in Int /\ blocked[i].owed \in Int
    <2>1. blocked[i] \in SleepRec
        BY <1>1
    <2>2. blocked'[i] = [blocked[i] EXCEPT !.wake = AtLeastMinusOne(blocked[i].wake - e),
                                           !.owed = AtLeastMinusOne(blocked[i].owed - e)]
        BY <1>2
    <2>. QED
        BY <2>1, <2>2 DEF SleepRec
<1>4. left' = IF left = Never THEN Never ELSE AtLeastMinusOne(left - e)
    BY DEF Tick
<1>. QED
    BY ZenonT(40), <1>2, <1>3, <1>4

\* What a turn does to the sleepers.
LEMMA WakeFacts ==
    ASSUME TypeOK, NEW k \in 0..Len(blocked), WakeUp(k)
    PROVE  /\ Len(blocked) \in Nat /\ DOMAIN blocked = 1..Len(blocked)
           /\ DOMAIN blocked' = 1..Len(blocked) - k
           /\ \A i \in 1..Len(blocked) - k : /\ blocked'[i] = blocked[k + i]
                                            /\ k + i \in 1..Len(blocked)
<1>1. blocked' = Rest(k) /\ blocked \in Seq(SleepRec)
    BY DEF WakeUp, Rest, TypeOK
<1>. QED
    BY <1>1, RestProperties, LenProperties

\* What a delay does to the sleepers.
LEMMA BlockFacts ==
    ASSUME IInv, NEW d \in Delays, ReturnDelay(d)
    PROVE  /\ Len(blocked) \in Nat /\ DOMAIN blocked = 1..Len(blocked)
           /\ DOMAIN blocked' = 1..Len(blocked) + 1
           /\ Sleepers \subseteq Sleepers'
           /\ Deadline(d) \in Int
           /\ \E i \in 0..Len(blocked) :
                 /\ Nearest(i, Deadline(d))
                 /\ \A j \in 1..Len(blocked) + 1 :
                       \/ j <= i /\ blocked'[j] = blocked[j] /\ j \in 1..Len(blocked)
                       \/ /\ j = i + 1
                          /\ blocked'[j].wake = Deadline(d) /\ blocked'[j].owed = d
                       \/ /\ j > i + 1
                          /\ blocked'[j] = blocked[j - 1] /\ j - 1 \in 1..Len(blocked)
<1>. DEFINE r == [task |-> Top, wake |-> Deadline(d), owed |-> d]
<1>1. PICK i \in 0..Len(blocked) : Nearest(i, Deadline(d)) /\ blocked' = Inserted(i, r)
    BY DEF ReturnDelay, Block
<1>2. blocked \in Seq(SleepRec) /\ Top \in Tasks
    BY ReturnFacts DEF ReturnDelay, IInv, TypeOK
<1>3. d \in Int /\ Deadline(d) \in Int
    BY LoopAssumption DEF Deadline, IInv, TypeOK
<1>. HIDE DEF Top
<1>4. r \in SleepRec /\ r.wake = Deadline(d) /\ r.owed = d
    BY <1>2, <1>3 DEF SleepRec
<1>. HIDE DEF r
<1>5. Len(blocked) \in Nat /\ DOMAIN blocked = 1..Len(blocked)
    BY <1>2, LenProperties
<1>6. /\ DOMAIN blocked' = 1..Len(blocked) + 1
      /\ TasksOf(blocked') = Sleepers \cup {r.task}
    BY <1>1, <1>2, <1>4, InsertedProperties
<1>7. Sleepers \subseteq Sleepers'
    BY <1>6 DEF Sleepers, TasksOf
<1>8. ASSUME NEW j \in 1..Len(blocked) + 1
      PROVE  \/ j <= i /\ blocked'[j] = blocked[j] /\ j \in 1..Len(blocked)
             \/ j = i + 1 /\ blocked'[j] = r
             \/ j > i + 1 /\ blocked'[j] = blocked[j - 1] /\ j - 1 \in 1..Len(blocked)
    <2>1. blocked'[j] = IF j <= i THEN blocked[j] ELSE IF j = i + 1 THEN r ELSE blocked[j - 1]
        BY <1>1 DEF Inserted
    <2>. QED
        BY <1>5, <2>1
<1>. QED
    BY <1>1, <1>3, <1>4, <1>5, <1>6, <1>7, <1>8

\* Clamping keeps the order of numbers.
LEMMA ClampMonotone ==
    \A m, n, e \in Int : m <= n => AtLeastMinusOne(m - e) <= AtLeastMinusOne(n - e)
BY DEF AtLeastMinusOne

\* Every step keeps the sleepers sorted, with the deadlines they asked for.
LEMMA NextTInv ==
    ASSUME TInv, [Next]_vars
    PROVE  BlockedSorted' /\ DeadlineKept'
<1>. USE DEF TInv
<1>1. CASE UNCHANGED <<blocked, left>>
    BY <1>1 DEF BlockedSorted, DeadlineKept
<1>2. CASE Clear
    <2>1. DOMAIN blocked' = {}
        BY <1>2, EmptySeq DEF Clear
    <2>. QED
        BY <2>1 DEF BlockedSorted, DeadlineKept
<1>3. ASSUME NEW e \in Steps, Tick(e)
      PROVE  BlockedSorted' /\ DeadlineKept'
    <2>1. /\ DOMAIN blocked' = DOMAIN blocked
          /\ \A i \in DOMAIN blocked :
                /\ blocked'[i].wake = AtLeastMinusOne(blocked[i].wake - e)
                /\ blocked'[i].owed = AtLeastMinusOne(blocked[i].owed - e)
                /\ blocked[i].wake \in Int /\ blocked[i].owed \in Int
          /\ left' = IF left = Never THEN Never ELSE AtLeastMinusOne(left - e)
        BY <1>3, TickFacts DEF IInv
    <2>2. e \in Int
        BY LoopAssumption
    <2>3. BlockedSorted'
        BY <2>1, <2>2, ClampMonotone DEF BlockedSorted
    <2>4. \A i \in DOMAIN blocked : left = Never => blocked[i].wake # left
        BY <2>1, LoopAssumption
    <2>5. DeadlineKept'
        BY <2>1, <2>4 DEF DeadlineKept
    <2>. QED
        BY <2>3, <2>5
<1>4. CASE LoopNext
    <2>1. PICK k \in 0..Len(blocked) : WakeUp(k)
        BY <1>4 DEF LoopNext
    <2>2. /\ Len(blocked) \in Nat /\ DOMAIN blocked = 1..Len(blocked)
          /\ DOMAIN blocked' = 1..Len(blocked) - k
          /\ \A i \in 1..Len(blocked) - k : /\ blocked'[i] = blocked[k + i]
                                           /\ k + i \in 1..Len(blocked)
        BY <2>1, WakeFacts DEF IInv
    <2>3. left' = left
        BY <1>4 DEF LoopNext
    <2>4. \A i, j \in 1..Len(blocked) - k : i <= j => k + i <= k + j
        BY <2>2
    <2>. QED
        BY <2>2, <2>3, <2>4 DEF BlockedSorted, DeadlineKept
<1>5. ASSUME NEW d \in Delays, ReturnDelay(d)
      PROVE  BlockedSorted' /\ DeadlineKept'
    <2>. DEFINE n == Len(blocked)
                w == Deadline(d)
    <2>1. /\ n \in Nat /\ DOMAIN blocked = 1..n
          /\ DOMAIN blocked' = 1..n + 1
          /\ w \in Int
        BY <1>5, BlockFacts
    <2>2. PICK i \in 0..n :
             /\ Nearest(i, w)
             /\ \A j \in 1..n + 1 :
                   \/ j <= i /\ blocked'[j] = blocked[j] /\ j \in 1..n
                   \/ j = i + 1 /\ blocked'[j].wake = w /\ blocked'[j].owed = d
                   \/ j > i + 1 /\ blocked'[j] = blocked[j - 1] /\ j - 1 \in 1..n
        BY <1>5, BlockFacts
    <2>3. left' = left /\ (w = d \/ w = left)
        BY <1>5 DEF ReturnDelay, Deadline
    <2>4. \A j \in 1..n : blocked[j].wake \in Int
        <3>1. \A j \in 1..n : blocked[j] \in SleepRec
            BY ElementOfSeq DEF IInv, TypeOK
        <3>. QED
            BY <3>1 DEF SleepRec
    <2>5. /\ \A j \in 1..n : j <= i => blocked[j].wake <= w
          /\ \A j \in 1..n : j > i => w <= blocked[j].wake
        <3>1. \A j \in 1..n : j > i => j \in i + 1..Len(blocked)
            BY <2>1
        <3>2. \A j \in 1..n : j > i => w <= blocked[j].wake
            BY <2>1, <2>2, <2>4, <3>1 DEF Nearest
        <3>3. \A j \in 1..n : j <= i => i \in 1..n /\ i > 0
            BY <2>1
        <3>4. \A j \in 1..n : j <= i => blocked[j].wake <= w
            BY <2>1, <2>2, <2>4, <3>3 DEF Nearest, BlockedSorted
        <3>. QED
            BY <3>2, <3>4
    <2>. HIDE DEF n, w
    <2>6. \A a, b \in 1..n : a <= b => blocked[a].wake <= blocked[b].wake
        BY <2>1 DEF BlockedSorted
    <2>7. ASSUME NEW a \in 1..n + 1, NEW b \in 1..n + 1, a <= b
          PROVE  blocked'[a].wake <= blocked'[b].wake
        <3>0. a \in Int /\ b \in Int /\ i \in Int
            BY <2>1
        <3>1. CASE a <= i
            <4>1. blocked'[a] = blocked[a] /\ a \in 1..n
                BY <2>2, <3>0, <3>1
            <4>2. CASE b <= i
                BY <2>2, <2>6, <2>7, <3>0, <4>1, <4>2
            <4>3. CASE b = i + 1
                BY <2>2, <2>5, <3>0, <3>1, <4>1, <4>3
            <4>4. CASE b > i + 1
                <5>1. blocked'[b] = blocked[b - 1] /\ b - 1 \in 1..n /\ a <= b - 1
                    BY <2>2, <3>0, <3>1, <4>4
                <5>. QED
                    BY <2>6, <4>1, <5>1
            <4>. QED
                BY <3>0, <4>2, <4>3, <4>4
        <3>2. CASE a = i + 1
            <4>1. blocked'[a].wake = w
                BY <2>2, <3>0, <3>2
            <4>2. CASE b = a
                BY <2>1, <4>1, <4>2
            <4>3. CASE b > a
                <5>1. blocked'[b] = blocked[b - 1] /\ b - 1 \in 1..n /\ b - 1 > i
                    BY <2>2, <3>0, <3>2, <4>3
                <5>. QED
                    BY <2>5, <4>1, <5>1
            <4>. QED
                BY <2>7, <3>0, <4>2, <4>3
        <3>3. CASE a > i + 1
            <4>1. blocked'[a] = blocked[a - 1] /\ a - 1 \in 1..n
                BY <2>2, <3>0, <3>3
            <4>2. b > i + 1
                BY <2>7, <3>0, <3>3
            <4>3. blocked'[b] = blocked[b - 1] /\ b - 1 \in 1..n /\ a - 1 <= b - 1
                BY <2>2, <2>7, <3>0, <4>2
            <4>. QED
                BY <2>6, <4>1, <4>3
        <3>. QED
            BY <3>0, <3>1, <3>2, <3>3
    <2>8. BlockedSorted'
        BY <2>1, <2>7 DEF BlockedSorted
    <2>9. DeadlineKept'
        BY <2>1, <2>2, <2>3 DEF DeadlineKept
    <2>. QED
        BY <2>8, <2>9
<1>6. CASE \E t \in Tasks : Add(t) \/ Off(t)
    BY <1>1, <1>6 DEF Add, Off
<1>7. CASE Return
    <2>1. CASE ReturnCleared \/ ReturnYield \/ ReturnEnd \/ ReturnBlock
        BY <1>1, <2>1 DEF ReturnCleared, ReturnYield, ReturnEnd, ReturnBlock
    <2>. QED
        BY <1>5, <1>7, <2>1 DEF Return
<1>. QED
    BY <1>1, <1>2, <1>3, <1>4, <1>6, <1>7 DEF Next, vars

\* In every reachable state the sleepers are sorted and hold the deadlines they
\* asked for.
THEOREM Deadlines == Disciplined => (Spec => []TInv)
<1>. SUFFICES ASSUME Disciplined PROVE Spec => []TInv
    OBVIOUS
<1>1. Init => TInv
    <2>. SUFFICES ASSUME Init PROVE TInv
        OBVIOUS
    <2>1. DOMAIN blocked = {}
        BY EmptySeq DEF Init
    <2>. QED
        BY <2>1, InitIInv DEF TInv, BlockedSorted, DeadlineKept
<1>2. TInv /\ [Next]_vars => TInv'
    BY NextIInv, NextTInv DEF TInv
<1>. QED
    BY <1>1, <1>2, PTL DEF Spec

\* The front of blocked is always the next one due.
THEOREM SortedSleepers == Disciplined => (Spec => []BlockedSorted)
<1>1. TInv => BlockedSorted
    BY DEF TInv
<1>. QED
    BY <1>1, Deadlines, PTL

\* What becomes of one sleeper in one step.
SleptLongEnough(i) ==
    \/ \E j \in DOMAIN blocked' : blocked'[j].task = blocked[i].task
    \/ queue' = {}
    \/ blocked[i].owed < 0
    \/ left = -1

LEMMA NoStepWakesEarly ==
    ASSUME TInv, [Next]_vars, NEW i \in DOMAIN blocked
    PROVE  SleptLongEnough(i)
<1>. USE DEF TInv, SleptLongEnough
<1>1. CASE UNCHANGED blocked
    BY <1>1
<1>2. CASE Clear
    BY <1>2 DEF Clear
<1>3. ASSUME NEW e \in Steps, Tick(e)
      PROVE  SleptLongEnough(i)
    <2>1. DOMAIN blocked' = DOMAIN blocked /\ blocked'[i].task = blocked[i].task
        BY <1>3, TickFacts DEF IInv
    <2>. QED
        BY <2>1
<1>4. CASE LoopNext
    <2>1. PICK k \in 0..Len(blocked) : WakeUp(k) /\ FirstExpired(k)
        BY <1>4 DEF LoopNext
    <2>2. /\ Len(blocked) \in Nat /\ DOMAIN blocked = 1..Len(blocked)
          /\ DOMAIN blocked' = 1..Len(blocked) - k
          /\ \A m \in 1..Len(blocked) - k : /\ blocked'[m] = blocked[k + m]
                                           /\ k + m \in 1..Len(blocked)
        BY <2>1, WakeFacts DEF IInv
    <2>3. CASE i <= k
        <3>1. i \in 1..k
            BY <2>2, <2>3
        <3>2. blocked[i].wake < 0
            BY <2>1, <3>1 DEF FirstExpired
        <3>3. blocked[i].wake = blocked[i].owed \/ blocked[i].wake = left
            BY DEF DeadlineKept
        <3>4. left \in Nat \cup {-1, Never} /\ blocked[i].wake \in Int
            <4>1. blocked[i] \in SleepRec
                BY <2>2, ElementOfSeq DEF IInv, TypeOK
            <4>. QED
                BY <4>1 DEF SleepRec, IInv, TypeOK
        <3>. QED
            BY <3>2, <3>3, <3>4, LoopAssumption
    <2>4. CASE i > k
        <3>1. i - k \in 1..Len(blocked) - k /\ k + (i - k) = i
            BY <2>2, <2>4
        <3>2. i - k \in DOMAIN blocked' /\ blocked'[i - k] = blocked[i]
            BY <2>2, <3>1
        <3>. QED
            BY <3>2
    <2>. QED
        BY <2>2, <2>3, <2>4
<1>5. ASSUME NEW d \in Delays, ReturnDelay(d)
      PROVE  SleptLongEnough(i)
    <2>1. blocked[i].task \in Sleepers'
        BY <1>5, BlockFacts DEF IInv, Sleepers
    <2>. QED
        BY <2>1 DEF Sleepers
<1>6. CASE \E t \in Tasks : Add(t) \/ Off(t)
    BY <1>1, <1>6 DEF Add, Off
<1>7. CASE Return
    <2>1. CASE ReturnCleared \/ ReturnYield \/ ReturnEnd \/ ReturnBlock
        BY <1>1, <2>1 DEF ReturnCleared, ReturnYield, ReturnEnd, ReturnBlock
    <2>. QED
        BY <1>5, <1>7, <2>1 DEF Return
<1>. QED
    BY <1>1, <1>2, <1>3, <1>4, <1>6, <1>7 DEF Next, vars

\* No sleeper is woken before the delay it asked for has passed.
THEOREM NoEarly == Disciplined => (Spec => NoEarlyWake)
<1>. SUFFICES ASSUME Disciplined PROVE Spec => NoEarlyWake
    OBVIOUS
<1>1. TInv /\ [Next]_vars =>
        [\A i \in DOMAIN blocked :
            \/ \E j \in DOMAIN blocked' : blocked'[j].task = blocked[i].task
            \/ queue' = {}
            \/ blocked[i].owed < 0
            \/ left = -1]_vars
    BY NoStepWakesEarly DEF SleptLongEnough
<1>. QED
    BY <1>1, Deadlines, PTL DEF Spec, NoEarlyWake

-----------------------------------------------------------------------------
(* The scheduler implements the pool: ready are the tasks in normal, asleep *)
(* those in blocked, held those marked USED, shut those CLOSED.             *)

Ready  == Elems(normal)
Held   == {t \in Tasks : "USED" \in flag[t]}
Closed == {t \in Tasks : "CLOSED" \in flag[t]}

\* Turns a step of the five abstract variables into one of the pool.
LEMMA InPoolTerms ==
    /\ Pool!InPool = Ready \cup Sleepers
    /\ Pool!Running = Frames
    /\ Pool!Top = Top
    /\ Pool!Leave <=> Returning
BY DEF Pool!InPool, Pool!Running, Pool!Top, Pool!Leave, Ready, Frames, Elems, Top, Returning,
       Popped

\* A task that is added enters the pool.
LEMMA AddEnters ==
    ASSUME IInv, NEW t \in Tasks, Add(t)
    PROVE  Pool!Enter(t)
<1>. USE DEF IInv
<1>1. t \notin queue /\ t \notin Frames /\ Ready \cup Sleepers = queue
    BY DEF Add, NoTaskLost, Ready
<1>2. normal \in Seq(Tasks) /\ NoDuplicates(normal) /\ flag \in [Tasks -> SUBSET FLAGS]
    BY DEF TypeOK, NoTaskLost
<1>3. normal' = <<t>> \o normal /\ flag' = [flag EXCEPT ![t] = {"OPEN"}]
    BY DEF Add
<1>4. Ready' = Ready \cup {t}
    BY <1>1, <1>2, <1>3, PushFront DEF Ready
<1>5. Held' = Held \ {t} /\ Closed' = Closed \ {t}
    BY <1>2, <1>3 DEF Held, Closed
<1>6. Sleepers' = Sleepers /\ stack' = stack
    BY DEF Add, Sleepers
<1>. QED
    BY <1>1, <1>4, <1>5, <1>6, InPoolTerms DEF Pool!Enter, Ready, Held, Closed

\* A task that is turned off is shut.
LEMMA OffShuts ==
    ASSUME IInv, NEW t \in Tasks, Off(t)
    PROVE  Pool!Shut(t)
<1>1. flag \in [Tasks -> SUBSET FLAGS] /\ flag' = [flag EXCEPT ![t] = {"CLOSED"}]
    BY DEF IInv, TypeOK, Off
<1>2. Held' = Held \ {t} /\ Closed' = Closed \cup {t}
    BY <1>1 DEF Held, Closed
<1>3. Ready' = Ready /\ Sleepers' = Sleepers /\ stack' = stack
    BY DEF Off, Ready, Sleepers
<1>. QED
    BY <1>2, <1>3 DEF Pool!Shut, Ready, Held, Closed

\* A loop that is cleared is an empty pool.
LEMMA ClearEmpties ==
    ASSUME Clear
    PROVE  Pool!Empty
<1>1. Ready' = {} /\ Sleepers' = {}
    BY DEF Clear, Ready, Sleepers, Elems
<1>2. Held' = Held /\ Closed' = Closed /\ stack' = stack
    BY DEF Clear, Held, Closed
<1>. QED
    BY <1>1, <1>2 DEF Pool!Empty, Ready, Held, Closed

\* The pool does not see the clock.
LEMMA TickStutters ==
    ASSUME IInv, NEW e \in Steps, Tick(e)
    PROVE  UNCHANGED Pool!poolVars
<1>1. /\ DOMAIN blocked' = DOMAIN blocked
      /\ \A i \in DOMAIN blocked : blocked'[i].task = blocked[i].task
    BY TickFacts DEF IInv
<1>2. Sleepers' = Sleepers
    BY <1>1 DEF Sleepers
<1>3. UNCHANGED <<normal, flag, stack>>
    BY DEF Tick
<1>. QED
    BY <1>2, <1>3 DEF Pool!poolVars

\* The sleepers that a turn wakes.
WokenBy(k) == Sleepers \ TasksOf(Rest(k))

\* A turn moves them from the sleepers to the line.
LEMMA Wakened ==
    ASSUME IInv, NEW k \in 0..Len(blocked), WakeUp(k)
    PROVE  /\ WokenBy(k) \in SUBSET Sleepers
           /\ Elems(Line(k)) = Ready \cup WokenBy(k)
           /\ Sleepers' = Sleepers \ WokenBy(k)
<1>1. /\ Sleepers' = TasksOf(Rest(k)) /\ Sleepers' \subseteq Sleepers
      /\ Elems(normal) \subseteq Elems(Line(k))
      /\ Elems(Line(k)) \cup TasksOf(Rest(k)) = queue
      /\ Elems(Line(k)) \cap TasksOf(Rest(k)) = {}
    BY TurnFacts
<1>2. Elems(normal) \cup Sleepers = queue
    BY DEF IInv, NoTaskLost
<1>. QED
    BY <1>1, <1>2 DEF WokenBy, Ready

\* A turn passes, or starts or reaps one task of the pool.
LEMMA TurnIsOne ==
    ASSUME IInv, Disciplined, LoopNext
    PROVE  \E W \in SUBSET Sleepers :
              \/ Pool!Pass(W)
              \/ \E t \in Tasks : Pool!Start(W, t) \/ Pool!Reap(W, t)
<1>1. PICK k \in 0..Len(blocked) :
          /\ WakeUp(k)
          /\ NothingReady(k) \/ SkipUsed(k) \/ ReapClosed(k) \/ RunTask(k)
    BY DEF LoopNext
<1>0. PICK W, x : W = WokenBy(k) /\ x = Cursor(Line(k))
    OBVIOUS
<1>2. W \in SUBSET Sleepers /\ Elems(Line(k)) = Ready \cup W /\ Sleepers' = Sleepers \ W
    BY <1>0, <1>1, Wakened
<1>3. /\ Line(k) # <<>> => x \in Elems(Line(k))
      /\ Line(k) = <<>> => normal = <<>>
      /\ Line(k) \in Seq(Tasks) /\ NoDuplicates(Line(k)) /\ Elems(Line(k)) \subseteq Tasks
    BY <1>0, <1>1, TurnFacts
<1>4. flag \in [Tasks -> SUBSET FLAGS]
    BY DEF IInv, TypeOK
<1>5. CASE NothingReady(k) \/ SkipUsed(k)
    <2>1. normal' = Line(k) /\ UNCHANGED <<flag, stack>>
        BY <1>3, <1>5 DEF NothingReady, SkipUsed
    <2>2. Ready' = Ready \cup W /\ Held' = Held /\ Closed' = Closed
        BY <1>2, <2>1 DEF Ready, Held, Closed
    <2>3. Pool!Pass(W)
        BY <1>2, <2>1, <2>2 DEF Pool!Pass, Ready, Held, Closed
    <2>. QED
        BY <1>2, <2>3
<1>6. CASE ReapClosed(k)
    <2>1. /\ Line(k) # <<>> /\ "USED" \notin flag[x] /\ "CLOSED" \in flag[x]
          /\ normal' = Without(Line(k), x) /\ UNCHANGED <<flag, stack>>
        BY <1>0, <1>6 DEF ReapClosed
    <2>2. x \in Ready \cup W /\ x \in Tasks
        BY <1>2, <1>3, <2>1
    <2>3. Ready' = (Ready \cup W) \ {x}
        BY <1>2, <1>3, <2>1, WithoutProperties DEF Ready
    <2>4. Held' = Held /\ Closed' = Closed /\ x \notin Held /\ x \in Closed
        BY <2>1, <2>2 DEF Held, Closed
    <2>5. x \notin Frames
        BY <2>1 DEF LoopNext, MayEnter
    <2>6. Pool!Reap(W, x)
        BY <1>2, <2>1, <2>2, <2>3, <2>4, <2>5, InPoolTerms
           DEF Pool!Reap, Ready, Held, Closed
    <2>7. \E t \in Tasks : Pool!Start(W, t) \/ Pool!Reap(W, t)
        BY <2>2, <2>6
    <2>. QED
        BY <1>2, <2>7
<1>7. CASE RunTask(k)
    <2>1. /\ Line(k) # <<>> /\ flag[x] \cap {"USED", "CLOSED"} = {}
          /\ normal' = Line(k) /\ stack' = Append(stack, x)
          /\ flag' = [flag EXCEPT ![x] = flag[x] \cup {"USED"}]
        BY <1>0, <1>7 DEF RunTask, RunUnless
    <2>2. x \in Ready \cup W /\ x \in Tasks
        BY <1>2, <1>3, <2>1
    <2>3. Ready' = Ready \cup W
        BY <1>2, <2>1 DEF Ready
    <2>4. /\ Held' = Held \cup {x} /\ Closed' = Closed
          /\ x \notin Held \cup Closed
        BY <1>4, <2>1, <2>2 DEF Held, Closed
    <2>5. Pool!Start(W, x)
        BY <1>2, <2>1, <2>2, <2>3, <2>4 DEF Pool!Start, Ready, Held, Closed
    <2>6. \E t \in Tasks : Pool!Start(W, t) \/ Pool!Reap(W, t)
        BY <2>2, <2>5
    <2>. QED
        BY <1>2, <2>6
<1>. QED
    BY <1>1, <1>5, <1>6, <1>7

\* A callback that returns gives its task back in one of the four ways.
LEMMA ReturnGivesBack ==
    ASSUME IInv, Return
    PROVE  Pool!Yield \/ Pool!Finish \/ Pool!Sleep \/ Pool!Hold
<1>. USE DEF IInv
<1>1. Returning
    BY DEF Return, ReturnCleared, ReturnYield, ReturnEnd, ReturnBlock, ReturnDelay
<1>2. Top \in Tasks /\ Top \in Frames /\ Pool!Leave /\ Pool!Top = Top
    BY <1>1, ReturnFacts, InPoolTerms
<1>3. flag \in [Tasks -> SUBSET FLAGS]
    BY DEF TypeOK
<1>4. CASE ReturnCleared \/ ReturnBlock
    <2>1. Ready' = Ready /\ Sleepers' = Sleepers /\ Held' = Held /\ Closed' = Closed
        BY <1>4 DEF ReturnCleared, ReturnBlock, Ready, Sleepers, Held, Closed
    <2>. QED
        BY <1>2, <2>1 DEF Pool!Hold, Ready, Held, Closed
<1>5. CASE ReturnYield
    <2>1. flag' = [flag EXCEPT ![Top] = flag[Top] \ {"USED"}] /\ UNCHANGED <<normal, blocked>>
        BY <1>5 DEF ReturnYield
    <2>. HIDE DEF Top
    <2>2. /\ Ready' = Ready /\ Sleepers' = Sleepers
          /\ Held' = Held \ {Top} /\ Closed' = Closed
        BY <1>2, <1>3, <2>1 DEF Ready, Sleepers, Held, Closed
    <2>. QED
        BY <1>2, <2>2 DEF Pool!Yield, Ready, Held, Closed
<1>6. CASE ReturnEnd
    <2>1. flag' = [flag EXCEPT ![Top] = {"CLOSED"}] /\ UNCHANGED <<normal, blocked>>
        BY <1>6 DEF ReturnEnd
    <2>2. /\ Ready' = Ready /\ Sleepers' = Sleepers
          /\ Held' = Held \ {Top} /\ Closed' = Closed \cup {Top}
        BY <1>2, <1>3, <2>1 DEF Ready, Sleepers, Held, Closed
    <2>. QED
        BY <1>2, <2>2 DEF Pool!Finish, Ready, Held, Closed
<1>7. ASSUME NEW d \in Delays, ReturnDelay(d)
      PROVE  Pool!Sleep
    <2>1. /\ flag' = [flag EXCEPT ![Top] = flag[Top] \ {"USED"}]
          /\ normal' = Without(normal, Top)
          /\ normal # <<>> /\ Top \in queue
        BY <1>7 DEF ReturnDelay, Alive
    <2>. DEFINE r == [task |-> Top, wake |-> Deadline(d), owed |-> d]
    <2>2. PICK i \in 0..Len(blocked) : blocked' = Inserted(i, r)
        BY <1>7 DEF ReturnDelay, Block
    <2>3. /\ normal \in Seq(Tasks) /\ blocked \in Seq(SleepRec)
          /\ d \in Int /\ Deadline(d) \in Int
        BY LoopAssumption DEF Deadline, TypeOK
    <2>4. r \in SleepRec /\ r.task = Top
        BY <1>2, <2>3 DEF SleepRec
    <2>5. Top \in Ready /\ NoDuplicates(normal)
        BY <1>2, <2>1 DEF RunningAlive, NoTaskLost, Ready
    <2>. HIDE DEF r, Top
    <2>6. TasksOf(blocked') = Sleepers \cup {Top}
        BY <2>2, <2>3, <2>4, InsertedProperties
    <2>7. Sleepers' = Sleepers \cup {Top}
        BY <2>6 DEF Sleepers, TasksOf
    <2>8. Ready' = Ready \ {Top}
        BY <2>1, <2>3, <2>5, WithoutProperties DEF Ready
    <2>9. Held' = Held \ {Top} /\ Closed' = Closed
        BY <1>2, <1>3, <2>1 DEF Held, Closed
    <2>. QED
        BY <1>2, <2>5, <2>7, <2>8, <2>9 DEF Pool!Sleep, Ready, Held, Closed
<1>. QED
    BY <1>4, <1>5, <1>6, <1>7 DEF Return

\* A step of the scheduler is a step of the pool or nothing to it.
LEMMA StepImplements ==
    ASSUME IInv, Disciplined, [Next]_vars
    PROVE  [Pool!PoolNext]_(Pool!poolVars)
<1>1. CASE \E t \in Tasks : Add(t) \/ Off(t)
    BY <1>1, AddEnters, OffShuts DEF Pool!PoolNext
<1>2. CASE Clear
    BY <1>2, ClearEmpties DEF Pool!PoolNext
<1>3. CASE \E e \in Steps : Tick(e)
    BY <1>3, TickStutters
<1>4. CASE LoopNext
    BY <1>4, TurnIsOne DEF Pool!PoolNext
<1>5. CASE Return
    BY <1>5, ReturnGivesBack DEF Pool!PoolNext
<1>6. CASE UNCHANGED vars
    BY <1>6 DEF vars, Pool!poolVars, Sleepers
<1>. QED
    BY <1>1, <1>2, <1>3, <1>4, <1>5, <1>6 DEF Next

\* Every behaviour of the scheduler is one of the pool: whatever order its
\* queues impose, a task is started only while it is open and not running,
\* sleeps only when it asked to, and leaves only after it was shut.
THEOREM Implements == Disciplined => (Spec => ImplementsPool)
<1>. SUFFICES ASSUME Disciplined PROVE Spec => ImplementsPool
    OBVIOUS
<1>1. Init => Pool!PoolInit
    BY DEF Init, Pool!PoolInit, Elems, Sleepers
<1>2. IInv /\ [Next]_vars => [Pool!PoolNext]_(Pool!poolVars)
    BY StepImplements
<1>3. Spec => []IInv
    BY Invariance
<1>. QED
    BY <1>1, <1>2, <1>3, PTL DEF Spec, ImplementsPool, Pool!PoolSpec

-----------------------------------------------------------------------------
(* The LITE engine implements the pool as well.                            *)

LiteQueued == Lite!Queued
LiteHeld   == {t \in LiteTasks : "USED" \in lflag[t]}
LiteClosed == {t \in LiteTasks : "CLOSED" \in lflag[t]}

\* While a callback is on the stack of a loop that was not cleared, the
\* cursor is on a node: the callback that yields moves it from there.
LiteIInv ==
    /\ lqueue \in Seq(LiteTasks) /\ NoDuplicates(lqueue)
    /\ lact \in LiteQueued \cup {Nil}
    /\ lqueue # <<>> /\ lstack # <<>> => lact \in LiteQueued
    /\ lflag \in [LiteTasks -> SUBSET FLAGS]
    /\ lstack \in Seq(LiteTasks)

\* The members of the queue of Lite.
LEMMA LiteMembers ==
    LiteQueued = Elems(lqueue) /\ Lite!Frames = Elems(lstack)
BY DEF LiteQueued, Lite!Queued, Lite!Queue!Members, Lite!Frames, Elems

\* A sequence without its element k.
LEMMA CutProperties ==
    ASSUME NEW S, NEW s \in Seq(S), NEW k \in 1..Len(s), NoDuplicates(s)
    PROVE  LET d == SubSeq(s, 1, k - 1) \o SubSeq(s, k + 1, Len(s))
           IN  d \in Seq(S) /\ NoDuplicates(d) /\ Elems(d) = Elems(s) \ {s[k]}
<1>. DEFINE n == Len(s)
            p == SubSeq(s, 1, k - 1)
            q == SubSeq(s, k + 1, n)
            d == p \o q
<1>1. n \in Nat /\ DOMAIN s = 1..n /\ \A i \in 1..n : s[i] \in S
    BY LenProperties, ElementOfSeq
<1>5. k \in 1..n
    OBVIOUS
<1>2. /\ p \in Seq(S) /\ Len(p) = k - 1
      /\ \A i \in 1..(k - 1) : p[i] = s[i]
    BY <1>1, SubSeqProperties
<1>3. /\ q \in Seq(S) /\ Len(q) = n - k
      /\ \A i \in 1..(n - k) : q[i] = s[k + i]
    <2>. HIDE DEF n
    <2>1. \A i \in (k + 1)..n : s[i] \in S
        BY <1>1, <1>5
    <2>2. /\ q \in Seq(S) /\ Len(q) = (IF k + 1 <= n THEN n - (k + 1) + 1 ELSE 0)
          /\ \A i \in 1..(n - (k + 1) + 1) : q[i] = s[(k + 1) + i - 1]
        BY <1>1, <2>1, SubSeqProperties
    <2>3. n - (k + 1) + 1 = n - k /\ (~(k + 1 <= n) => n - k = 0)
        BY <1>1, <1>5
    <2>4. \A i \in 1..(n - k) : (k + 1) + i - 1 = k + i
        BY <1>1
    <2>. QED
        BY <2>2, <2>3, <2>4
<1>. HIDE DEF p, q, d, n
<1>4. /\ d \in Seq(S) /\ Len(d) = n - 1
      /\ \A i \in 1..(n - 1) : d[i] = IF i <= k - 1 THEN p[i] ELSE q[i - (k - 1)]
    <2>1. Len(p) + Len(q) = n - 1
        BY <1>1, <1>2, <1>3 DEF n
    <2>2. /\ d \in Seq(S) /\ Len(d) = Len(p) + Len(q)
          /\ \A i \in 1..(Len(p) + Len(q)) : d[i] = IF i <= Len(p) THEN p[i] ELSE q[i - Len(p)]
        BY <1>2, <1>3, ConcatProperties DEF d
    <2>. QED
        BY <1>2, <2>1, <2>2
<1>6. \A i \in 1..(n - 1) : d[i] = IF i < k THEN s[i] ELSE s[i + 1]
    <2>. SUFFICES ASSUME NEW i \in 1..(n - 1)
                  PROVE  d[i] = IF i < k THEN s[i] ELSE s[i + 1]
        OBVIOUS
    <2>1. CASE i < k
        <3>1. i \in 1..(k - 1)
            BY <1>1, <1>5, <2>1
        <3>. QED
            BY <1>2, <1>4, <2>1, <3>1
    <2>2. CASE ~(i < k)
        <3>1. i - (k - 1) \in 1..(n - k) /\ ~(i <= k - 1) /\ k + (i - (k - 1)) = i + 1
            BY <1>1, <1>5, <2>2
        <3>. QED
            BY <1>3, <1>4, <2>2, <3>1
    <2>. QED
        BY <2>1, <2>2
<1>7. \A a, b \in 1..n : s[a] = s[b] => a = b
    BY <1>1 DEF NoDuplicates
<1>8. DOMAIN d = 1..(n - 1)
    BY <1>4, LenProperties
<1>9. NoDuplicates(d)
    <2>. SUFFICES ASSUME NEW i \in 1..(n - 1), NEW j \in 1..(n - 1), d[i] = d[j]
                  PROVE  i = j
        BY <1>8 DEF NoDuplicates
    <2>1. CASE i < k /\ j < k
        BY <1>1, <1>5, <1>6, <1>7, <2>1
    <2>2. CASE ~(i < k) /\ ~(j < k)
        <3>1. i + 1 \in 1..n /\ j + 1 \in 1..n /\ (i + 1 = j + 1 => i = j)
            BY <1>1
        <3>. QED
            BY <1>6, <1>7, <2>2, <3>1
    <2>3. CASE i < k /\ ~(j < k)
        <3>1. i \in 1..n /\ j + 1 \in 1..n /\ i # j + 1
            BY <1>1, <2>3
        <3>. QED
            BY <1>6, <1>7, <2>3, <3>1
    <2>4. CASE ~(i < k) /\ j < k
        <3>1. i + 1 \in 1..n /\ j \in 1..n /\ i + 1 # j
            BY <1>1, <2>4
        <3>. QED
            BY <1>6, <1>7, <2>4, <3>1
    <2>. QED
        BY <2>1, <2>2, <2>3, <2>4
<1>10. Elems(d) \subseteq Elems(s) \ {s[k]}
    <2>. SUFFICES ASSUME NEW i \in 1..(n - 1)
                  PROVE  d[i] \in Elems(s) /\ d[i] # s[k]
        BY <1>8 DEF Elems
    <2>. QED
        BY <1>1, <1>5, <1>6, <1>7 DEF Elems
<1>11. Elems(s) \ {s[k]} \subseteq Elems(d)
    <2>. SUFFICES ASSUME NEW a \in 1..n, s[a] # s[k]
                  PROVE  \E i \in 1..(n - 1) : d[i] = s[a]
        BY <1>1, <1>8 DEF Elems
    <2>1. CASE a < k
        <3>1. a \in 1..(n - 1)
            BY <1>1, <1>5, <2>1
        <3>. QED
            BY <1>6, <2>1, <3>1
    <2>2. CASE a > k
        <3>1. a - 1 \in 1..(n - 1) /\ ~(a - 1 < k) /\ (a - 1) + 1 = a
            BY <1>1, <1>5, <2>2
        <3>. QED
            BY <1>6, <3>1
    <2>. QED
        BY <1>1, <1>5, <2>1, <2>2
<1>. QED
    BY <1>4, <1>9, <1>10, <1>11 DEF d, p, q, n

\* What the operators of the queue do with a node of it.
LEMMA LiteQueueFacts ==
    ASSUME LiteIInv, NEW x \in LiteQueued
    PROVE  /\ Lite!Queue!Ahead(x) \in LiteQueued
           /\ Lite!Queue!Drop(x) \in Seq(LiteTasks) /\ NoDuplicates(Lite!Queue!Drop(x))
           /\ Elems(Lite!Queue!Drop(x)) = LiteQueued \ {x}
           /\ Len(lqueue) # 1 => Lite!Queue!After(x) \in LiteQueued \ {x}
           /\ Len(lqueue) = 1 => LiteQueued \ {x} = {}
<1>. DEFINE n == Len(lqueue)
            k == Lite!Queue!At(x)
<1>1. /\ n \in Nat /\ DOMAIN lqueue = 1..n /\ LiteQueued = {lqueue[i] : i \in 1..n}
      /\ \A a, b \in 1..n : lqueue[a] = lqueue[b] => a = b
      /\ lqueue \in Seq(LiteTasks) /\ NoDuplicates(lqueue)
    BY LenProperties, LiteMembers DEF LiteIInv, NoDuplicates, Elems
<1>2. \E i \in 1..n : lqueue[i] = x
    BY <1>1
<1>3. k \in 1..n /\ lqueue[k] = x
    BY <1>1, <1>2 DEF Lite!Queue!At
<1>4. Lite!Queue!Ahead(x) = IF k = 1 THEN lqueue[n] ELSE lqueue[k - 1]
    BY DEF Lite!Queue!Ahead
<1>5. Lite!Queue!After(x) = lqueue[(k % n) + 1]
    BY DEF Lite!Queue!After
<1>6. Lite!Queue!Drop(x) = SubSeq(lqueue, 1, k - 1) \o SubSeq(lqueue, k + 1, n)
    BY DEF Lite!Queue!Drop
<1>7. /\ Lite!Queue!Drop(x) \in Seq(LiteTasks) /\ NoDuplicates(Lite!Queue!Drop(x))
      /\ Elems(Lite!Queue!Drop(x)) = LiteQueued \ {x}
    <2>. HIDE DEF k
    <2>1. LET d == SubSeq(lqueue, 1, k - 1) \o SubSeq(lqueue, k + 1, Len(lqueue))
          IN  d \in Seq(LiteTasks) /\ NoDuplicates(d) /\ Elems(d) = Elems(lqueue) \ {lqueue[k]}
        BY <1>1, <1>3, CutProperties
    <2>. QED
        BY <1>3, <1>6, <2>1, LiteMembers
<1>. HIDE DEF k, n
<1>8. Lite!Queue!Ahead(x) \in LiteQueued
    <2>1. n \in 1..n /\ (k # 1 => k - 1 \in 1..n)
        BY <1>1, <1>3
    <2>. QED
        BY <1>1, <1>4, <2>1
<1>9. n # 1 => Lite!Queue!After(x) \in LiteQueued \ {x}
    <2>. SUFFICES ASSUME n # 1
                  PROVE  Lite!Queue!After(x) \in LiteQueued \ {x}
        OBVIOUS
    <2>1. (k % n) + 1 \in 1..n /\ (k % n) + 1 # k
        <3>1. CASE k = n
            <4>1. k % n = 0
                BY <1>1, <1>3, <3>1
            <4>. QED
                BY <1>1, <1>3, <3>1, <4>1
        <3>2. CASE k # n
            <4>1. k % n = k
                BY <1>1, <1>3, <3>2
            <4>. QED
                BY <1>1, <1>3, <3>2, <4>1
        <3>. QED
            BY <3>1, <3>2
    <2>. QED
        BY <1>1, <1>3, <1>5, <2>1
<1>10. n = 1 => LiteQueued \ {x} = {}
    BY <1>1, <1>3
<1>. QED
    BY <1>7, <1>8, <1>9, <1>10 DEF n

\* The innermost frame of Lite.
LEMMA LiteFrameFacts ==
    ASSUME LiteIInv, Lite!Returning
    PROVE  /\ Lite!Top \in LiteTasks /\ lstack # <<>>
           /\ lstack' \in Seq(LiteTasks)
           /\ Lite!Pool!Leave /\ Lite!Pool!Top = Lite!Top
<1>1. lstack \in Seq(LiteTasks) /\ lstack # <<>> /\ lstack' = SubSeq(lstack, 1, Len(lstack) - 1)
    BY DEF LiteIInv, Lite!Returning
<1>2. Len(lstack) \in Nat /\ Len(lstack) # 0 /\ \A i \in 1..Len(lstack) : lstack[i] \in LiteTasks
    BY <1>1, LenProperties, EmptySeq, ElementOfSeq
<1>3. Lite!Top \in LiteTasks
    BY <1>2 DEF Lite!Top
<1>4. lstack' \in Seq(LiteTasks)
    <2>1. Len(lstack) - 1 \in Nat /\ \A i \in 1..Len(lstack) - 1 : lstack[i] \in LiteTasks
        BY <1>2
    <2>. QED
        BY <1>1, <1>2, <2>1, SubSeqProperties
<1>5. Lite!Pool!Leave /\ Lite!Pool!Top = Lite!Top
    BY <1>1 DEF Lite!Pool!Leave, Lite!Pool!Top, Lite!Top
<1>. QED
    BY <1>1, <1>3, <1>4, <1>5

\* The pool of Lite, in the terms of this module.
LEMMA LitePoolTerms == Lite!Pool!InPool = LiteQueued /\ Lite!Pool!Running = Elems(lstack)
BY DEF Lite!Pool!InPool, Lite!Pool!Running, LiteQueued, Elems

\* Adding a task to Lite.
LEMMA LiteAdds ==
    ASSUME LiteIInv, NEW t \in LiteTasks, NEW k \in Lite!KINDS, Lite!Add(t, k)
    PROVE  LiteIInv' /\ Lite!Pool!Enter(t)
<1>1. /\ t \notin LiteQueued /\ t \notin Elems(lstack) /\ Elems(lstack) \subseteq LiteQueued
      /\ lqueue' = <<t>> \o lqueue /\ lflag' = [lflag EXCEPT ![t] = {"OPEN"}]
      /\ lact' = lact /\ lstack' = lstack
    BY LiteMembers DEF Lite!Add, LiteQueued
<1>2. /\ lqueue' \in Seq(LiteTasks) /\ NoDuplicates(lqueue')
      /\ Elems(lqueue') = {t} \cup Elems(lqueue)
    BY <1>1, PushFront, LiteMembers DEF LiteIInv
<1>3. LiteQueued' = LiteQueued \cup {t}
    <2>1. LiteQueued' = Elems(lqueue') /\ LiteQueued = Elems(lqueue)
        BY LiteMembers DEF LiteQueued, Lite!Queued, Lite!Queue!Members, Elems
    <2>. QED
        BY <1>2, <2>1
<1>4. lflag \in [LiteTasks -> SUBSET FLAGS]
    BY DEF LiteIInv
<1>5. lflag' \in [LiteTasks -> SUBSET FLAGS]
    BY <1>1, <1>4 DEF FLAGS
<1>6. LiteHeld' = LiteHeld \ {t} /\ LiteClosed' = LiteClosed \ {t}
    BY <1>1, <1>4 DEF LiteHeld, LiteClosed
<1>7. lqueue' # <<>> /\ lstack' # <<>> => lact' \in LiteQueued'
    <2>. SUFFICES ASSUME lstack # <<>>
                  PROVE  lact \in LiteQueued
        BY <1>1, <1>3
    <2>1. Elems(lstack) # {} /\ (lqueue = <<>> => Elems(lqueue) = {})
        BY ElemsType DEF LiteIInv
    <2>. QED
        BY <1>1, <2>1, LiteMembers DEF LiteIInv
<1>8. LiteIInv'
    BY <1>1, <1>2, <1>3, <1>5, <1>7 DEF LiteIInv
<1>9. Lite!Pool!Enter(t)
    BY <1>1, <1>3, <1>6, LitePoolTerms
       DEF Lite!Pool!Enter, LiteQueued, LiteHeld, LiteClosed
<1>. QED
    BY <1>8, <1>9

\* Queues that are equal have equal members.
LEMMA LiteSameQueue == lqueue' = lqueue => LiteQueued' = LiteQueued
BY DEF LiteQueued, Lite!Queued, Lite!Queue!Members

\* Turning a task of Lite off.
LEMMA LiteOffs ==
    ASSUME LiteIInv, NEW t \in LiteTasks, Lite!Off(t)
    PROVE  LiteIInv' /\ Lite!Pool!Shut(t)
<1>1. /\ lqueue' = lqueue /\ lflag' = [lflag EXCEPT ![t] = {"CLOSED"}]
      /\ lact' = lact /\ lstack' = lstack
    BY DEF Lite!Off
<1>2. LiteQueued' = LiteQueued
    BY <1>1, LiteSameQueue
<1>3. lflag \in [LiteTasks -> SUBSET FLAGS]
    BY DEF LiteIInv
<1>4. lflag' \in [LiteTasks -> SUBSET FLAGS]
    BY <1>1, <1>3 DEF FLAGS
<1>5. LiteHeld' = LiteHeld \ {t} /\ LiteClosed' = LiteClosed \cup {t}
    BY <1>1, <1>3 DEF LiteHeld, LiteClosed
<1>6. LiteIInv'
    BY <1>1, <1>2, <1>4 DEF LiteIInv
<1>7. Lite!Pool!Shut(t)
    BY <1>1, <1>2, <1>5 DEF Lite!Pool!Shut, LiteQueued, LiteHeld, LiteClosed
<1>. QED
    BY <1>6, <1>7

\* Clearing Lite.
LEMMA LiteClears ==
    ASSUME LiteIInv, Lite!Clear
    PROVE  LiteIInv' /\ Lite!Pool!Empty
<1>1. lqueue' = <<>> /\ lact' = Nil /\ lflag' = lflag /\ lstack' = lstack
    BY DEF Lite!Clear
<1>2. LiteQueued' = {}
    BY <1>1 DEF LiteQueued, Lite!Queued, Lite!Queue!Members
<1>3. lqueue' \in Seq(LiteTasks) /\ NoDuplicates(lqueue')
    BY <1>1 DEF NoDuplicates
<1>4. LiteIInv'
    BY <1>1, <1>3 DEF LiteIInv
<1>5. Lite!Pool!Empty
    BY <1>1, <1>2 DEF Lite!Pool!Empty, LiteQueued
<1>. QED
    BY <1>4, <1>5

\* A turn of Lite.
LEMMA LiteTurns ==
    ASSUME LiteIInv, Lite!LoopNext
    PROVE  LiteIInv' /\ \E W \in SUBSET {} :
              \/ Lite!Pool!Pass(W)
              \/ \E t \in LiteTasks : Lite!Pool!Start(W, t) \/ Lite!Pool!Reap(W, t)
<1>1. PICK x : x = Lite!Cursor
    OBVIOUS
<1>2. lqueue \in Seq(LiteTasks) /\ lqueue # <<>> /\ Lite!Careful
    BY DEF Lite!LoopNext, LiteIInv
<1>3. x \in LiteQueued /\ x \in LiteTasks
    <2>1. lqueue[1] \in Elems(lqueue) /\ Elems(lqueue) \subseteq LiteTasks
        <3>1. Len(lqueue) \in Nat \ {0} /\ DOMAIN lqueue = 1..Len(lqueue)
            BY <1>2, LenProperties, EmptySeq
        <3>2. 1 \in DOMAIN lqueue
            BY <3>1
        <3>. QED
            BY <1>2, <3>2, ElemsType DEF Elems
    <2>. QED
        BY <1>1, <2>1, LiteMembers DEF Lite!Cursor, LiteIInv
<1>4. lflag \in [LiteTasks -> SUBSET FLAGS] /\ lstack \in Seq(LiteTasks)
    BY DEF LiteIInv
<1>5. CASE Lite!SkipUsed
    <2>1. lact' = Lite!Queue!Ahead(x) /\ UNCHANGED <<lqueue, lflag, lstack>>
        BY <1>1, <1>5 DEF Lite!SkipUsed
    <2>2. LiteQueued' = LiteQueued /\ lact' \in LiteQueued
        BY <1>3, <2>1, LiteSameQueue, LiteQueueFacts
    <2>3. LiteIInv'
        BY <2>1, <2>2 DEF LiteIInv
    <2>4. Lite!Pool!Pass({})
        BY <2>1, <2>2 DEF Lite!Pool!Pass, LiteQueued
    <2>. QED
        BY <2>3, <2>4
<1>6. CASE Lite!ReapClosed
    <2>1. /\ "USED" \notin lflag[x] /\ "CLOSED" \in lflag[x]
          /\ lqueue' = Lite!Queue!Drop(x)
          /\ lact' = IF Len(lqueue) = 1 THEN Nil ELSE Lite!Queue!After(x)
          /\ UNCHANGED <<lflag, lstack>>
        BY <1>1, <1>6 DEF Lite!ReapClosed
    <2>2. /\ lqueue' \in Seq(LiteTasks) /\ NoDuplicates(lqueue')
          /\ Elems(lqueue') = LiteQueued \ {x}
          /\ Len(lqueue) # 1 => lact' \in LiteQueued \ {x}
          /\ Len(lqueue) = 1 => lact' = Nil /\ LiteQueued \ {x} = {}
        BY <1>3, <2>1, LiteQueueFacts
    <2>3. LiteQueued' = LiteQueued \ {x}
        BY <2>2 DEF LiteQueued, Lite!Queued, Lite!Queue!Members, Elems
    <2>4. Len(lqueue) = 1 => lqueue' = <<>>
        BY <2>2, ElemsType
    <2>5. LiteIInv'
        BY <1>4, <2>1, <2>2, <2>3, <2>4 DEF LiteIInv
    <2>6. x \notin Elems(lstack)
        BY <2>1, LiteMembers DEF Lite!Careful, Lite!LoopNext
    <2>7. Lite!Pool!Reap({}, x)
        BY <1>3, <2>1, <2>3, <2>6, LitePoolTerms
           DEF Lite!Pool!Reap, LiteQueued
    <2>8. \E t \in LiteTasks : Lite!Pool!Start({}, t) \/ Lite!Pool!Reap({}, t)
        BY <1>3, <2>7
    <2>. QED
        BY <2>5, <2>8
<1>7. CASE Lite!RunTask
    <2>1. /\ lflag[x] \cap {"USED", "CLOSED"} = {}
          /\ lact' = x
          /\ lflag' = [lflag EXCEPT ![x] = lflag[x] \cup {"USED"}]
          /\ lstack' = Append(lstack, x)
          /\ lqueue' = lqueue
        BY <1>1, <1>7 DEF Lite!RunTask
    <2>2. LiteQueued' = LiteQueued
        BY <2>1, LiteSameQueue
    <2>3. lflag' \in [LiteTasks -> SUBSET FLAGS] /\ lstack' \in Seq(LiteTasks)
        BY <1>3, <1>4, <2>1, AppendProperties DEF FLAGS
    <2>4. LiteHeld' = LiteHeld \cup {x} /\ LiteClosed' = LiteClosed /\ x \notin LiteHeld \cup LiteClosed
        BY <1>3, <1>4, <2>1 DEF LiteHeld, LiteClosed
    <2>5. LiteIInv'
        BY <1>3, <2>1, <2>2, <2>3 DEF LiteIInv
    <2>6. Lite!Pool!Start({}, x)
        BY <1>3, <2>1, <2>2, <2>4 DEF Lite!Pool!Start, LiteQueued, LiteHeld, LiteClosed
    <2>7. \E t \in LiteTasks : Lite!Pool!Start({}, t) \/ Lite!Pool!Reap({}, t)
        BY <1>3, <2>6
    <2>. QED
        BY <2>5, <2>7
<1>. QED
    BY <1>5, <1>6, <1>7 DEF Lite!LoopNext

\* A callback of Lite returns.
LEMMA LiteReturns ==
    ASSUME LiteIInv, Lite!Return
    PROVE  LiteIInv' /\ (Lite!Pool!Yield \/ Lite!Pool!Finish \/ Lite!Pool!Hold)
<1>1. Lite!Returning
    BY DEF Lite!Return, Lite!ReturnCleared
<1>2. PICK x : x = Lite!Top
    OBVIOUS
<1>3. /\ x \in LiteTasks /\ lstack # <<>> /\ lstack' \in Seq(LiteTasks)
      /\ Lite!Pool!Leave /\ Lite!Pool!Top = x
    BY <1>1, <1>2, LiteFrameFacts
<1>4. lflag \in [LiteTasks -> SUBSET FLAGS]
    BY DEF LiteIInv
<1>5. \/ lqueue = <<>> /\ Lite!Holds
      \/ lqueue # <<>> /\ (Lite!Yields \/ Lite!Ends \/ Lite!Holds)
    BY DEF Lite!Return, Lite!ReturnCleared, Lite!Alive, Lite!ReturnPlain, Lite!ReturnTimeout,
           Lite!ReturnInterval, Lite!ReturnPoll, Lite!Holds, Lite!Sets, Lite!Waits
<1>6. CASE Lite!Holds
    <2>1. UNCHANGED <<lqueue, lact, lflag>> /\ LiteQueued' = LiteQueued
        BY <1>6, LiteSameQueue DEF Lite!Holds
    <2>2. LiteIInv'
        BY <1>3, <2>1 DEF LiteIInv
    <2>3. Lite!Pool!Hold
        BY <1>3, <2>1 DEF Lite!Pool!Hold, LiteQueued
    <2>. QED
        BY <2>2, <2>3
<1>7. CASE Lite!Ends
    <2>1. /\ UNCHANGED <<lqueue, lact>> /\ LiteQueued' = LiteQueued
          /\ lflag' = [lflag EXCEPT ![x] = {"CLOSED"}]
        BY <1>2, <1>7, LiteSameQueue DEF Lite!Ends
    <2>2. lflag' \in [LiteTasks -> SUBSET FLAGS]
        BY <1>4, <2>1 DEF FLAGS
    <2>3. LiteHeld' = LiteHeld \ {x} /\ LiteClosed' = LiteClosed \cup {x}
        BY <1>3, <1>4, <2>1 DEF LiteHeld, LiteClosed
    <2>4. LiteIInv'
        BY <1>3, <2>1, <2>2 DEF LiteIInv
    <2>5. Lite!Pool!Finish
        BY <1>3, <2>1, <2>3 DEF Lite!Pool!Finish, LiteQueued, LiteHeld, LiteClosed
    <2>. QED
        BY <2>4, <2>5
<1>8. CASE Lite!Yields /\ lqueue # <<>>
    <2>1. /\ lqueue' = lqueue /\ LiteQueued' = LiteQueued
          /\ lflag' = [lflag EXCEPT ![x] = lflag[x] \ {"USED"}]
          /\ lact' = Lite!Queue!Ahead(lact)
        BY <1>2, <1>8, LiteSameQueue DEF Lite!Yields
    <2>2. lact' \in LiteQueued
        <3>1. lact \in LiteQueued
            BY <1>3, <1>8 DEF LiteIInv
        <3>. QED
            BY <2>1, <3>1, LiteQueueFacts
    <2>3. lflag' \in [LiteTasks -> SUBSET FLAGS]
        BY <1>4, <2>1
    <2>4. LiteHeld' = LiteHeld \ {x} /\ LiteClosed' = LiteClosed
        BY <1>3, <1>4, <2>1 DEF LiteHeld, LiteClosed
    <2>5. LiteIInv'
        BY <1>3, <2>1, <2>2, <2>3 DEF LiteIInv
    <2>6. Lite!Pool!Yield
        BY <1>3, <2>1, <2>4 DEF Lite!Pool!Yield, LiteQueued, LiteHeld, LiteClosed
    <2>. QED
        BY <2>5, <2>6
<1>. QED
    BY <1>5, <1>6, <1>7, <1>8

\* Each step of Lite keeps its invariant and is one of the pool or nothing to it.
LEMMA LiteKeeps ==
    ASSUME LiteIInv, [Lite!Next]_(Lite!vars)
    PROVE  LiteIInv' /\ [Lite!Pool!PoolNext]_(Lite!Pool!poolVars)
<1>1. CASE \E t \in LiteTasks : Lite!Off(t) \/ \E k \in Lite!KINDS : Lite!Add(t, k)
    BY <1>1, LiteAdds, LiteOffs DEF Lite!Pool!PoolNext
<1>2. CASE Lite!Clear
    BY <1>2, LiteClears DEF Lite!Pool!PoolNext
<1>3. CASE Lite!Tick \/ UNCHANGED Lite!vars
    <2>1. UNCHANGED <<lqueue, lact, lflag, lstack>> /\ LiteQueued' = LiteQueued
        BY <1>3, LiteSameQueue DEF Lite!Tick, Lite!vars
    <2>2. LiteIInv'
        BY <2>1 DEF LiteIInv
    <2>3. UNCHANGED Lite!Pool!poolVars
        BY <2>1 DEF Lite!Pool!poolVars, LiteQueued
    <2>. QED
        BY <2>2, <2>3
<1>4. CASE Lite!LoopNext
    BY <1>4, LiteTurns DEF Lite!Pool!PoolNext
<1>5. CASE Lite!Return
    BY <1>5, LiteReturns DEF Lite!Pool!PoolNext
<1>. QED
    BY <1>1, <1>2, <1>3, <1>4, <1>5 DEF Lite!Next

\* The LITE engine implements the pool: with one queue and no timers it starts,
\* keeps and reaps tasks as the FULL one may.
THEOREM LiteImplements == Lite!Spec => Lite!ImplementsPool
<1>1. Lite!Init => LiteIInv
    BY DEF Lite!Init, LiteIInv, NoDuplicates
<1>2. LiteIInv /\ [Lite!Next]_(Lite!vars) =>
          LiteIInv' /\ [Lite!Pool!PoolNext]_(Lite!Pool!poolVars)
    BY LiteKeeps
<1>3. Lite!Init => Lite!Pool!PoolInit
    BY DEF Lite!Init, Lite!Pool!PoolInit, Lite!Queued, Lite!Queue!Members
<1>. QED
    BY <1>1, <1>2, <1>3, PTL DEF Lite!Spec, Lite!ImplementsPool, Lite!Pool!PoolSpec

\* Either engine, in the build that has it, implements the pool.
THEOREM PoolsKept == Disciplined => (TwoSpec => PoolKept)
<1>. SUFFICES ASSUME Disciplined PROVE TwoSpec => PoolKept
    OBVIOUS
<1>1. TwoInit => Init /\ Lite!Init
    BY DEF TwoInit
<1>2. [TwoNext]_all => [Next]_vars /\ [Lite!Next]_(Lite!vars)
    BY DEF TwoNext, OnFull, OnLite, all, liteVars, vars, FullStill, Lite!vars
<1>3. Spec => ImplementsPool
    BY Implements
<1>4. Lite!Spec => Lite!ImplementsPool
    BY LiteImplements
<1>. QED
    BY <1>1, <1>2, <1>3, <1>4, PTL DEF TwoSpec, Spec, Lite!Spec, PoolKept
=============================================================================
