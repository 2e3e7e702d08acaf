----------------------------- MODULE EventProofs -----------------------------
(***************************************************************************)
(* Proofs about the events of Event.tla, for any listeners and addresses.  *)
(***************************************************************************)
EXTENDS MCEvent, SequenceTheorems, FiniteSetTheorems, TLAPS

Distinct(s) == \A i, j \in 1..Len(s) : s[i] = s[j] => i = j

-----------------------------------------------------------------------------
(* The inductive invariant.                                                *)

\* Every listener in the list has an address of its own.
Addressed ==
    \A l, m \in Elems(que) : at[l] # Nil /\ (at[l] = at[m] => l = m)

\* What is put off names listeners that are still in the list, that will not
\* leave it by themselves, and everyone that was excused and has not left.
PutOff ==
    /\ Distinct(tmp)
    /\ \A i \in 1..Len(tmp) :
        \E l \in Elems(que) \cap On \cap excused : at[l] = tmp[i] /\ flag[l] = "CLOSED"
    /\ \A l \in Elems(que) \cap excused : \E i \in 1..Len(tmp) : tmp[i] = at[l]
    /\ pc = "idle" => tmp = <<>>

\* The walk is at the k-th node: it has called those up to it, none behind it,
\* and when it will not go on nobody behind it was there when it began.
WalkAt(k) ==
    /\ que[k] = cur
    /\ \A i \in 1..Len(que) : called[que[i]] = IF i <= k THEN 1 ELSE 0
    /\ nxt # Nil => k < Len(que) /\ que[k + 1] = nxt
    /\ nxt = Nil => \A i \in 1..Len(que) : i > k => que[i] \notin present

Walk == pc = "calling" => \E k \in 1..Len(que) : WalkAt(k)

\* Whoever has left the list during the walk was called before.
Left == \A l \in Listeners \ Elems(que) : called[l] <= 1 /\ (l \in present => called[l] = 1)

AtRest == pc = "idle" => present = {} /\ \A l \in Listeners : called[l] = 0

IInv ==
    /\ TypeOK /\ Distinct(que) /\ Addressed /\ PutOff /\ Walk /\ Left /\ AtRest
    /\ Subscribed \ excused \subseteq Elems(que)
    /\ pc = "sweep" => OncePerEmission
-----------------------------------------------------------------------------
(* The operations of the list.                                             *)

\* A function on 1..n is a sequence of length n.
LEMMA SeqOfFunction ==
    ASSUME NEW S, NEW n \in Nat, NEW f \in [1..n -> S]
    PROVE  f \in Seq(S) /\ Len(f) = n
<1>1. f \in Seq(S)
    BY SeqDef
<1>2. DOMAIN f = 1..Len(f) /\ Len(f) \in Nat
    BY <1>1, LenProperties
<1>. QED
    BY <1>1, <1>2

\* The members of a sequence, by index.
LEMMA ElemsIndexed ==
    ASSUME NEW S, NEW s \in Seq(S)
    PROVE  /\ Len(s) \in Nat /\ DOMAIN s = 1..Len(s)
           /\ Elems(s) \subseteq S
           /\ \A i \in 1..Len(s) : s[i] \in Elems(s) /\ s[i] \in S
           /\ \A x \in Elems(s) : \E i \in 1..Len(s) : s[i] = x
           /\ (s = <<>> <=> Len(s) = 0)
<1>1. Len(s) \in Nat /\ DOMAIN s = 1..Len(s) /\ s \in [1..Len(s) -> S]
    BY LenProperties
<1>2. s = <<>> <=> Len(s) = 0
    BY EmptySeq
<1>. QED
    BY <1>1, <1>2 DEF Elems

\* The place of a listener.
LEMMA PositionProperties ==
    ASSUME NEW s \in Seq(Listeners), NEW l \in Elems(s), Distinct(s)
    PROVE  /\ Position(s, l) \in 1..Len(s) /\ s[Position(s, l)] = l
           /\ \A i \in 1..Len(s) : s[i] = l => i = Position(s, l)
<1>1. \E i \in DOMAIN s : s[i] = l
    BY DEF Elems
<1>2. Position(s, l) \in DOMAIN s /\ s[Position(s, l)] = l
    BY <1>1 DEF Position
<1>. QED
    BY <1>2, ElemsIndexed DEF Distinct

\* Erasing a listener leaves the others where they were, or one place ahead.
LEMMA ErasedProperties ==
    ASSUME que \in Seq(Listeners), Distinct(que), NEW l \in Elems(que)
    PROVE  LET p == Position(que, l) IN
           /\ p \in 1..Len(que) /\ que[p] = l
           /\ Erased(l) \in Seq(Listeners) /\ Len(Erased(l)) = Len(que) - 1
           /\ \A i \in 1..Len(que) - 1 :
                /\ Erased(l)[i] = IF i < p THEN que[i] ELSE que[i + 1]
                /\ i \in 1..Len(que) /\ i + 1 \in 1..Len(que)
           /\ Distinct(Erased(l))
           /\ Elems(Erased(l)) = Elems(que) \ {l}
<1>. DEFINE p == Position(que, l)
            n == Len(que) - 1
            w == Erased(l)
<1>1. Len(que) \in Nat /\ DOMAIN que = 1..Len(que) /\ que \in [1..Len(que) -> Listeners]
    BY LenProperties
<1>2. p \in 1..Len(que) /\ que[p] = l
    BY PositionProperties
<1>3. n \in Nat
    BY <1>1, <1>2
<1>4. w = [i \in 1..n |-> IF i < p THEN que[i] ELSE que[i + 1]]
    BY DEF Erased
<1>5. \A i \in 1..n : i \in 1..Len(que) /\ i + 1 \in 1..Len(que)
    BY <1>1, <1>3
<1>6. w \in [1..n -> Listeners]
    BY <1>1, <1>4, <1>5
<1>7. w \in Seq(Listeners) /\ Len(w) = n
    BY <1>3, <1>6, SeqOfFunction
<1>8. Distinct(w)
    <2>. SUFFICES ASSUME NEW i \in 1..n, NEW j \in 1..n, w[i] = w[j]
                  PROVE  i = j
        BY <1>7 DEF Distinct
    <2>. QED
        BY <1>1, <1>2, <1>3, <1>4, <1>5 DEF Distinct
<1>9. DOMAIN w = 1..n
    BY <1>6
<1>10. Elems(w) \subseteq Elems(que) \ {l}
    <2>. SUFFICES ASSUME NEW i \in 1..n
                  PROVE  w[i] \in Elems(que) /\ w[i] # l
        BY <1>9 DEF Elems
    <2>1. w[i] = IF i < p THEN que[i] ELSE que[i + 1]
        BY <1>4
    <2>. QED
        BY <1>1, <1>2, <1>3, <1>5, <2>1 DEF Elems, Distinct
<1>11. Elems(que) \ {l} \subseteq Elems(w)
    <2>. SUFFICES ASSUME NEW a \in 1..Len(que), que[a] # l
                  PROVE  \E i \in 1..n : w[i] = que[a]
        BY <1>1, <1>9 DEF Elems
    <2>1. CASE a < p
        BY <1>1, <1>2, <1>3, <1>4, <2>1
    <2>2. CASE a > p
        <3>1. a - 1 \in 1..n /\ w[a - 1] = que[a]
            BY <1>1, <1>2, <1>3, <1>4, <2>2
        <3>. QED
            BY <3>1
    <2>. QED
        BY <1>1, <1>2, <2>1, <2>2
<1>. QED
    BY <1>2, <1>4, <1>5, <1>7, <1>8, <1>10, <1>11

\* A value put at the back.
LEMMA AppendedProperties ==
    ASSUME NEW S, NEW s \in Seq(S), NEW x \in S, x \notin Elems(s), Distinct(s)
    PROVE  LET r == Append(s, x) IN
           /\ r \in Seq(S) /\ Len(r) = Len(s) + 1
           /\ \A i \in 1..Len(s) : r[i] = s[i]
           /\ r[Len(s) + 1] = x
           /\ Distinct(r)
           /\ Elems(r) = Elems(s) \cup {x}
<1>. DEFINE r == Append(s, x)
<1>1. Len(s) \in Nat /\ DOMAIN s = 1..Len(s)
    BY LenProperties
<1>2. /\ r \in Seq(S) /\ Len(r) = Len(s) + 1
      /\ \A i \in 1..Len(s) : r[i] = s[i]
      /\ r[Len(s) + 1] = x
    BY AppendProperties
<1>3. DOMAIN r = 1..Len(s) + 1
    BY <1>2, LenProperties
<1>. HIDE DEF r
<1>4. \A i \in 1..Len(s) : s[i] # x
    BY <1>1 DEF Elems
<1>5. \A i \in 1..Len(s) + 1 : i \in 1..Len(s) \/ i = Len(s) + 1
    BY <1>1
<1>6. Distinct(r)
    <2>1. \A a, b \in 1..Len(s) : s[a] = s[b] => a = b
        BY DEF Distinct
    <2>. QED
        BY <1>2, <1>4, <1>5, <2>1 DEF Distinct
<1>7. Elems(r) = Elems(s) \cup {x}
    <2>1. Elems(r) \subseteq Elems(s) \cup {x}
        BY <1>1, <1>2, <1>3, <1>5 DEF Elems
    <2>2. \A i \in 1..Len(s) : i \in 1..Len(s) + 1
        BY <1>1
    <2>3. Elems(s) \subseteq Elems(r)
        BY <1>1, <1>2, <1>3, <2>2 DEF Elems
    <2>4. Len(s) + 1 \in 1..Len(s) + 1
        BY <1>1
    <2>5. x \in Elems(r)
        BY <1>2, <1>3, <2>4 DEF Elems
    <2>. QED
        BY <2>1, <2>3, <2>5
<1>. QED
    BY <1>2, <1>6, <1>7 DEF r

\* The first two indices.
LEMMA FirstIndices ==
    ASSUME NEW n \in Nat, n # 0
    PROVE  1 \in 1..n /\ (n # 1 => 2 \in 1..n) /\ \A i \in 1..n : n = 1 => ~(i > 1)
OBVIOUS

\* The link to the next node.
LEMMA AfterProperties ==
    ASSUME NEW s \in Seq(Listeners), Distinct(s), NEW k \in 1..Len(s)
    PROVE  After(s, s[k]) = IF k = Len(s) THEN Nil ELSE s[k + 1]
<1>1. Len(s) \in Nat /\ Len(s) \in 1..Len(s)
    BY LenProperties
<1>2. s[k] \in Elems(s)
    BY ElemsIndexed
<1>3. Position(s, s[k]) = k
    BY <1>2, PositionProperties
<1>4. s[k] = s[Len(s)] <=> k = Len(s)
    BY <1>1 DEF Distinct
<1>. QED
    BY <1>3, <1>4 DEF After

-----------------------------------------------------------------------------
(* Each action keeps the invariant.                                        *)

LEMMA InitIInv == Init => IInv
<1>. SUFFICES ASSUME Init PROVE IInv
    OBVIOUS
<1>. USE DEF Init
<1>1. Len(que) = 0 /\ Len(tmp) = 0 /\ Elems(que) = {}
    BY DEF Elems
<1>2. TypeOK
    BY DEF TypeOK, Used
<1>. QED
    BY <1>1, <1>2 DEF IInv, Distinct, Addressed, PutOff, Walk, Left, AtRest, Subscribed

LEMMA SubscribeKeeps ==
    ASSUME IInv, NEW l \in Listeners, NEW a \in Slots, Subscribe(l, a)
    PROVE  IInv'
<1>. USE EventAssumption DEF IInv
<1>1. /\ que \in Seq(Listeners) /\ Distinct(que) /\ l \notin Elems(que)
      /\ que' = Append(que, l)
    BY DEF TypeOK, Subscribe
<1>2. /\ que' \in Seq(Listeners) /\ Len(que') = Len(que) + 1
      /\ \A i \in 1..Len(que) : que'[i] = que[i]
      /\ que'[Len(que) + 1] = l
      /\ Distinct(que')
      /\ Elems(que') = Elems(que) \cup {l}
    BY <1>1, AppendedProperties
<1>3. /\ Len(que) \in Nat /\ Elems(que) \subseteq Listeners
      /\ \A i \in 1..Len(que) : que[i] \in Elems(que) /\ que[i] \in Listeners
    BY <1>1, ElemsIndexed
<1>4. /\ at' = [at EXCEPT ![l] = a] /\ flag' = [flag EXCEPT ![l] = "OPEN"]
      /\ excused' = excused \ {l} /\ present' = present \ {l}
      /\ called' = [called EXCEPT ![l] = 0]
      /\ UNCHANGED <<tmp, state, cur, nxt, pc>> /\ UserCode
      /\ \A m \in Elems(que) : at[m] # a
    BY DEF Subscribe, node, LivesAt
<1>5. TypeOK'
    BY <1>2, <1>4 DEF TypeOK, Used
<1>6. Addressed'
    BY <1>2, <1>3, <1>4 DEF Addressed, TypeOK
<1>7. PutOff'
    BY <1>1, <1>2, <1>3, <1>4 DEF PutOff, TypeOK, Distinct
<1>8. Walk'
    <2>. SUFFICES ASSUME pc = "calling" PROVE \E k \in 1..Len(que') : WalkAt(k)'
        BY <1>4 DEF Walk
    <2>1. PICK k \in 1..Len(que) : WalkAt(k)
        BY DEF Walk
    <2>2. k \in 1..Len(que')
        BY <1>2, <1>3
    <2>3. \A i \in 1..Len(que') : i \in 1..Len(que) \/ (i = Len(que) + 1 /\ i > k)
        BY <1>2, <1>3
    <2>4. \A i \in 1..Len(que) : que'[i] # l
        BY <1>1, <1>2, <1>3
    <2>5. called'[l] = 0 /\ \A m \in Listeners : m # l => called'[m] = called[m]
        BY <1>4 DEF TypeOK
    <2>6. \A i \in 1..Len(que') : called'[que'[i]] = IF i <= k THEN 1 ELSE 0
        <3>. TAKE i \in 1..Len(que')
        <3>1. CASE i \in 1..Len(que)
            BY <1>2, <1>3, <2>1, <2>4, <2>5, <3>1 DEF WalkAt
        <3>2. CASE i = Len(que) + 1 /\ i > k
            BY <1>2, <2>5, <3>2
        <3>. QED
            BY <2>3, <3>1, <3>2
    <2>7. que'[k] = cur'
        BY <1>2, <1>4, <2>1 DEF WalkAt
    <2>8. nxt' # Nil => k < Len(que') /\ que'[k + 1] = nxt'
        BY <1>2, <1>3, <1>4, <2>1 DEF WalkAt
    <2>9. nxt' = Nil => \A i \in 1..Len(que') : i > k => que'[i] \notin present'
        BY <1>2, <1>4, <2>1, <2>3 DEF WalkAt
    <2>. QED
        BY <2>2, <2>6, <2>7, <2>8, <2>9 DEF WalkAt
<1>9. Left' /\ AtRest'
    BY <1>2, <1>4 DEF Left, AtRest, TypeOK
<1>10. (Subscribed \ excused \subseteq Elems(que))'
    BY <1>2, <1>4 DEF Subscribed, TypeOK
<1>11. pc' # "sweep"
    BY <1>4 DEF UserCode
<1>. QED
    BY <1>2, <1>5, <1>6, <1>7, <1>8, <1>9, <1>10, <1>11

\* Outside an emission the address leads to the listener itself.
LEMMA OffKeeps ==
    ASSUME IInv, Disciplined, NEW l \in Listeners, Off(l)
    PROVE  IInv'
<1>. USE EventAssumption DEF IInv
<1>1. /\ l \in Elems(que) /\ (pc = "idle" \/ l \in On) /\ flag[l] = "OPEN"
      /\ flag' = [flag EXCEPT ![l] = "CLOSED"]
      /\ excused' = excused \cup {l}
      /\ UNCHANGED <<at, state, cur, nxt, pc, present, called>> /\ UserCode
    BY DEF Off, Sound, node
<1>2. que \in Seq(Listeners) /\ Distinct(que) /\ tmp \in Seq(Slots)
    BY DEF TypeOK
<1>3. CASE Used
    <2>1. tmp' = Append(tmp, at[l]) /\ que' = que /\ pc = "calling" /\ l \in On
        BY <1>1, <1>3 DEF Off, Removal, TypeOK, UserCode
    <2>2. at[l] \in Slots
        BY <1>1 DEF TypeOK, Addressed
    <2>3. at[l] \notin Elems(tmp)
        <3>. SUFFICES ASSUME NEW i \in 1..Len(tmp), tmp[i] = at[l] PROVE FALSE
            BY <1>2, ElemsIndexed
        <3>. QED
            BY <1>1 DEF PutOff, Addressed
    <2>4. /\ tmp' \in Seq(Slots) /\ Len(tmp') = Len(tmp) + 1 /\ Distinct(tmp')
          /\ \A i \in 1..Len(tmp) : tmp'[i] = tmp[i]
          /\ tmp'[Len(tmp) + 1] = at[l]
        BY <1>2, <2>1, <2>2, <2>3, AppendedProperties DEF PutOff
    <2>5. Len(tmp) \in Nat
        BY <1>2, ElemsIndexed
    <2>6. \A i \in 1..Len(tmp') : i \in 1..Len(tmp) \/ i = Len(tmp) + 1
        BY <2>4, <2>5
    <2>7. \A i \in 1..Len(tmp) : i \in 1..Len(tmp')
        BY <2>4, <2>5
    <2>8. Len(tmp) + 1 \in 1..Len(tmp')
        BY <2>4, <2>5
    <2>9. PutOff'
        <3>1. \A i \in 1..Len(tmp') :
                  \E m \in Elems(que) \cap On \cap excused' : at[m] = tmp'[i] /\ flag'[m] = "CLOSED"
            <4>. TAKE i \in 1..Len(tmp')
            <4>1. CASE i \in 1..Len(tmp)
                <5>1. PICK m \in Elems(que) \cap On \cap excused : at[m] = tmp[i] /\ flag[m] = "CLOSED"
                    BY <4>1 DEF PutOff
                <5>. QED
                    BY <1>1, <2>4, <4>1, <5>1 DEF TypeOK
            <4>2. CASE i = Len(tmp) + 1
                BY <1>1, <2>1, <2>4, <4>2 DEF TypeOK
            <4>. QED
                BY <2>6, <4>1, <4>2
        <3>2. \A m \in Elems(que) \cap excused' : \E i \in 1..Len(tmp') : tmp'[i] = at[m]
            BY <1>1, <2>4, <2>7, <2>8 DEF PutOff
        <3>3. que' = que /\ at' = at /\ pc' = "calling"
            BY <1>1, <2>1
        <3>4. \A i \in 1..Len(tmp') :
                  \E m \in Elems(que') \cap On \cap excused' : at'[m] = tmp'[i] /\ flag'[m] = "CLOSED"
            BY <3>1, <3>3
        <3>5. \A m \in Elems(que') \cap excused' : \E i \in 1..Len(tmp') : tmp'[i] = at'[m]
            BY <3>2, <3>3
        <3>. QED
            BY <2>4, <3>3, <3>4, <3>5 DEF PutOff
    <2>10. TypeOK'
        BY <1>1, <2>1, <2>4 DEF TypeOK, Used
    <2>. QED
        BY <1>1, <2>1, <2>9, <2>10
        DEF Addressed, Walk, WalkAt, Left, AtRest, Subscribed, Distinct
<1>4. CASE ~Used
    <2>1. pc = "idle" /\ tmp = <<>> /\ tmp' = <<>>
        BY <1>1, <1>4 DEF Off, Removal, EraseNow, TypeOK, PutOff
    <2>2. \A m \in LivesAt(at[l]) : m = l
        BY <1>1 DEF LivesAt, Addressed
    <2>3. que' = Erased(l)
        BY <1>4, <2>2 DEF Off, Removal, EraseNow
    <2>4. que' \in Seq(Listeners) /\ Distinct(que') /\ Elems(que') = Elems(que) \ {l}
        BY <1>1, <1>2, <2>3, ErasedProperties
    <2>5. Elems(que) \cap excused = {} /\ Len(tmp) = 0 /\ Len(tmp') = 0
        BY <2>1 DEF PutOff
    <2>6. TypeOK'
        BY <1>1, <2>1, <2>4 DEF TypeOK, Used
    <2>7. PutOff'
        <3>1. Elems(que') \cap excused' = {}
            BY <1>1, <2>4, <2>5
        <3>2. \A i \in 1..Len(tmp') : FALSE
            BY <2>5
        <3>3. Distinct(tmp')
            BY <3>2 DEF Distinct
        <3>4. \A m \in Elems(que') \cap excused' : \E i \in 1..Len(tmp') : tmp'[i] = at'[m]
            BY <3>1
        <3>. QED
            BY <2>1, <3>2, <3>3, <3>4 DEF PutOff
    <2>. QED
        BY <1>1, <2>1, <2>4, <2>6, <2>7 DEF Addressed, Walk, Left, AtRest, Subscribed
<1>. QED
    BY <1>3, <1>4

LEMMA ClearKeeps ==
    ASSUME IInv, Clear
    PROVE  IInv'
<1>. USE DEF IInv
<1>1. CASE Used
    <2>1. state' = state \cup {"KILL"}
          /\ UNCHANGED <<que, at, flag, tmp, cur, nxt, pc, excused, present, called>>
        BY <1>1 DEF Clear, node
    <2>2. TypeOK'
        BY <2>1 DEF TypeOK, Used
    <2>. QED
        BY <2>1, <2>2
        DEF Distinct, Addressed, PutOff, Walk, WalkAt, Left, AtRest, Subscribed, OncePerEmission
<1>2. CASE ~Used
    <2>1. /\ state' = state \ {"KILL"} /\ que' = <<>> /\ excused' = excused \cup Elems(que)
          /\ UNCHANGED <<at, flag, tmp, cur, nxt, pc, present, called>>
        BY <1>2 DEF Clear, Empty, node
    <2>2. pc = "idle" /\ tmp = <<>>
        BY <1>2 DEF TypeOK, PutOff
    <2>3. Elems(que) \subseteq Listeners /\ Elems(que') = {} /\ Len(que') = 0 /\ Len(tmp) = 0
        BY <2>1, <2>2, ElemsIndexed DEF TypeOK, Elems
    <2>4. TypeOK'
        BY <2>1, <2>2, <2>3 DEF TypeOK, Used
    <2>. QED
        BY <2>1, <2>2, <2>3, <2>4
        DEF Distinct, Addressed, PutOff, Walk, Left, AtRest, Subscribed
<1>. QED
    BY <1>1, <1>2

\* The first node of the list and what follows it.
LEMMA EmitKeeps ==
    ASSUME IInv, EmitStart
    PROVE  IInv'
<1>. USE EventAssumption DEF IInv
<1>1. /\ pc = "idle" /\ que # <<>> /\ que \in Seq(Listeners) /\ Distinct(que)
      /\ state' = state \cup {"USED"} /\ present' = Elems(que)
      /\ cur' = que[1] /\ nxt' = After(que, que[1]) /\ pc' = "calling"
      /\ called' = [[l \in Listeners |-> 0] EXCEPT ![que[1]] = @ + 1]
      /\ UNCHANGED <<que, at, flag, tmp, excused>>
    BY DEF EmitStart, EmitWith, Visit, TypeOK
<1>2. /\ Len(que) \in Nat /\ Len(que) # 0 /\ Elems(que) \subseteq Listeners
      /\ \A i \in 1..Len(que) : que[i] \in Listeners
    BY <1>1, ElemsIndexed
<1>3. 1 \in 1..Len(que)
    BY <1>2
<1>4. nxt' = IF 1 = Len(que) THEN Nil ELSE que[2]
    <2>1. After(que, que[1]) = IF 1 = Len(que) THEN Nil ELSE que[1 + 1]
        BY <1>1, <1>3, AfterProperties
    <2>2. 1 + 1 = 2
        OBVIOUS
    <2>. QED
        BY <1>1, <2>1, <2>2
<1>5. called' = [l \in Listeners |-> IF l = que[1] THEN 1 ELSE 0]
    BY <1>1, <1>2, <1>3
<1>6. nxt' \in Listeners \cup {Nil}
    <2>1. Len(que) # 1 => 2 \in 1..Len(que)
        BY <1>2, FirstIndices
    <2>. QED
        BY <1>2, <1>4, <2>1
<1>7. TypeOK'
    BY <1>1, <1>2, <1>3, <1>5, <1>6 DEF TypeOK, Used
<1>8. WalkAt(1)'
    <2>1. \A i \in 1..Len(que) : called'[que[i]] = IF i <= 1 THEN 1 ELSE 0
        BY <1>1, <1>2, <1>3, <1>5 DEF Distinct
    <2>2. nxt' # Nil => 1 < Len(que) /\ que[1 + 1] = nxt'
        BY <1>2, <1>4
    <2>3. nxt' = Nil => \A i \in 1..Len(que) : ~(i > 1)
        BY <1>2, <1>4
    <2>. QED
        BY <1>1, <2>1, <2>2, <2>3 DEF WalkAt
<1>9. Walk'
    BY <1>1, <1>3, <1>8 DEF Walk
<1>10. Left'
    BY <1>1, <1>3, <1>5 DEF Left
<1>. QED
    BY <1>1, <1>7, <1>9, <1>10 DEF Addressed, PutOff, AtRest, Subscribed, Distinct

\* Where the walk stands when the callback has come back: the first j nodes
\* of the list were called, and nxt is the one behind them.
Between(q, j) ==
    /\ \A i \in 1..Len(q) : called[q[i]] = IF i <= j THEN 1 ELSE 0
    /\ nxt # Nil => j < Len(q) /\ q[j + 1] = nxt
    /\ nxt = Nil => \A i \in 1..Len(q) : i > j => q[i] \notin present

\* A callback that stays in the list.
LEMMA StaysBetween ==
    ASSUME NEW k \in 1..Len(que), WalkAt(k)
    PROVE  Between(que, k)
BY DEF WalkAt, Between

\* A callback that answers -1 leaves its place to the next.
LEMMA LeavesBetween ==
    ASSUME IInv, NEW k \in 1..Len(que), WalkAt(k), que' = Erased(cur)
    PROVE  /\ Between(que', k - 1) /\ k - 1 \in 0..Len(que')
           /\ que' \in Seq(Listeners) /\ Distinct(que')
           /\ Elems(que') = Elems(que) \ {cur}
<1>1. que \in Seq(Listeners) /\ Distinct(que)
    BY DEF IInv, TypeOK
<1>2. cur \in Elems(que) /\ Len(que) \in Nat
    BY <1>1, ElemsIndexed DEF WalkAt
<1>3. Position(que, cur) = k
    BY <1>1, <1>2, PositionProperties DEF WalkAt
<1>4. /\ que' \in Seq(Listeners) /\ Len(que') = Len(que) - 1
      /\ \A i \in 1..Len(que) - 1 :
            /\ que'[i] = IF i < k THEN que[i] ELSE que[i + 1]
            /\ i \in 1..Len(que) /\ i + 1 \in 1..Len(que)
      /\ Distinct(que') /\ Elems(que') = Elems(que) \ {cur}
    BY <1>1, <1>2, <1>3, ErasedProperties
<1>5. \A i \in 1..Len(que') : called[que'[i]] = IF i <= k - 1 THEN 1 ELSE 0
    <2>. TAKE i \in 1..Len(que')
    <2>1. CASE i < k
        BY <1>2, <1>4, <2>1 DEF WalkAt
    <2>2. CASE ~(i < k)
        <3>1. que'[i] = que[i + 1] /\ i + 1 \in 1..Len(que)
            BY <1>2, <1>4, <2>2
        <3>2. ~(i + 1 <= k) /\ ~(i <= k - 1)
            BY <1>2, <1>4, <2>2
        <3>3. called[que[i + 1]] = IF i + 1 <= k THEN 1 ELSE 0
            BY <3>1 DEF WalkAt
        <3>. QED
            BY <3>1, <3>2, <3>3
    <2>. QED
        BY <2>1, <2>2
<1>6. nxt # Nil => k - 1 < Len(que') /\ que'[k - 1 + 1] = nxt
    <2>. SUFFICES ASSUME nxt # Nil PROVE k - 1 < Len(que') /\ que'[k - 1 + 1] = nxt
        OBVIOUS
    <2>1. k < Len(que) /\ que[k + 1] = nxt
        BY DEF WalkAt
    <2>2. k \in 1..Len(que) - 1 /\ k - 1 + 1 = k
        BY <1>2, <2>1
    <2>. QED
        BY <1>2, <1>4, <2>1, <2>2
<1>7. nxt = Nil => \A i \in 1..Len(que') : i > k - 1 => que'[i] \notin present
    <2>. SUFFICES ASSUME nxt = Nil, NEW i \in 1..Len(que'), i > k - 1
                  PROVE  que'[i] \notin present
        OBVIOUS
    <2>1. que'[i] = que[i + 1] /\ i + 1 \in 1..Len(que) /\ i + 1 > k
        BY <1>2, <1>4
    <2>. QED
        BY <2>1 DEF WalkAt
<1>8. k - 1 \in 0..Len(que')
    BY <1>2, <1>4
<1>. QED
    BY <1>4, <1>5, <1>6, <1>7, <1>8 DEF Between

\* What the walk does next with a list it may go on with.
LEMMA GoesOn ==
    ASSUME IInv, EventAssumption, NEW j \in 0..Len(que'), Between(que', j),
           que' \in Seq(Listeners), Distinct(que'),
           Elems(que') \subseteq Elems(que),
           \A l \in Elems(que) \ Elems(que') : called[l] = 1,
           present' = present,
           \/ nxt # Nil /\ Visit(que', nxt, called)
           \/ nxt = Nil /\ pc' = "sweep" /\ cur' = Nil /\ UNCHANGED <<nxt, called>>
    PROVE  /\ called' \in [Listeners -> Nat]
           /\ pc' \in {"calling", "sweep"} /\ {cur', nxt'} \subseteq Listeners \cup {Nil}
           /\ Walk' /\ Left' /\ (pc' = "sweep" => OncePerEmission')
<1>1. /\ Len(que') \in Nat /\ Elems(que') \subseteq Listeners
      /\ \A i \in 1..Len(que') : que'[i] \in Elems(que') /\ que'[i] \in Listeners
      /\ \A x \in Elems(que') : \E i \in 1..Len(que') : que'[i] = x
    BY ElemsIndexed
<1>2. called \in [Listeners -> Nat] /\ nxt \in Listeners \cup {Nil} /\ present \subseteq Listeners
    BY DEF IInv, TypeOK
<1>3. \A l \in Listeners \ Elems(que') : called[l] <= 1 /\ (l \in present => called[l] = 1)
    BY <1>2 DEF IInv, Left
<1>4. CASE nxt = Nil
    <2>1. pc' = "sweep" /\ cur' = Nil /\ nxt' = Nil /\ called' = called
        BY <1>4
    <2>2. \A l \in Listeners : called[l] <= 1 /\ (l \in present => called[l] = 1)
        <3>. TAKE l \in Listeners
        <3>1. CASE l \in Elems(que')
            <4>1. PICK i \in 1..Len(que') : que'[i] = l
                BY <1>1, <3>1
            <4>. QED
                BY <1>4, <4>1 DEF Between
        <3>. QED
            BY <1>3, <3>1
    <2>. QED
        BY <1>2, <2>1, <2>2 DEF Walk, Left, OncePerEmission
<1>5. CASE nxt # Nil
    <2>1. /\ cur' = nxt /\ nxt' = After(que', nxt) /\ pc' = "calling"
          /\ called' = [called EXCEPT ![nxt] = @ + 1]
        BY <1>5 DEF Visit
    <2>2. j + 1 \in 1..Len(que') /\ que'[j + 1] = nxt
        BY <1>1, <1>5 DEF Between
    <2>3. nxt' = IF j + 1 = Len(que') THEN Nil ELSE que'[j + 1 + 1]
        BY <2>1, <2>2, AfterProperties
    <2>4. j + 1 # Len(que') => j + 1 + 1 \in 1..Len(que')
        BY <1>1, <2>2
    <2>5. nxt' \in Listeners \cup {Nil}
        BY <1>1, <2>3, <2>4
    <2>6. called' \in [Listeners -> Nat]
        BY <1>2, <2>1
    <2>7. \A i \in 1..Len(que') : called'[que'[i]] = IF i <= j + 1 THEN 1 ELSE 0
        <3>. TAKE i \in 1..Len(que')
        <3>1. CASE i = j + 1
            <4>1. called[nxt] = 0 /\ nxt \in Listeners
                BY <1>1, <2>2 DEF Between
            <4>. QED
                BY <1>2, <2>1, <2>2, <3>1, <4>1
        <3>2. CASE i # j + 1
            <4>1. que'[i] # nxt
                BY <2>2, <3>2 DEF Distinct
            <4>2. called'[que'[i]] = called[que'[i]]
                BY <1>1, <1>2, <2>1, <4>1
            <4>. QED
                BY <3>2, <4>2 DEF Between
        <3>. QED
            BY <3>1, <3>2
    <2>8. nxt' # Nil => j + 1 < Len(que') /\ que'[j + 1 + 1] = nxt'
        BY <1>1, <2>2, <2>3
    <2>9. nxt' = Nil => j + 1 = Len(que')
        BY <1>1, <2>3, <2>4 DEF EventAssumption
    <2>10. nxt' = Nil => \A i \in 1..Len(que') : i > j + 1 => que'[i] \notin present'
        BY <1>1, <2>9
    <2>11. WalkAt(j + 1)'
        BY <2>1, <2>2, <2>7, <2>8, <2>10 DEF WalkAt
    <2>12. Walk'
        BY <2>2, <2>11 DEF Walk
    <2>13. \A l \in Listeners \ Elems(que') : called'[l] = called[l]
        BY <1>1, <1>2, <2>1, <2>2
    <2>14. Left'
        BY <1>3, <2>13 DEF Left
    <2>. QED
        BY <1>2, <2>1, <2>5, <2>6, <2>12, <2>14
<1>. QED
    BY <1>4, <1>5

LEMMA CallReturnsKeeps ==
    ASSUME IInv, NEW c \in {1, -1}, CallReturns(c)
    PROVE  IInv'
<1>. USE EventAssumption
<1>1. /\ pc = "calling" /\ c \in Answers(cur)
      /\ UNCHANGED <<at, flag, tmp, state, present>>
      /\ \/ nxt # Nil /\ Visit(que', nxt, called)
         \/ nxt = Nil /\ pc' = "sweep" /\ cur' = Nil /\ UNCHANGED <<nxt, called>>
    BY DEF CallReturns
<1>2. PICK k \in 1..Len(que) : WalkAt(k)
    BY <1>1 DEF IInv, Walk
<1>3. que \in Seq(Listeners) /\ Distinct(que) /\ cur \in Elems(que) /\ Elems(que) \subseteq Listeners
    BY <1>2, ElemsIndexed DEF IInv, TypeOK, WalkAt
<1>4. \E j \in 0..Len(que') :
        /\ Between(que', j) /\ que' \in Seq(Listeners) /\ Distinct(que')
        /\ \/ c = 1 /\ que' = que /\ excused' = excused
           \/ /\ c = -1 /\ Elems(que') = Elems(que) \ {cur}
              /\ excused' = excused \cup {cur}
    <2>1. CASE c = 1
        <3>1. que' = que /\ excused' = excused
            BY <2>1 DEF CallReturns
        <3>2. k \in 0..Len(que)
            BY <1>3, ElemsIndexed
        <3>. QED
            BY <1>2, <1>3, <2>1, <3>1, <3>2, StaysBetween
    <2>2. CASE c = -1
        <3>1. que' = Erased(cur) /\ excused' = excused \cup {cur}
            BY <2>2 DEF CallReturns
        <3>. QED
            BY <1>2, <2>2, <3>1, LeavesBetween
    <2>. QED
        BY <2>1, <2>2
<1>5. PICK j \in 0..Len(que') :
        /\ Between(que', j) /\ que' \in Seq(Listeners) /\ Distinct(que')
        /\ \/ c = 1 /\ que' = que /\ excused' = excused
           \/ /\ c = -1 /\ Elems(que') = Elems(que) \ {cur}
              /\ excused' = excused \cup {cur}
    BY <1>4
<1>6. called[cur] = 1
    BY <1>2 DEF WalkAt
<1>7. /\ Elems(que') \subseteq Elems(que)
      /\ \A l \in Elems(que) \ Elems(que') : called[l] = 1
    BY <1>5, <1>6
<1>8. /\ called' \in [Listeners -> Nat]
      /\ pc' \in {"calling", "sweep"} /\ {cur', nxt'} \subseteq Listeners \cup {Nil}
      /\ Walk' /\ Left' /\ (pc' = "sweep" => OncePerEmission')
    BY <1>1, <1>5, <1>7, GoesOn
<1>9. TypeOK'
    BY <1>1, <1>3, <1>5, <1>8 DEF IInv, TypeOK, Used
<1>10. Addressed'
    BY <1>1, <1>7 DEF IInv, Addressed
<1>11. PutOff'
    <2>1. \A l \in Elems(que) \cap On : l \in Elems(que')
        BY <1>1, <1>5 DEF Answers
    <2>2. Elems(que') \cap excused' \subseteq Elems(que) \cap excused
        BY <1>5
    <2>3. excused \subseteq excused'
        BY <1>5
    <2>. QED
        BY <1>1, <1>8, <2>1, <2>2, <2>3 DEF IInv, PutOff
<1>12. (Subscribed \ excused \subseteq Elems(que))'
    BY <1>1, <1>5 DEF IInv, Subscribed
<1>. QED
    BY <1>5, <1>8, <1>9, <1>10, <1>11, <1>12 DEF IInv, AtRest

\* What was put off is still there to be erased, and nobody else is.
LEMMA SweepKeeps ==
    ASSUME IInv, SweepOne
    PROVE  IInv'
<1>. USE EventAssumption
<1>1. /\ pc = "sweep" /\ tmp # <<>> /\ tmp' = Tail(tmp)
      /\ UNCHANGED <<at, flag, state, cur, nxt, pc, excused, present, called>>
    BY DEF SweepOne, SweepThen, node, hist
<1>2. /\ que \in Seq(Listeners) /\ Distinct(que) /\ tmp \in Seq(Slots) /\ Distinct(tmp)
      /\ Addressed
    BY DEF IInv, TypeOK, PutOff
<1>3. /\ Len(tmp) \in Nat /\ Len(tmp) # 0 /\ Head(tmp) = tmp[1] /\ 1 \in 1..Len(tmp)
      /\ tmp' \in Seq(Slots) /\ Len(tmp') = Len(tmp) - 1
      /\ \A i \in 1..Len(tmp') : tmp'[i] = tmp[i + 1]
    BY <1>1, <1>2, HeadTailProperties, ElemsIndexed
<1>4. PICK l \in Elems(que) \cap On \cap excused : at[l] = tmp[1] /\ flag[l] = "CLOSED"
    BY <1>3 DEF IInv, PutOff
<1>5. que # <<>> /\ LivesAt(Head(tmp)) = {l}
    BY <1>2, <1>3, <1>4, ElemsIndexed DEF LivesAt, Addressed
<1>6. que' = Erased(l)
    BY <1>5 DEF SweepOne, SweepThen, Doomed
<1>7. que' \in Seq(Listeners) /\ Distinct(que') /\ Elems(que') = Elems(que) \ {l}
    BY <1>2, <1>4, <1>6, ErasedProperties
<1>8. \A i \in 1..Len(tmp') : i + 1 \in 1..Len(tmp) /\ i + 1 # 1
    BY <1>3
<1>9. \A i \in 1..Len(tmp) : i # 1 => i - 1 \in 1..Len(tmp') /\ tmp'[i - 1] = tmp[i]
    BY <1>3
<1>10. PutOff'
    <2>1. Distinct(tmp')
        <3>. SUFFICES ASSUME NEW i \in 1..Len(tmp'), NEW j \in 1..Len(tmp'), tmp'[i] = tmp'[j]
                      PROVE  i = j
            BY DEF Distinct
        <3>1. i + 1 = j + 1
            BY <1>2, <1>3, <1>8 DEF Distinct
        <3>. QED
            BY <1>3, <3>1
    <2>2. ASSUME NEW i \in 1..Len(tmp')
          PROVE  \E m \in Elems(que') \cap On \cap excused : at[m] = tmp'[i] /\ flag[m] = "CLOSED"
        <3>1. PICK m \in Elems(que) \cap On \cap excused : at[m] = tmp[i + 1] /\ flag[m] = "CLOSED"
            BY <1>8 DEF IInv, PutOff
        <3>2. tmp[i + 1] # tmp[1]
            BY <1>2, <1>3, <1>8 DEF Distinct
        <3>. QED
            BY <1>3, <1>4, <1>7, <3>1, <3>2
    <2>3. ASSUME NEW m \in Elems(que') \cap excused
          PROVE  \E i \in 1..Len(tmp') : tmp'[i] = at[m]
        <3>1. PICK i \in 1..Len(tmp) : tmp[i] = at[m]
            BY <1>7 DEF IInv, PutOff
        <3>2. i # 1
            BY <1>2, <1>4, <1>7, <3>1 DEF Addressed
        <3>. QED
            BY <1>9, <3>1, <3>2
    <2>4. pc' = "sweep" /\ at' = at /\ flag' = flag /\ excused' = excused
        BY <1>1
    <2>. QED
        BY <2>1, <2>2, <2>3, <2>4 DEF PutOff
<1>11. TypeOK'
    BY <1>1, <1>3, <1>7 DEF IInv, TypeOK, Used
<1>12. OncePerEmission' /\ Walk' /\ AtRest'
    BY <1>1 DEF IInv, OncePerEmission, Walk, AtRest
<1>13. Left'
    BY <1>1, <1>7 DEF IInv, Left, OncePerEmission
<1>. QED
    BY <1>1, <1>2, <1>4, <1>7, <1>10, <1>11, <1>12, <1>13 DEF IInv, Addressed, Subscribed

LEMMA EmitEndKeeps ==
    ASSUME IInv, EmitEnd
    PROVE  IInv'
<1>1. /\ pc = "sweep" /\ tmp = <<>> /\ pc' = "idle"
      /\ present' = {} /\ called' = [l \in Listeners |-> 0]
      /\ state' = state \ {"USED", "KILL"}
      /\ UNCHANGED <<at, flag, tmp, cur, nxt>>
      /\ \/ que' = <<>> /\ excused' = excused \cup Elems(que)
         \/ UNCHANGED <<que, excused>>
    BY DEF EmitEnd, Forget, Empty
<1>2. Elems(que) \cap excused = {} /\ Len(tmp) = 0
    BY <1>1 DEF IInv, PutOff
<1>3. /\ que \in Seq(Listeners) /\ Distinct(que) /\ Elems(que) \subseteq Listeners
    BY ElemsIndexed DEF IInv, TypeOK
<1>4. /\ que' \in Seq(Listeners) /\ Distinct(que') /\ Elems(que') \subseteq Elems(que)
      /\ excused' \subseteq Listeners /\ Elems(que') \cap excused' = {}
      /\ Elems(que) \ Elems(que') \subseteq excused' /\ excused \subseteq excused'
    <2>1. CASE que' = <<>> /\ excused' = excused \cup Elems(que)
        BY <1>3, <2>1 DEF Elems, Distinct, IInv, TypeOK
    <2>2. CASE UNCHANGED <<que, excused>>
        BY <1>2, <1>3, <2>2 DEF IInv, TypeOK
    <2>. QED
        BY <1>1, <2>1, <2>2
<1>5. TypeOK'
    BY <1>1, <1>3, <1>4 DEF IInv, TypeOK, Used
<1>6. PutOff'
    BY <1>1, <1>2, <1>4 DEF IInv, PutOff
<1>7. Addressed' /\ (Subscribed \ excused \subseteq Elems(que))'
    BY <1>1, <1>4 DEF IInv, Addressed, Subscribed
<1>8. Walk' /\ Left' /\ AtRest' /\ pc' # "sweep"
    BY <1>1 DEF Walk, Left, AtRest
<1>. QED
    BY <1>4, <1>5, <1>6, <1>7, <1>8 DEF IInv

\* Stopping and resuming touch nothing but their bit.
LEMMA PauseKeeps ==
    ASSUME IInv, state' = state \cup {"STOP"} \/ state' = state \ {"STOP"},
           UNCHANGED <<que, at, flag, tmp, cur, nxt, pc, excused, present, called>>
    PROVE  IInv'
<1>1. TypeOK'
    BY DEF IInv, TypeOK, Used
<1>. QED
    BY <1>1 DEF IInv, Distinct, Addressed, PutOff, Walk, WalkAt, Left, AtRest, Subscribed,
                OncePerEmission

-----------------------------------------------------------------------------
(* The theorems.  Disciplined says that off() is called only where the     *)
(* removal is well defined: without it a handle whose node is gone removes *)
(* whoever has its address, or the last listener.                          *)

\* The invariant is inductive.
THEOREM Invariance == Disciplined => (Spec => []IInv)
<1>. SUFFICES ASSUME Disciplined PROVE Spec => []IInv
    OBVIOUS
<1>1. IInv /\ [Next]_vars => IInv'
    <2>. SUFFICES ASSUME IInv, [Next]_vars PROVE IInv'
        OBVIOUS
    <2>1. CASE UNCHANGED vars
        BY <2>1 DEF vars, node, IInv, TypeOK, Used, Distinct, Addressed, PutOff, Walk, WalkAt,
                    Left, AtRest, Subscribed, OncePerEmission
    <2>2. CASE Pause \/ Resume
        BY <2>2, PauseKeeps DEF Pause, Resume, node, hist
    <2>. QED
        BY <2>1, <2>2, SubscribeKeeps, OffKeeps, ClearKeeps, EmitKeeps, CallReturnsKeeps,
           SweepKeeps, EmitEndKeeps DEF Next
<1>. QED
    BY <1>1, InitIInv, PTL DEF Spec

\* Listeners leave the list for a reason of their own only, and all that have
\* one have left when no emission runs.
THEOREM LeavesExactly == Disciplined => (Spec => []LeaveExactly)
<1>1. IInv => LeaveExactly
    <2>. SUFFICES ASSUME IInv PROVE LeaveExactly
        OBVIOUS
    <2>1. pc = "idle" => Len(tmp) = 0
        BY DEF IInv, PutOff
    <2>. QED
        BY <2>1 DEF IInv, PutOff, LeaveExactly
<1>. QED
    BY <1>1, Invariance, PTL

\* Neither node that an emission holds across a callback is freed.
THEOREM WalkSafe == Disciplined => (Spec => []WalkAlive)
<1>1. IInv => WalkAlive
    <2>. SUFFICES ASSUME IInv, pc = "calling"
                  PROVE  cur \in Elems(que) /\ nxt \in Elems(que) \cup {Nil}
        BY DEF WalkAlive
    <2>1. PICK k \in 1..Len(que) : WalkAt(k)
        BY DEF IInv, Walk
    <2>2. que \in Seq(Listeners)
        BY DEF IInv, TypeOK
    <2>3. Len(que) \in Nat /\ \A i \in 1..Len(que) : que[i] \in Elems(que)
        BY <2>2, ElemsIndexed
    <2>4. nxt # Nil => k + 1 \in 1..Len(que)
        BY <2>1, <2>3 DEF WalkAt
    <2>. QED
        BY <2>1, <2>3, <2>4 DEF WalkAt
<1>. QED
    BY <1>1, Invariance, PTL

\* An emission calls each listener it found exactly once.
THEOREM EachOnce == Disciplined => (Spec => []OncePerEmission)
<1>1. IInv => OncePerEmission
    <2>. SUFFICES ASSUME IInv PROVE OncePerEmission
        OBVIOUS
    <2>1. que \in Seq(Listeners)
        BY DEF IInv, TypeOK
    <2>2. CASE pc = "calling"
        <3>1. PICK k \in 1..Len(que) : WalkAt(k)
            BY <2>2 DEF IInv, Walk
        <3>2. \A l \in Elems(que) : called[l] <= 1
            BY <2>1, <3>1, ElemsIndexed DEF WalkAt
        <3>. QED
            BY <2>2, <3>2 DEF IInv, Left, OncePerEmission
    <2>. QED
        BY <2>2 DEF IInv, TypeOK, AtRest, OncePerEmission
<1>. QED
    BY <1>1, Invariance, PTL

-----------------------------------------------------------------------------
(* The observers.                                                          *)

Everyone == Ons \cup Adds

Call == [name : Fields, n : Values, value : Values, cur : Everyone,
         nxt : Everyone \cup {Nil}, done : SUBSET Everyone]

ObTyped ==
    /\ DOMAIN list = Fields \/ (DOMAIN list = {} /\ frames = <<>>)
    /\ DOMAIN list = Fields => list \in [Fields -> Values]
    /\ watchers \in [Fields -> Seq(Everyone)]
    /\ doomed \subseteq Everyone
    /\ told \in [Everyone -> Values \cup {Nil}]
    /\ frames \in Seq(Call)

\* A listener is in the list of one field, once.
Apart ==
    /\ \A f \in Fields : Distinct(watchers[f])
    /\ \A f, g \in Fields : f # g => Elems(watchers[f]) \cap Elems(watchers[g]) = {}

\* A call has a field of its own.  It is at the k-th listener of it: who was
\* told of a value is told of the new one up to there, and of the old one
\* behind it; and when the call will not go on, nobody is behind it.
CallAt(c, q, t, k) ==
    /\ q[k] = c.cur
    /\ \A i \in 1..Len(q) :
          /\ t[q[i]] # Nil => t[q[i]] = IF i <= k THEN c.value ELSE c.n
          /\ i <= k => q[i] \in c.done
          /\ i > k /\ t[q[i]] # Nil => q[i] \notin c.done /\ c.nxt # Nil
    /\ c.nxt # Nil => k < Len(q) /\ q[k + 1] = c.nxt

CallOn(c, q, t) == \E k \in 1..Len(q) : CallAt(c, q, t, k)

CallsOK ==
    /\ \A i, j \in 1..Len(frames) : frames[i].name = frames[j].name => i = j
    /\ \A i \in 1..Len(frames) : CallOn(frames[i], watchers[frames[i].name], told)

Rest(f) ==
    (\A i \in 1..Len(frames) : frames[i].name # f)
        => \A l \in Elems(watchers[f]) : told[l] # Nil => told[l] = list[f]

ObInv ==
    /\ ObTyped /\ Apart /\ CallsOK
    /\ \A f \in DOMAIN list : Rest(f)
    /\ DOMAIN list # Fields => \A f \in Fields : watchers[f] = <<>>

-----------------------------------------------------------------------------
(* The lists of observers.                                                 *)

Told == [Everyone -> Values \cup {Nil}]

LEMMA ObPosition ==
    ASSUME NEW q \in Seq(Everyone), Distinct(q), NEW k \in 1..Len(q)
    PROVE  Obs!Position(q, q[k]) = k
<1>1. DOMAIN q = 1..Len(q)
    BY LenProperties
<1>2. Obs!Position(q, q[k]) \in DOMAIN q /\ q[Obs!Position(q, q[k])] = q[k]
    BY <1>1 DEF Obs!Position
<1>. QED
    BY <1>1, <1>2 DEF Distinct

LEMMA FollowingIs ==
    ASSUME NEW q \in Seq(Everyone), Distinct(q), NEW k \in 1..Len(q)
    PROVE  Obs!Following(q, q[k]) = IF k = Len(q) THEN Nil ELSE q[k + 1]
<1>1. Len(q) \in Nat /\ Len(q) \in 1..Len(q)
    BY LenProperties
<1>2. q[k] = q[Len(q)] <=> k = Len(q)
    BY <1>1 DEF Distinct
<1>. QED
    BY <1>2, ObPosition DEF Obs!Following

LEMMA FollowingType ==
    ASSUME NEW q \in Seq(Everyone), Distinct(q), NEW l \in Elems(q)
    PROVE  Obs!Following(q, l) \in Everyone \cup {Nil}
<1>1. PICK k \in 1..Len(q) : q[k] = l
    BY ElemsIndexed
<1>2. Obs!Following(q, q[k]) = IF k = Len(q) THEN Nil ELSE q[k + 1]
    BY FollowingIs
<1>3. k # Len(q) => k + 1 \in 1..Len(q)
    <2>1. PICK n \in Nat : n = Len(q)
        BY ElemsIndexed
    <2>2. k \in 1..n /\ (k # n => k + 1 \in 1..n)
        BY <2>1
    <2>. QED
        BY <2>1, <2>2
<1>4. k # Len(q) => q[k + 1] \in Everyone
    BY <1>3, ElemsIndexed
<1>. QED
    BY <1>1, <1>2, <1>4

\* A list without the listener at p.
Lacks(w, q, p) ==
    /\ w \in Seq(Everyone) /\ Len(w) = Len(q) - 1
    /\ \A i \in 1..Len(w) : /\ w[i] = IF i < p THEN q[i] ELSE q[i + 1]
                            /\ i \in 1..Len(q) /\ i + 1 \in 1..Len(q)
    /\ Distinct(w)
    /\ Elems(w) \subseteq Elems(q) \ {q[p]}

LEMMA WithoutIs ==
    ASSUME NEW q \in Seq(Everyone), Distinct(q), NEW p \in 1..Len(q),
           NEW w, w = Obs!Without(q, q[p])
    PROVE  Lacks(w, q, p)
<1>. DEFINE n == Len(q) - 1
<1>1. Len(q) \in Nat /\ DOMAIN q = 1..Len(q) /\ q \in [1..Len(q) -> Everyone]
    BY LenProperties
<1>2. Obs!Position(q, q[p]) = p
    BY ObPosition
<1>3. n \in Nat
    BY <1>1
<1>4. w = [i \in 1..n |-> IF i < p THEN q[i] ELSE q[i + 1]]
    BY <1>2 DEF Obs!Without
<1>5. \A i \in 1..n : i \in 1..Len(q) /\ i + 1 \in 1..Len(q)
    BY <1>1, <1>3
<1>6. w \in [1..n -> Everyone]
    BY <1>1, <1>4, <1>5
<1>7. w \in Seq(Everyone) /\ Len(w) = n
    BY <1>3, <1>6, SeqOfFunction
<1>8. Distinct(w)
    <2>. SUFFICES ASSUME NEW i \in 1..n, NEW j \in 1..n, w[i] = w[j]
                  PROVE  i = j
        BY <1>7 DEF Distinct
    <2>. QED
        BY <1>1, <1>3, <1>4, <1>5 DEF Distinct
<1>9. Elems(w) \subseteq Elems(q) \ {q[p]}
    <2>. SUFFICES ASSUME NEW i \in 1..n
                  PROVE  w[i] \in Elems(q) /\ w[i] # q[p]
        BY <1>6 DEF Elems
    <2>1. w[i] = IF i < p THEN q[i] ELSE q[i + 1]
        BY <1>4
    <2>2. PICK j \in 1..Len(q) : j # p /\ w[i] = q[j]
        BY <1>1, <1>3, <1>5, <2>1
    <2>. QED
        BY <1>1, <2>2 DEF Elems, Distinct
<1>. QED
    BY <1>4, <1>5, <1>7, <1>8, <1>9 DEF Lacks

\* The places of some of a list, counted.
Rank(K, i) == Obs!Rank(K, i)

LEMMA SameCardinality == \A S : Obs!Cardinality(S) = Cardinality(S)
    BY DEF Obs!Cardinality, Cardinality

LEMMA Ranked ==
    ASSUME NEW m \in Nat, NEW K \in SUBSET (1..m)
    PROVE  /\ Cardinality(K) \in Nat
           /\ \A i \in K : Rank(K, i) \in 1..Cardinality(K)
           /\ \A k \in 1..Cardinality(K) : \E i \in K : Rank(K, i) = k
<1>. DEFINE n == Cardinality(K)
            Upto(i) == {j \in K : j <= i}
            f == [i \in K |-> Rank(K, i)]
<1>0. \A i : Rank(K, i) = Cardinality(Upto(i))
    BY SameCardinality DEF Rank, Obs!Rank
<1>1. IsFiniteSet(K)
    <2>1. IsFiniteSet(1..m)
        BY FS_Interval
    <2>. QED
        BY <2>1, FS_Subset
<1>2. n \in Nat
    BY <1>1, FS_CardinalityType
<1>3. ASSUME NEW i \in K PROVE Rank(K, i) \in 1..n
    <2>1. IsFiniteSet(Upto(i)) /\ Cardinality(Upto(i)) <= n
        BY <1>1, FS_Subset
    <2>2. Cardinality(Upto(i)) \in Nat
        BY <2>1, FS_CardinalityType
    <2>3. Cardinality(Upto(i)) # 0
        <3>1. i \in Upto(i)
            OBVIOUS
        <3>. HIDE DEF Upto
        <3>. QED
            BY <2>1, <3>1, FS_EmptySet
    <2>. QED
        BY <1>0, <1>2, <2>1, <2>2, <2>3
<1>4. ASSUME NEW i \in K, NEW j \in K, i < j PROVE Rank(K, i) # Rank(K, j)
    <2>1. Upto(i) \in SUBSET Upto(j) /\ j \in Upto(j) /\ j \notin Upto(i)
        <3>1. \A x \in K : x \in Int
            OBVIOUS
        <3>2. \A x \in K : x <= i => x <= j
            BY <1>4, <3>1
        <3>3. j <= j /\ ~(j <= i)
            BY <1>4, <3>1
        <3>. QED
            BY <3>2, <3>3
    <2>2. IsFiniteSet(Upto(j))
        BY <1>1, FS_Subset
    <2>. HIDE DEF Upto
    <2>3. Cardinality(Upto(i)) # Cardinality(Upto(j))
        BY <2>1, <2>2, FS_Subset
    <2>. QED
        BY <1>0, <2>3
<1>5. f \in [K -> 1..n]
    BY <1>3
<1>6. \A i, j \in K : f[i] = f[j] => i = j
    BY <1>4
<1>7. f \in Injection(K, 1..n)
    <2>. HIDE DEF f, n
    <2>. QED
        BY <1>5, <1>6 DEF Injection, IsInjective
<1>8. IsFiniteSet(1..n) /\ Cardinality(1..n) = n
    BY <1>2, FS_Interval
<1>9. f \in Surjection(K, 1..n)
    <2>. HIDE DEF f
    <2>. QED
        BY <1>7, <1>8, FS_Injection
<1>10. \A k \in 1..n : \E i \in K : f[i] = k
    <2>. HIDE DEF f, n
    <2>. QED
        BY <1>9 DEF Surjection
<1>. QED
    BY <1>2, <1>3, <1>10

\* A list without the listeners of a set.
LEMMA PurgedIs ==
    ASSUME NEW q \in Seq(Everyone), Distinct(q), NEW S
    PROVE  LET w == Obs!Purged(q, S) IN
           w \in Seq(Everyone) /\ Distinct(w) /\ Elems(w) \subseteq Elems(q)
<1>. DEFINE K == Obs!Kept(q, S)
            n == Cardinality(K)
            At(k) == CHOOSE i \in K : Rank(K, i) = k
            w == Obs!Purged(q, S)
<1>1. Len(q) \in Nat /\ DOMAIN q = 1..Len(q) /\ q \in [1..Len(q) -> Everyone]
    BY LenProperties
<1>2. w = [k \in 1..n |-> q[At(k)]]
    BY SameCardinality DEF Obs!Purged, Rank
<1>3. n \in Nat /\ \A k \in 1..n : \E i \in K : Rank(K, i) = k
    <2>1. K \in SUBSET (1..Len(q))
        BY <1>1 DEF Obs!Kept
    <2>. HIDE DEF K
    <2>. QED
        BY <1>1, <2>1, Ranked
<1>4. \A k \in 1..n : At(k) \in K /\ Rank(K, At(k)) = k
    <2>. HIDE DEF K
    <2>. QED
        BY <1>3
<1>5. \A k \in 1..n : At(k) \in 1..Len(q)
    BY <1>1, <1>4 DEF Obs!Kept
<1>. HIDE DEF n, At
<1>6. w \in [1..n -> Everyone] /\ \A k \in 1..n : w[k] = q[At(k)]
    BY <1>1, <1>2, <1>5
<1>7. w \in Seq(Everyone) /\ Len(w) = n
    BY <1>3, <1>6, SeqOfFunction
<1>. HIDE DEF w, K
<1>8. Distinct(w)
    <2>. SUFFICES ASSUME NEW i \in 1..n, NEW j \in 1..n, w[i] = w[j]
                  PROVE  i = j
        BY <1>7 DEF Distinct
    <2>1. At(i) = At(j)
        BY <1>5, <1>6 DEF Distinct
    <2>. QED
        BY <1>4, <2>1
<1>9. Elems(w) \subseteq Elems(q)
    BY <1>1, <1>5, <1>6 DEF Elems
<1>. QED
    BY <1>7, <1>8, <1>9 DEF w

-----------------------------------------------------------------------------
(* A call of set().                                                        *)

LEMMA CallKept ==
    ASSUME NEW c, NEW q \in Seq(Everyone), NEW t, NEW u, CallOn(c, q, t),
           \A l \in Elems(q) : u[l] = t[l]
    PROVE  CallOn(c, q, u)
<1>1. \A i \in 1..Len(q) : u[q[i]] = t[q[i]]
    BY ElemsIndexed
<1>. QED
    BY <1>1 DEF CallOn, CallAt

\* A listener that joins has not been told of anything.
LEMMA CallJoined ==
    ASSUME NEW c, NEW q \in Seq(Everyone), NEW t \in Told, CallOn(c, q, t),
           NEW l \in Everyone, l \notin Elems(q), Distinct(q)
    PROVE  CallOn(c, Append(q, l), [t EXCEPT ![l] = Nil])
<1>. DEFINE r == Append(q, l)
            u == [t EXCEPT ![l] = Nil]
<1>1. PICK k \in 1..Len(q) : CallAt(c, q, t, k)
    BY DEF CallOn
<1>2. /\ r \in Seq(Everyone) /\ Len(r) = Len(q) + 1 /\ Len(q) \in Nat
      /\ \A i \in 1..Len(q) : r[i] = q[i] /\ q[i] # l /\ q[i] \in Everyone
      /\ r[Len(q) + 1] = l
    BY AppendedProperties, ElemsIndexed
<1>. HIDE DEF r
<1>3. \A i \in 1..Len(q) : u[r[i]] = t[q[i]]
    BY <1>2 DEF Told
<1>4. u[r[Len(q) + 1]] = Nil
    BY <1>2 DEF Told
<1>. HIDE DEF u
<1>5. k \in 1..Len(r) /\ r[k] = c.cur /\ k <= Len(q)
    BY <1>1, <1>2 DEF CallAt
<1>6. ASSUME NEW i \in 1..Len(r)
      PROVE  /\ u[r[i]] # Nil => u[r[i]] = IF i <= k THEN c.value ELSE c.n
             /\ i <= k => r[i] \in c.done
             /\ i > k /\ u[r[i]] # Nil => r[i] \notin c.done /\ c.nxt # Nil
    <2>1. CASE i \in 1..Len(q)
        BY <1>1, <1>2, <1>3, <2>1 DEF CallAt
    <2>2. CASE i = Len(q) + 1
        BY <1>1, <1>2, <1>4, <1>5, <2>2
    <2>. QED
        BY <1>2, <2>1, <2>2
<1>7. c.nxt # Nil => k < Len(r) /\ r[k + 1] = c.nxt
    <2>1. c.nxt # Nil => k < Len(q) /\ q[k + 1] = c.nxt /\ k + 1 \in 1..Len(q)
        BY <1>1, <1>2 DEF CallAt
    <2>. QED
        BY <1>2, <2>1
<1>. QED
    BY <1>5, <1>6, <1>7 DEF CallOn, CallAt, r, u

\* The first of the list is told; nobody behind it knows the new value.
LEMMA CallBegins ==
    ASSUME NEW c, NEW q \in Seq(Everyone), q # <<>>, Distinct(q), NEW t \in Told,
           \A l \in Elems(q) : t[l] # Nil => t[l] = c.n,
           c.cur = q[1], c.done = {q[1]}, c.nxt = Obs!Following(q, q[1])
    PROVE  CallOn(c, q, [t EXCEPT ![q[1]] = c.value])
<1>. DEFINE u == [t EXCEPT ![q[1]] = c.value]
<1>1. Len(q) \in Nat /\ Len(q) # 0 /\ 1 \in 1..Len(q) /\ \A i \in 1..Len(q) : q[i] \in Everyone
    BY ElemsIndexed, FirstIndices
<1>2. c.nxt = IF 1 = Len(q) THEN Nil ELSE q[2]
    <2>1. Obs!Following(q, q[1]) = IF 1 = Len(q) THEN Nil ELSE q[1 + 1]
        BY <1>1, FollowingIs
    <2>. QED
        BY <2>1
<1>3. \A i \in 1..Len(q) : i # 1 => q[i] # q[1]
    BY <1>1 DEF Distinct
<1>4. u[q[1]] = c.value /\ \A i \in 1..Len(q) : i # 1 => u[q[i]] = t[q[i]]
    BY <1>1, <1>3 DEF Told
<1>5. \A i \in 1..Len(q) : t[q[i]] # Nil => t[q[i]] = c.n
    BY ElemsIndexed
<1>6. c.nxt # Nil => 1 < Len(q) /\ q[1 + 1] = c.nxt
    <2>1. c.nxt # Nil => Len(q) # 1 /\ c.nxt = q[2]
        BY <1>2
    <2>2. Len(q) # 1 => 1 < Len(q)
        <3>1. PICK n \in Nat : n = Len(q)
            BY <1>1
        <3>2. n # 0
            BY <1>1, <3>1
        <3>3. n # 1 => 1 < n
            BY <3>2
        <3>. QED
            BY <3>1, <3>3
    <2>3. q[1 + 1] = q[2]
        OBVIOUS
    <2>. QED
        BY <2>1, <2>2, <2>3
<1>7. \A i \in 1..Len(q) : i > 1 => c.nxt = q[2] /\ 2 \in 1..Len(q)
    BY <1>1, <1>2
<1>8. c.nxt = Nil => \A i \in 1..Len(q) : ~(i > 1)
    <2>1. \A i \in 1..Len(q) : i > 1 => q[2] # Nil
        BY <1>1, <1>7, ObserversAssumption DEF Everyone
    <2>. QED
        BY <1>7, <2>1
<1>. HIDE DEF u
<1>9. ASSUME NEW i \in 1..Len(q)
      PROVE  /\ u[q[i]] # Nil => u[q[i]] = IF i <= 1 THEN c.value ELSE c.n
             /\ i <= 1 => q[i] \in c.done
             /\ i > 1 /\ u[q[i]] # Nil => q[i] \notin c.done /\ c.nxt # Nil
    <2>1. i = 1 \/ (i > 1 /\ i # 1)
        BY <1>1
    <2>. QED
        BY <2>1, <1>3, <1>4, <1>5, <1>8
<1>. QED
    BY <1>1, <1>6, <1>9 DEF CallOn, CallAt, u

\* The next is told; the one that was told before may leave.
LEMMA CallMoves ==
    ASSUME NEW c, NEW q \in Seq(Everyone), Distinct(q), NEW t \in Told, CallOn(c, q, t),
           c.nxt # Nil, NEW r, r = q \/ r = Obs!Without(q, c.cur),
           NEW d, d.cur = c.nxt, d.nxt = Obs!Following(r, c.nxt), d.n = c.n,
           d.value = c.value, d.done = c.done \cup {c.nxt}
    PROVE  /\ r \in Seq(Everyone) /\ Distinct(r) /\ Elems(r) \subseteq Elems(q)
           /\ c.nxt \in Elems(r)
           /\ CallOn(d, r, [t EXCEPT ![c.nxt] = c.value])
<1>. DEFINE u == [t EXCEPT ![c.nxt] = c.value]
<1>1. PICK k \in 1..Len(q) : CallAt(c, q, t, k)
    BY DEF CallOn
<1>2. /\ Len(q) \in Nat /\ k + 1 \in 1..Len(q) /\ c.nxt = q[k + 1] /\ c.cur = q[k]
      /\ c.nxt \in Everyone /\ \A i \in 1..Len(q) : q[i] \in Everyone /\ q[i] \in Elems(q)
    BY <1>1, ElemsIndexed DEF CallAt
<1>3. \A i \in 1..Len(q) : q[i] = c.nxt => i = k + 1
    BY <1>2 DEF Distinct
<1>4. u[c.nxt] = c.value /\ \A i \in 1..Len(q) : i # k + 1 => u[q[i]] = t[q[i]]
    BY <1>2, <1>3 DEF Told
<1>. HIDE DEF u
\* The place i of r is the place From(i) of q, and the next one is at m of it.
<1>5. PICK m \in 1..Len(r) :
        /\ r \in Seq(Everyone) /\ Distinct(r) /\ Elems(r) \subseteq Elems(q) /\ Len(r) \in Nat
        /\ r[m] = c.nxt
        /\ \A i \in 1..Len(r) : \E j \in 1..Len(q) :
              r[i] = q[j] /\ (i <= m <=> j <= k + 1) /\ (i = m <=> j = k + 1)
    <2>1. CASE r = q
        <3>1. \A i \in 1..Len(r) : \E j \in 1..Len(q) :
                r[i] = q[j] /\ (i <= k + 1 <=> j <= k + 1) /\ (i = k + 1 <=> j = k + 1)
            BY <2>1
        <3>. QED
            BY <1>2, <2>1, <3>1
    <2>2. CASE r = Obs!Without(q, c.cur)
        <3>1. /\ r \in Seq(Everyone) /\ Len(r) = Len(q) - 1
              /\ \A i \in 1..Len(r) : /\ r[i] = IF i < k THEN q[i] ELSE q[i + 1]
                                      /\ i \in 1..Len(q) /\ i + 1 \in 1..Len(q)
              /\ Distinct(r) /\ Elems(r) \subseteq Elems(q)
            <4>1. r = Obs!Without(q, q[k])
                BY <1>2, <2>2
            <4>2. Lacks(r, q, k)
                BY ONLY <4>1, q \in Seq(Everyone), Distinct(q), k \in 1..Len(q), WithoutIs
            <4>. QED
                BY ONLY <4>2 DEF Lacks
        <3>2. k \in 1..Len(r) /\ r[k] = c.nxt /\ Len(r) \in Nat
            <4>1. k \in 1..Len(r) /\ Len(r) \in Nat
                BY <1>2, <3>1
            <4>2. r[k] = q[k + 1]
                BY <3>1, <4>1
            <4>. QED
                BY <1>2, <4>1, <4>2
        <3>3. ASSUME NEW i \in 1..Len(r)
              PROVE  \E j \in 1..Len(q) :
                        r[i] = q[j] /\ (i <= k <=> j <= k + 1) /\ (i = k <=> j = k + 1)
            <4>1. CASE i < k
                <5>1. i \in 1..Len(q) /\ r[i] = q[i] /\ i <= k /\ i <= k + 1 /\ i # k /\ i # k + 1
                    BY <1>2, <3>1, <4>1
                <5>. QED
                    BY <5>1
            <4>2. CASE ~(i < k)
                <5>1. i + 1 \in 1..Len(q) /\ r[i] = q[i + 1] /\ (i <= k <=> i + 1 <= k + 1) /\ (i = k <=> i + 1 = k + 1)
                    BY <1>2, <3>1, <4>2
                <5>. QED
                    BY <5>1
            <4>. QED
                BY <4>1, <4>2
        <3>. QED
            BY <3>1, <3>2, <3>3
    <2>. QED
        BY <2>1, <2>2
<1>6. d.nxt = IF m = Len(r) THEN Nil ELSE r[m + 1]
    BY <1>5, FollowingIs
<1>7. \A i \in 1..Len(r) : i > m => m + 1 \in 1..Len(r)
    BY <1>5
<1>8. \A i \in 1..Len(r) : i > m => d.nxt # Nil
    <2>1. \A i \in 1..Len(r) : i > m => d.nxt = r[m + 1]
        BY <1>5, <1>6
    <2>2. \A i \in 1..Len(r) : r[i] # Nil
        <3>1. \A i \in 1..Len(r) : r[i] \in Everyone
            BY <1>5, ElemsIndexed
        <3>. QED
            BY <3>1, ObserversAssumption DEF Everyone
    <2>. QED
        BY <1>7, <2>1, <2>2
<1>9. d.nxt # Nil => m < Len(r) /\ r[m + 1] = d.nxt
    BY <1>5, <1>6
<1>10. ASSUME NEW i \in 1..Len(r)
       PROVE  /\ u[r[i]] # Nil => u[r[i]] = IF i <= m THEN d.value ELSE d.n
              /\ i <= m => r[i] \in d.done
              /\ i > m /\ u[r[i]] # Nil => r[i] \notin d.done /\ d.nxt # Nil
    <2>1. PICK j \in 1..Len(q) : r[i] = q[j] /\ (i <= m <=> j <= k + 1) /\ (i = m <=> j = k + 1)
        BY <1>5
    <2>2. CASE j = k + 1
        BY <1>2, <1>4, <2>1, <2>2, <1>5
    <2>3. CASE j # k + 1 /\ j <= k
        <3>3. i <= m /\ ~(i > m)
            BY <1>2, <1>5, <2>1, <2>3
        <3>4. u[r[i]] = t[q[j]]
            BY <1>4, <2>1, <2>3
        <3>5. q[j] \in c.done
            BY <1>1, <2>3 DEF CallAt
        <3>1. i <= m /\ ~(i > m) /\ u[r[i]] = t[q[j]] /\ d.value = c.value /\ q[j] \in c.done
            BY <3>3, <3>4, <3>5
        <3>2. t[q[j]] # Nil => t[q[j]] = c.value
            BY <1>1, <2>3 DEF CallAt
        <3>. QED
            BY <2>1, <3>1, <3>2
    <2>4. CASE j # k + 1 /\ ~(j <= k)
        <3>1. i > m /\ j > k /\ ~(i <= m) /\ q[j] # c.nxt
            <4>1. j \in Nat /\ k \in Nat /\ i \in Nat /\ m \in Nat
                BY <1>2, <1>5
            <4>2. j > k /\ ~(j <= k + 1)
                BY <2>4, <4>1
            <4>3. ~(i <= m) /\ i > m
                BY <2>1, <4>1, <4>2
            <4>. QED
                BY <1>3, <2>4, <4>2, <4>3
        <3>2. u[r[i]] = t[q[j]]
            BY <1>4, <2>1, <2>4
        <3>3. t[q[j]] # Nil => t[q[j]] = c.n /\ q[j] \notin c.done
            BY <1>1, <2>4 DEF CallAt
        <3>. QED
            BY <1>8, <2>1, <3>1, <3>2, <3>3
    <2>. QED
        BY <1>2, <2>2, <2>3, <2>4
<1>11. CallAt(d, r, u, m)
    BY <1>5, <1>9, <1>10 DEF CallAt
<1>12. c.nxt \in Elems(r)
    BY <1>5, ElemsIndexed
<1>. QED
    BY <1>5, <1>11, <1>12 DEF CallOn, u

\* When a call is over, whoever was told of anything was told of its value.
LEMMA CallOver ==
    ASSUME NEW c, NEW q \in Seq(Everyone), NEW t, CallOn(c, q, t), c.nxt = Nil
    PROVE  \A l \in Elems(q) : t[l] # Nil => t[l] = c.value
<1>1. PICK k \in 1..Len(q) : CallAt(c, q, t, k)
    BY DEF CallOn
<1>2. Len(q) \in Nat /\ \A l \in Elems(q) : \E i \in 1..Len(q) : q[i] = l
    BY ElemsIndexed
<1>3. \A i \in 1..Len(q) : t[q[i]] # Nil => i <= k /\ t[q[i]] = c.value
    BY <1>1, <1>2 DEF CallAt
<1>. QED
    BY <1>2, <1>3

-----------------------------------------------------------------------------
(* The steps of observers.                                                 *)

LEMMA ObSame == \A q : Obs!ToSet(q) = Elems(q)
    BY DEF Obs!ToSet, Elems

\* A field's list, told and one listener of it.
LEMMA ObTypes ==
    ASSUME ObInv
    PROVE  /\ \A f \in Fields : watchers[f] \in Seq(Everyone) /\ Distinct(watchers[f])
           /\ \A f \in Fields : Elems(watchers[f]) \subseteq Everyone
           /\ told \in Told
           /\ Len(frames) \in Nat /\ DOMAIN frames = 1..Len(frames)
           /\ \A i \in 1..Len(frames) : frames[i] \in Call
           /\ \A f \in Fields : Obs!Used(f) <=> \E i \in 1..Len(frames) : frames[i].name = f
<1>1. \A f \in Fields : watchers[f] \in Seq(Everyone) /\ Distinct(watchers[f])
    BY DEF ObInv, ObTyped, Apart
<1>2. frames \in Seq(Call) /\ told \in Told
    BY DEF ObInv, ObTyped, Told
<1>3. Len(frames) \in Nat /\ DOMAIN frames = 1..Len(frames) /\ \A i \in 1..Len(frames) : frames[i] \in Call
    BY <1>2, ElemsIndexed
<1>. QED
    BY <1>1, <1>2, <1>3, ElemsIndexed DEF Obs!Used

\* What changes in the list of one field and of one listener that is in no
\* other leaves the other fields alone.
LEMMA OthersKept ==
    ASSUME ObInv, NEW f \in Fields,
           \A g \in Fields : g # f => watchers'[g] = watchers[g],
           NEW l, \A m \in Everyone : m # l => told'[m] = told[m],
           \A g \in Fields : g # f => l \notin Elems(watchers[g])
    PROVE  /\ \A c \in Call : c.name # f /\ CallOn(c, watchers[c.name], told)
                                => CallOn(c, watchers'[c.name], told')
           /\ \A g \in Fields : g # f => \A m \in Elems(watchers'[g]) : told'[m] = told[m]
<1>1. \A g \in Fields : g # f => \A m \in Elems(watchers[g]) : told'[m] = told[m]
    BY ObTypes
<1>2. ASSUME NEW c \in Call, c.name # f, CallOn(c, watchers[c.name], told)
      PROVE  CallOn(c, watchers'[c.name], told')
    <2>1. c.name \in Fields
        BY DEF Call
    <2>2. watchers[c.name] \in Seq(Everyone) /\ watchers'[c.name] = watchers[c.name]
        BY <1>2, <2>1, ObTypes
    <2>3. \A m \in Elems(watchers[c.name]) : told'[m] = told[m]
        BY <1>1, <1>2, <2>1
    <2>4. CallOn(c, watchers[c.name], told')
        BY <1>2, <2>2, <2>3, CallKept
    <2>. QED
        BY <2>2, <2>4
<1>. QED
    BY <1>1, <1>2

LEMMA ApartKept ==
    ASSUME ObInv, NEW f \in Fields, NEW r \in Seq(Everyone), Distinct(r),
           watchers' = [watchers EXCEPT ![f] = r],
           \A g \in Fields : g # f => Elems(r) \cap Elems(watchers[g]) = {}
    PROVE  Apart' /\ watchers' \in [Fields -> Seq(Everyone)]
<1>1. watchers \in [Fields -> Seq(Everyone)]
    BY DEF ObInv, ObTyped
<1>2. watchers' \in [Fields -> Seq(Everyone)]
    BY <1>1
<1>3. \A g \in Fields : watchers'[g] = IF g = f THEN r ELSE watchers[g]
    BY <1>1
<1>4. \A g \in Fields : Distinct(watchers'[g])
    BY <1>3 DEF ObInv, Apart
<1>5. \A g, h \in Fields : g # h => Elems(watchers'[g]) \cap Elems(watchers'[h]) = {}
    BY <1>3 DEF ObInv, Apart
<1>. QED
    BY <1>2, <1>4, <1>5 DEF Apart

LEMMA WatchKeeps ==
    ASSUME ObInv, NEW l \in Everyone, NEW f \in Fields, Obs!Watch(l, f)
    PROVE  ObInv'
<1>. DEFINE q == watchers[f]
            r == Append(q, l)
<1>1. /\ f \in DOMAIN list /\ watchers' = [watchers EXCEPT ![f] = r]
      /\ told' = [told EXCEPT ![l] = Nil] /\ UNCHANGED <<list, doomed, frames>>
    BY DEF Obs!Watch
<1>2. \A g \in Fields : l \notin Elems(watchers[g])
    BY ObSame DEF Obs!Watch, Obs!Field
<1>3. q \in Seq(Everyone) /\ Distinct(q) /\ told \in Told
    BY ObTypes
<1>4. r \in Seq(Everyone) /\ Distinct(r) /\ Elems(r) = Elems(q) \cup {l}
    BY <1>2, <1>3, AppendedProperties
<1>5. Apart' /\ watchers' \in [Fields -> Seq(Everyone)]
    <2>1. \A g \in Fields : g # f => Elems(r) \cap Elems(watchers[g]) = {}
        BY <1>2, <1>4 DEF ObInv, Apart
    <2>. HIDE DEF r
    <2>. QED
        BY <1>1, <1>4, <2>1, ApartKept
<1>6. told' \in Told /\ told'[l] = Nil /\ \A m \in Everyone : m # l => told'[m] = told[m]
    BY <1>1, <1>3 DEF Told
<1>7. watchers'[f] = r /\ \A g \in Fields : g # f => watchers'[g] = watchers[g]
    BY <1>1 DEF ObInv, ObTyped
<1>8. /\ \A c \in Call : c.name # f /\ CallOn(c, watchers[c.name], told)
                                => CallOn(c, watchers'[c.name], told')
      /\ \A g \in Fields : g # f => \A m \in Elems(watchers'[g]) : told'[m] = told[m]
    BY <1>2, <1>6, <1>7, OthersKept
<1>9. CallsOK'
    <2>1. ASSUME NEW i \in 1..Len(frames)
          PROVE  CallOn(frames[i], watchers'[frames[i].name], told')
        <3>1. frames[i] \in Call /\ CallOn(frames[i], watchers[frames[i].name], told)
            BY ObTypes DEF ObInv, CallsOK
        <3>2. CASE frames[i].name = f
            <4>1. CallOn(frames[i], q, told)
                BY <3>1, <3>2
            <4>2. CallOn(frames[i], Append(q, l), [told EXCEPT ![l] = Nil])
                BY <1>2, <1>3, <4>1, CallJoined
            <4>. QED
                BY <1>1, <1>7, <3>2, <4>2
        <3>. QED
            BY <1>8, <3>1, <3>2
    <2>. QED
        BY <1>1, <2>1 DEF ObInv, CallsOK
<1>10. \A g \in DOMAIN list' : Rest(g)'
    <2>1. ASSUME NEW g \in DOMAIN list PROVE Rest(g)'
        <3>1. g \in Fields /\ Rest(g)
            BY DEF ObInv, ObTyped
        <3>2. CASE g = f
            BY <1>1, <1>4, <1>6, <1>7, <3>1, <3>2, ObTypes DEF Rest
        <3>3. CASE g # f
            BY <1>1, <1>7, <1>8, <3>1, <3>3 DEF Rest
        <3>. QED
            BY <3>2, <3>3
    <2>. QED
        BY <1>1, <2>1
<1>11. ObTyped'
    BY <1>1, <1>5, <1>6 DEF ObInv, ObTyped, Told
<1>12. DOMAIN list = Fields
    BY <1>1 DEF ObInv, ObTyped
<1>. QED
    BY <1>1, <1>5, <1>9, <1>10, <1>11, <1>12 DEF ObInv

LEMMA OffKeepsOb ==
    ASSUME ObInv, NEW l \in Everyone, Obs!Off(l)
    PROVE  ObInv'
<1>1. PICK f \in Fields :
        /\ l \in Elems(watchers[f]) /\ UNCHANGED <<list, frames, told>>
        /\ \/ Obs!Used(f) /\ l \in Ons /\ doomed' = doomed \cup {l} /\ UNCHANGED watchers
           \/ /\ ~Obs!Used(f) /\ UNCHANGED doomed
              /\ watchers' = [watchers EXCEPT ![f] = Obs!Without(watchers[f], l)]
    BY ObSame DEF Obs!Off, Obs!Field
<1>2. CASE UNCHANGED watchers /\ doomed' \subseteq Everyone
    BY <1>1, <1>2 DEF ObInv, ObTyped, Apart, CallsOK, Rest
<1>3. CASE /\ ~Obs!Used(f) /\ UNCHANGED doomed
           /\ watchers' = [watchers EXCEPT ![f] = Obs!Without(watchers[f], l)]
    <2>. DEFINE q == watchers[f]
                r == Obs!Without(q, l)
    <2>1. q \in Seq(Everyone) /\ Distinct(q)
        BY ObTypes
    <2>2. PICK p \in 1..Len(q) : q[p] = l
        BY <1>1, <2>1, ElemsIndexed
    <2>3. r \in Seq(Everyone) /\ Distinct(r) /\ Elems(r) \subseteq Elems(q)
        BY <2>1, <2>2, WithoutIs DEF Lacks
    <2>4. Apart' /\ watchers' \in [Fields -> Seq(Everyone)]
        <3>1. \A g \in Fields : g # f => Elems(r) \cap Elems(watchers[g]) = {}
            BY <2>3 DEF ObInv, Apart
        <3>2. watchers' = [watchers EXCEPT ![f] = r]
            BY <1>3
        <3>. HIDE DEF r
        <3>. QED
            BY <2>3, <3>1, <3>2, ApartKept
    <2>5. watchers'[f] = r /\ \A g \in Fields : g # f => watchers'[g] = watchers[g]
        BY <1>3 DEF ObInv, ObTyped
    <2>6. \A i \in 1..Len(frames) : frames[i].name # f /\ frames[i].name \in Fields
        BY <1>3, ObTypes DEF Call
    <2>7. CallsOK'
        BY <1>1, <2>5, <2>6 DEF ObInv, CallsOK
    <2>8. \A g \in Fields : Elems(watchers'[g]) \subseteq Elems(watchers[g])
        BY <2>3, <2>5
    <2>9. \A g \in DOMAIN list' : Rest(g)'
        <3>1. \A g \in DOMAIN list : g \in Fields /\ Rest(g)
            BY DEF ObInv, ObTyped
        <3>. QED
            BY <1>1, <2>8, <3>1 DEF Rest
    <2>10. DOMAIN list = Fields
        BY <1>1, <2>1, ElemsIndexed DEF ObInv
    <2>. QED
        BY <1>1, <1>3, <2>4, <2>7, <2>9, <2>10 DEF ObInv, ObTyped
<1>. QED
    BY <1>1, <1>2, <1>3 DEF ObInv, ObTyped, Everyone

LEMMA ClearKeepsOb ==
    ASSUME ObInv, Obs!Clear
    PROVE  ObInv'
<1>1. /\ frames = <<>> /\ UNCHANGED <<doomed, frames, told>>
      /\ list' = [f \in {} |-> Nil] /\ watchers' = [f \in Fields |-> <<>>]
    BY DEF Obs!Clear
<1>2. DOMAIN list' = {} /\ Len(frames') = 0
    BY <1>1
<1>3. <<>> \in Seq(Everyone) /\ Distinct(<<>>) /\ Elems(<<>>) = {}
    BY DEF Distinct, Elems
<1>4. \A f \in Fields : watchers'[f] = <<>>
    BY <1>1
<1>5. ObTyped'
    <2>1. watchers' \in [Fields -> Seq(Everyone)]
        BY <1>1, <1>3
    <2>2. DOMAIN list' = Fields => list' \in [Fields -> Values]
        BY <1>1, <1>2
    <2>. QED
        BY <1>1, <1>2, <2>1, <2>2 DEF ObInv, ObTyped
<1>6. Apart'
    BY <1>3, <1>4 DEF Apart
<1>7. CallsOK'
    BY <1>2 DEF CallsOK
<1>. QED
    BY <1>2, <1>4, <1>5, <1>6, <1>7 DEF ObInv

LEMMA SetKeepsOb ==
    ASSUME ObInv, NEW f \in Fields, NEW v \in Values, Obs!Set(f, v)
    PROVE  ObInv'
<1>. DEFINE q == watchers[f]
<1>1. f \in DOMAIN list /\ UNCHANGED <<watchers, doomed>>
    BY DEF Obs!Set
<1>2. DOMAIN list = Fields /\ list \in [Fields -> Values]
    BY <1>1 DEF ObInv, ObTyped
<1>3. CASE Obs!Silent(f)
    <2>1. list' = [list EXCEPT ![f] = v] /\ UNCHANGED <<frames, told>>
        BY <1>3 DEF Obs!Set, Obs!Store
    <2>2. list' \in [Fields -> Values] /\ \A g \in Fields : g # f => list'[g] = list[g]
        BY <1>2, <2>1
    <2>3. ASSUME NEW g \in Fields PROVE Rest(g)'
        <3>1. Rest(g)
            BY <1>2 DEF ObInv
        <3>2. CASE g = f
            <4>1. Obs!Used(f) \/ Elems(q) = {}
                BY <1>3 DEF Obs!Silent, Elems
            <4>. QED
                BY <1>1, <2>1, <3>2, <4>1, ObTypes DEF Rest
        <3>. QED
            BY <1>1, <2>1, <2>2, <3>1, <3>2 DEF Rest
    <2>4. ObTyped' /\ Apart' /\ CallsOK' /\ DOMAIN list' = Fields
        BY <1>1, <2>1, <2>2 DEF ObInv, ObTyped, Apart, CallsOK
    <2>. QED
        BY <2>3, <2>4 DEF ObInv
<1>4. CASE ~Obs!Silent(f)
    <2>. DEFINE c == Obs!Frame(f, v, q[1])
                l == q[1]
    <2>1. /\ frames' = Append(frames, c) /\ told' = [told EXCEPT ![l] = v] /\ UNCHANGED list
          /\ ~Obs!Used(f) /\ q # <<>>
        BY <1>4 DEF Obs!Set, Obs!Silent
    <2>2. q \in Seq(Everyone) /\ Distinct(q) /\ told \in Told
        BY ObTypes
    <2>3. Len(q) \in Nat /\ 1 \in 1..Len(q) /\ l \in Elems(q) /\ l \in Everyone
        BY <2>1, <2>2, ElemsIndexed, FirstIndices
    <2>4. /\ c.name = f /\ c.n = list[f] /\ c.value = v /\ c.cur = l /\ c.done = {l}
          /\ c.nxt = Obs!Following(q, l)
        BY DEF Obs!Frame
    <2>5. c \in Call
        <3>1. Obs!Following(q, l) \in Everyone \cup {Nil}
            BY <2>2, <2>3, FollowingType
        <3>. QED
            BY <1>2, <2>3, <3>1 DEF Obs!Frame, Call
    <2>. HIDE DEF c
    <2>6. told' \in Told /\ \A m \in Everyone : m # l => told'[m] = told[m]
        BY <2>1, <2>2 DEF Told
    <2>7. \A g \in Fields : g # f => l \notin Elems(watchers[g])
        BY <2>3 DEF ObInv, Apart
    <2>8. /\ \A d \in Call : d.name # f /\ CallOn(d, watchers[d.name], told)
                                => CallOn(d, watchers'[d.name], told')
          /\ \A g \in Fields : g # f => \A m \in Elems(watchers'[g]) : told'[m] = told[m]
        BY <1>1, <2>6, <2>7, OthersKept
    <2>9. CallOn(c, watchers'[f], told')
        <3>1. \A m \in Elems(q) : told[m] # Nil => told[m] = c.n
            BY <1>2, <2>1, <2>4, ObTypes DEF ObInv, Rest
        <3>2. CallOn(c, q, [told EXCEPT ![q[1]] = c.value])
            BY <2>1, <2>2, <2>4, <3>1, CallBegins
        <3>. QED
            BY <1>1, <2>1, <2>4, <3>2
    <2>10. /\ frames' \in Seq(Call) /\ Len(frames') = Len(frames) + 1 /\ Len(frames) \in Nat
           /\ \A i \in 1..Len(frames) : frames'[i] = frames[i] /\ frames[i].name # f /\ frames[i] \in Call
           /\ frames'[Len(frames) + 1] = c
        BY <2>1, <2>5, ObTypes, AppendProperties DEF ObInv, ObTyped
    <2>11. \A i \in 1..Len(frames') : i \in 1..Len(frames) \/ i = Len(frames) + 1
        BY <2>10
    <2>12. CallsOK'
        <3>1. ASSUME NEW i \in 1..Len(frames')
              PROVE  CallOn(frames'[i], watchers'[frames'[i].name], told')
            <4>1. CASE i \in 1..Len(frames)
                BY <2>8, <2>10, <4>1 DEF ObInv, CallsOK
            <4>. QED
                BY <2>4, <2>9, <2>10, <2>11, <4>1
        <3>2. ASSUME NEW i \in 1..Len(frames'), NEW j \in 1..Len(frames'),
                     frames'[i].name = frames'[j].name
              PROVE  i = j
            BY <2>4, <2>10, <2>11, <3>2 DEF ObInv, CallsOK
        <3>. QED
            BY <3>1, <3>2 DEF CallsOK
    <2>13. ASSUME NEW g \in Fields PROVE Rest(g)'
        <3>1. Rest(g)
            BY <1>2 DEF ObInv
        <3>2. CASE g = f
            <4>1. \E i \in 1..Len(frames') : frames'[i].name = f
                <5>1. Len(frames) + 1 \in 1..Len(frames')
                    BY <2>10
                <5>. QED
                    BY <2>4, <2>10, <5>1
            <4>. QED
                BY <3>2, <4>1 DEF Rest
        <3>3. CASE g # f
            <4>1. \A i \in 1..Len(frames) : i \in 1..Len(frames')
                BY <2>10
            <4>. QED
                BY <1>1, <2>1, <2>8, <2>10, <3>1, <3>3, <4>1 DEF Rest
        <3>. QED
            BY <3>2, <3>3
    <2>14. ObTyped' /\ Apart'
        BY <1>1, <1>2, <2>1, <2>6, <2>10 DEF ObInv, ObTyped, Told, Apart
    <2>. QED
        BY <1>2, <2>1, <2>12, <2>13, <2>14 DEF ObInv
<1>. QED
    BY <1>3, <1>4

\* A listener has answered, and the next one is told.
LEMMA MovesKeepsOb ==
    ASSUME ObInv, frames # <<>>, NEW r,
           r = watchers[Obs!Top.name] \/ r = Obs!Without(watchers[Obs!Top.name], Obs!Top.cur),
           Obs!Top.nxt # Nil, Obs!Next_(r)
    PROVE  ObInv'
<1>. DEFINE n == Len(frames)
            c == frames[n]
            f == c.name
            q == watchers[f]
<1>1. PICK d : /\ d = [c EXCEPT !.cur = c.nxt, !.nxt = Obs!Following(r, c.nxt),
                                !.done = @ \cup {c.nxt}]
               /\ frames' = [frames EXCEPT ![n] = d]
    <2>1. frames' = [frames EXCEPT ![n] =
              [c EXCEPT !.cur = c.nxt, !.nxt = Obs!Following(r, c.nxt), !.done = @ \cup {c.nxt}]]
        BY DEF Obs!Next_, Obs!Top
    <2>. QED
        BY <2>1
<1>2. /\ watchers' = [watchers EXCEPT ![f] = r] /\ UNCHANGED <<list, doomed>>
      /\ told' = [told EXCEPT ![c.nxt] = c.value] /\ c.nxt # Nil
      /\ (r = q \/ r = Obs!Without(q, c.cur))
    BY DEF Obs!Next_, Obs!Top
<1>3. n \in 1..Len(frames) /\ Len(frames) \in Nat /\ c \in Call /\ frames \in Seq(Call)
    <2>1. frames \in Seq(Call)
        BY DEF ObInv, ObTyped
    <2>2. PICK m \in Nat : m = Len(frames) /\ m # 0
        BY <2>1, ElemsIndexed
    <2>3. m \in 1..m
        BY <2>2
    <2>4. n \in 1..Len(frames)
        BY <2>2, <2>3
    <2>. QED
        BY <2>1, <2>2, <2>4, ElemsIndexed
<1>4. f \in Fields /\ q \in Seq(Everyone) /\ Distinct(q) /\ told \in Told
    BY <1>3, ObTypes DEF Call
<1>5. CallOn(c, q, told)
    BY <1>3 DEF ObInv, CallsOK
<1>6. /\ d.name = f /\ d.n = c.n /\ d.value = c.value /\ d.cur = c.nxt
      /\ d.nxt = Obs!Following(r, c.nxt) /\ d.done = c.done \cup {c.nxt}
    BY <1>1, <1>3 DEF Call
<1>7. /\ r \in Seq(Everyone) /\ Distinct(r) /\ Elems(r) \subseteq Elems(q)
      /\ c.nxt \in Elems(r)
      /\ CallOn(d, r, [told EXCEPT ![c.nxt] = c.value])
    <2>. HIDE DEF c, q
    <2>. QED
        BY <1>2, <1>4, <1>5, <1>6, CallMoves
<1>8. d \in Call
    <2>1. Obs!Following(r, c.nxt) \in Everyone \cup {Nil}
        BY <1>7, FollowingType
    <2>2. c.nxt \in Everyone
        BY <1>7, ElemsIndexed
    <2>. QED
        BY <1>1, <1>3, <2>1, <2>2 DEF Call
<1>9. /\ frames' \in Seq(Call) /\ Len(frames') = n /\ frames'[n] = d
      /\ \A i \in 1..n : i # n => frames'[i] = frames[i]
    <2>1. frames \in [1..n -> Call]
        BY <1>3, LenProperties
    <2>2. frames' \in [1..n -> Call]
        BY <1>1, <1>8, <2>1
    <2>3. frames' \in Seq(Call) /\ Len(frames') = n
        BY <1>3, <2>2, SeqOfFunction
    <2>. QED
        BY <1>1, <1>3, <2>1, <2>3
<1>. HIDE DEF n
<1>10. watchers'[f] = r /\ \A g \in Fields : g # f => watchers'[g] = watchers[g]
    BY <1>2, <1>4 DEF ObInv, ObTyped
<1>11. \A g \in Fields : g # f => c.nxt \notin Elems(watchers[g])
    BY <1>4, <1>7 DEF ObInv, Apart
<1>12. c.nxt \in Everyone /\ c.value \in Values
    <2>1. c.nxt \in Everyone
        BY <1>7, ElemsIndexed
    <2>. QED
        BY <1>3, <2>1 DEF Call
<1>13. told' \in Told /\ \A m \in Everyone : m # c.nxt => told'[m] = told[m]
    BY <1>2, <1>4, <1>12 DEF Told
<1>14. Apart' /\ watchers' \in [Fields -> Seq(Everyone)]
    <2>1. \A g \in Fields : g # f => Elems(r) \cap Elems(watchers[g]) = {}
        BY <1>4, <1>7 DEF ObInv, Apart
    <2>. QED
        BY <1>2, <1>4, <1>7, <2>1, ApartKept
<1>15. /\ \A e \in Call : e.name # f /\ CallOn(e, watchers[e.name], told)
                                => CallOn(e, watchers'[e.name], told')
       /\ \A g \in Fields : g # f => \A m \in Elems(watchers'[g]) : told'[m] = told[m]
    <2>. HIDE DEF c, q
    <2>. QED
        BY <1>4, <1>10, <1>11, <1>13, OthersKept
<1>16. n = Len(frames) /\ \A i \in 1..n : /\ frames[i] \in Call /\ frames'[i].name = frames[i].name
                                         /\ CallOn(frames[i], watchers[frames[i].name], told)
                                         /\ (frames[i].name = f => i = n)
    <2>1. n = Len(frames)
        BY DEF n
    <2>2. \A i \in 1..n : frames'[i].name = frames[i].name
        BY <1>6, <1>9, <2>1
    <2>. QED
        BY <1>3, <2>1, <2>2, ObTypes DEF ObInv, CallsOK
<1>17. CallsOK'
    <2>1. ASSUME NEW i \in 1..n PROVE CallOn(frames'[i], watchers'[frames'[i].name], told')
        <3>1. CASE i = n
            BY <1>2, <1>6, <1>7, <1>9, <1>10, <3>1
        <3>2. CASE i # n
            <4>1. frames'[i] = frames[i] /\ frames[i].name # f
                BY <1>9, <1>16, <3>2
            <4>. HIDE DEF c
            <4>. QED
                BY <1>15, <1>16, <4>1
        <3>. QED
            BY <3>1, <3>2
    <2>2. \A i, j \in 1..n : frames'[i].name = frames'[j].name => i = j
        BY <1>16 DEF ObInv, CallsOK
    <2>. QED
        BY <1>9, <2>1, <2>2 DEF CallsOK
<1>18. DOMAIN list = Fields /\ list' = list
    BY <1>2 DEF ObInv, ObTyped
<1>19. ASSUME NEW g \in Fields PROVE Rest(g)'
    <2>1. Rest(g)
        BY <1>18 DEF ObInv
    <2>2. CASE g = f
        BY <1>3, <1>6, <1>9, <1>16, <2>2 DEF Rest
    <2>3. CASE g # f
        BY <1>9, <1>10, <1>15, <1>16, <1>18, <2>1, <2>3 DEF Rest
    <2>. QED
        BY <2>2, <2>3
<1>20. ObTyped'
    BY <1>2, <1>9, <1>13, <1>14, <1>18 DEF ObInv, ObTyped, Told
<1>. QED
    BY <1>14, <1>17, <1>18, <1>19, <1>20 DEF ObInv

\* The last listener has answered: the field takes the value.
LEMMA FinishKeepsOb ==
    ASSUME ObInv, frames # <<>>, NEW r,
           r = watchers[Obs!Top.name] \/ r = Obs!Without(watchers[Obs!Top.name], Obs!Top.cur),
           Obs!Top.nxt = Nil, Obs!Finishes(r)
    PROVE  ObInv'
<1>. DEFINE n == Len(frames)
            c == frames[n]
            f == c.name
            q == watchers[f]
            w == Obs!Purged(r, doomed)
<1>1. /\ watchers' = [watchers EXCEPT ![f] = w] /\ doomed' \subseteq doomed
      /\ list' = [list EXCEPT ![f] = c.value] /\ UNCHANGED told /\ c.nxt = Nil
      /\ frames' = SubSeq(frames, 1, n - 1)
      /\ (r = q \/ r = Obs!Without(q, c.cur))
    BY DEF Obs!Finishes, Obs!Top, Obs!Store, Obs!Front
<1>2. n \in 1..Len(frames) /\ Len(frames) \in Nat /\ c \in Call /\ frames \in Seq(Call)
    <2>1. frames \in Seq(Call)
        BY DEF ObInv, ObTyped
    <2>2. PICK m \in Nat : m = Len(frames) /\ m # 0
        BY <2>1, ElemsIndexed
    <2>3. m \in 1..m
        BY <2>2
    <2>4. n \in 1..Len(frames)
        BY <2>2, <2>3
    <2>. QED
        BY <2>1, <2>2, <2>4, ElemsIndexed
<1>3. f \in Fields /\ q \in Seq(Everyone) /\ Distinct(q) /\ c.value \in Values
    BY <1>2, ObTypes DEF Call
<1>4. CallOn(c, q, told)
    BY <1>2 DEF ObInv, CallsOK
<1>5. \A l \in Elems(q) : told[l] # Nil => told[l] = c.value
    <2>. HIDE DEF c, q
    <2>. QED
        BY <1>1, <1>3, <1>4, CallOver
<1>6. r \in Seq(Everyone) /\ Distinct(r) /\ Elems(r) \subseteq Elems(q)
    <2>1. CASE r = q
        BY <1>3, <2>1
    <2>2. CASE r = Obs!Without(q, c.cur)
        <3>1. PICK k \in 1..Len(q) : q[k] = c.cur
            BY <1>4 DEF CallOn, CallAt
        <3>2. r = Obs!Without(q, q[k])
            BY <2>2, <3>1
        <3>. HIDE DEF q
        <3>. QED
            BY <1>3, <3>2, WithoutIs DEF Lacks
    <2>. QED
        BY <1>1, <2>1, <2>2
<1>7. w \in Seq(Everyone) /\ Distinct(w) /\ Elems(w) \subseteq Elems(q)
    BY <1>6, PurgedIs
<1>. HIDE DEF w
<1>8. Apart' /\ watchers' \in [Fields -> Seq(Everyone)]
    <2>1. \A g \in Fields : g # f => Elems(w) \cap Elems(watchers[g]) = {}
        BY <1>3, <1>7 DEF ObInv, Apart
    <2>. QED
        BY <1>1, <1>3, <1>7, <2>1, ApartKept
<1>9. /\ frames' \in Seq(Call) /\ Len(frames') = n - 1
      /\ \A i \in 1..n - 1 : frames'[i] = frames[i] /\ i \in 1..n /\ i # n
    <2>1. \A i \in 1..n - 1 : i \in 1..n /\ i # n
        BY <1>2
    <2>2. \A i \in 1..n - 1 : frames[i] \in Call
        BY <1>2, <2>1, ElemsIndexed
    <2>3. n \in Nat /\ n # 0
        BY <1>2
    <2>. HIDE DEF n
    <2>4. /\ SubSeq(frames, 1, n - 1) \in Seq(Call)
          /\ Len(SubSeq(frames, 1, n - 1)) = (IF 1 <= n - 1 THEN n - 1 - 1 + 1 ELSE 0)
          /\ \A i \in 1..n - 1 - 1 + 1 : SubSeq(frames, 1, n - 1)[i] = frames[1 + i - 1]
        BY <2>2, <2>3, SubSeqProperties
    <2>5. n - 1 - 1 + 1 = n - 1 /\ ~(1 <= n - 1) => n - 1 = 0
        BY <2>3
    <2>6. Len(frames') = n - 1
        BY <1>1, <2>3, <2>4
    <2>7. \A i \in 1..n - 1 : 1 + i - 1 = i /\ i \in 1..n - 1 - 1 + 1
        BY <2>3
    <2>8. \A i \in 1..n - 1 : frames'[i] = frames[i]
        BY <1>1, <2>4, <2>7
    <2>. QED
        BY <1>1, <2>1, <2>4, <2>6, <2>8
<1>10. watchers'[f] = w /\ \A g \in Fields : g # f => watchers'[g] = watchers[g]
    BY <1>1, <1>3 DEF ObInv, ObTyped
<1>11. DOMAIN list = Fields /\ list' \in [Fields -> Values] /\ DOMAIN list' = Fields
       /\ list'[f] = c.value /\ \A g \in Fields : g # f => list'[g] = list[g]
    <2>1. DOMAIN list = Fields /\ list \in [Fields -> Values]
        BY DEF ObInv, ObTyped
    <2>. QED
        BY <1>1, <1>3, <2>1
<1>12. \A i \in 1..n : /\ CallOn(frames[i], watchers[frames[i].name], told)
                       /\ frames[i].name \in Fields
                       /\ (frames[i].name = f => i = n)
    BY <1>2, ObTypes DEF ObInv, CallsOK, Call
<1>13. CallsOK'
    <2>1. \A i \in 1..n - 1 : CallOn(frames'[i], watchers'[frames'[i].name], told')
        BY <1>1, <1>9, <1>10, <1>12
    <2>2. \A i, j \in 1..n - 1 : frames'[i].name = frames'[j].name => i = j
        BY <1>9 DEF ObInv, CallsOK
    <2>. QED
        BY <1>9, <2>1, <2>2 DEF CallsOK
<1>14. ASSUME NEW g \in Fields PROVE Rest(g)'
    <2>1. Rest(g)
        BY <1>11 DEF ObInv
    <2>2. CASE g = f
        BY <1>1, <1>5, <1>7, <1>10, <1>11, <2>2 DEF Rest
    <2>3. CASE g # f
        <3>1. (\A i \in 1..Len(frames') : frames'[i].name # g)
                 => \A i \in 1..Len(frames) : frames[i].name # g
            <4>1. \A i \in 1..n : i \in 1..n - 1 \/ i = n
                BY <1>2
            <4>. QED
                BY <1>9, <2>3, <4>1
        <3>. QED
            BY <1>1, <1>10, <1>11, <2>1, <2>3, <3>1 DEF Rest
    <2>. QED
        BY <2>2, <2>3
<1>15. ObTyped'
    BY <1>1, <1>8, <1>9, <1>11 DEF ObInv, ObTyped
<1>. QED
    BY <1>8, <1>11, <1>13, <1>14, <1>15 DEF ObInv

LEMMA ReturnsKeepsOb ==
    ASSUME ObInv, Obs!Returns
    PROVE  ObInv'
<1>1. PICK r \in Obs!Answered(watchers[Obs!Top.name], Obs!Top.cur) :
        frames # <<>> /\ IF Obs!Top.nxt # Nil THEN Obs!Next_(r) ELSE Obs!Finishes(r)
    BY DEF Obs!Returns
<1>2. r = watchers[Obs!Top.name] \/ r = Obs!Without(watchers[Obs!Top.name], Obs!Top.cur)
    BY DEF Obs!Answered
<1>. QED
    BY <1>1, <1>2, MovesKeepsOb, FinishKeepsOb

LEMMA InitOb == TwoInit => ObInv
<1>. SUFFICES ASSUME TwoInit PROVE ObInv
    OBVIOUS
<1>1. /\ list \in [Fields -> Values] /\ watchers = [f \in Fields |-> <<>>]
      /\ doomed = {} /\ frames = <<>> /\ told = [l \in Everyone |-> Nil]
    BY DEF TwoInit, Obs!Init, Obs!Watchers, Everyone
<1>2. <<>> \in Seq(Everyone) /\ Distinct(<<>>) /\ Elems(<<>>) = {}
    BY DEF Distinct, Elems
<1>3. \A f \in Fields : watchers[f] = <<>>
    BY <1>1
<1>4. DOMAIN list = Fields /\ Len(frames) = 0 /\ frames \in Seq(Call)
    BY <1>1
<1>5. ObTyped
    BY <1>1, <1>2, <1>4 DEF ObTyped
<1>6. Apart /\ CallsOK /\ \A f \in Fields : Rest(f)
    BY <1>2, <1>3, <1>4 DEF Apart, CallsOK, Rest
<1>. QED
    BY <1>4, <1>5, <1>6 DEF ObInv

LEMMA StepKeepsOb == ObInv /\ [TwoNext]_<<vars, obsVars, topic>> => ObInv'
<1>. SUFFICES ASSUME ObInv, [TwoNext]_<<vars, obsVars, topic>>
              PROVE  ObInv'
    OBVIOUS
<1>1. CASE UNCHANGED obsVars
    BY <1>1 DEF obsVars, ObInv, ObTyped, Apart, CallsOK, Rest
<1>2. CASE Obs!Next
    <2>1. ASSUME NEW l \in Everyone, Obs!Off(l) PROVE ObInv'
        BY <2>1, OffKeepsOb
    <2>2. ASSUME NEW l \in Everyone, NEW f \in Fields, Obs!Watch(l, f) PROVE ObInv'
        BY <2>2, WatchKeeps
    <2>3. ASSUME NEW f \in Fields, NEW v \in Values, Obs!Set(f, v) PROVE ObInv'
        BY <2>3, SetKeepsOb
    <2>4. CASE Obs!Returns
        BY <2>4, ReturnsKeepsOb
    <2>5. CASE Obs!Clear
        BY <2>5, ClearKeepsOb
    <2>6. CASE Obs!Throws
        BY <1>1, <2>6 DEF Obs!Throws, Obs!vars, obsVars
    <2>. QED
        BY <1>2, <2>1, <2>2, <2>3, <2>4, <2>5, <2>6 DEF Obs!Next, Obs!Watchers, Everyone
<1>. QED
    BY <1>1, <1>2 DEF TwoNext, obsVars

(* The observers are as ObInv says at all times (observer.h).              *)
THEOREM ObserversInvariance == TwoSpec => []ObInv
<1>1. ObInv /\ [TwoNext]_<<vars, obsVars, topic>> => ObInv'
    BY StepKeepsOb
<1>. QED
    BY <1>1, InitOb, PTL DEF TwoSpec

(* A listener is told the value that the field holds or is about to hold,  *)
(* and at rest nobody has another, whatever fields, values and listeners   *)
(* there are and however deep they call each other (observer.h set()).     *)
THEOREM ListenersInStep == TwoSpec => []InStep
<1>1. ObInv => InStep
    <2>. SUFFICES ASSUME ObInv PROVE InStep
        OBVIOUS
    <2>1. ASSUME NEW f \in DOMAIN list, NEW l \in Elems(watchers[f]), told[l] # Nil, ~Obs!Used(f)
          PROVE  told[l] = list[f]
        <3>1. f \in Fields /\ Rest(f)
            BY DEF ObInv, ObTyped
        <3>. QED
            BY <2>1, <3>1, ObTypes DEF Rest
    <2>2. ASSUME NEW i \in 1..Len(frames), NEW l \in Elems(watchers[frames[i].name]), told[l] # Nil
          PROVE  told[l] = IF l \in frames[i].done THEN frames[i].value ELSE frames[i].n
        <3>. DEFINE c == frames[i]
                    q == watchers[c.name]
        <3>1. q \in Seq(Everyone) /\ CallOn(c, q, told)
            BY ObTypes DEF ObInv, CallsOK, Call
        <3>2. PICK k \in 1..Len(q) : CallAt(c, q, told, k)
            BY <3>1 DEF CallOn
        <3>3. PICK j \in 1..Len(q) : q[j] = l
            BY <3>1, ElemsIndexed
        <3>4. /\ told[l] = IF j <= k THEN c.value ELSE c.n
              /\ j <= k => l \in c.done
              /\ j > k => l \notin c.done
            BY <2>2, <3>2, <3>3 DEF CallAt
        <3>5. j <= k \/ j > k
            BY <3>1, <3>2, <3>3, ElemsIndexed
        <3>6. ~(j <= k /\ j > k)
            BY <3>1, <3>2, <3>3, ElemsIndexed
        <3>. QED
            BY <3>4, <3>5, <3>6
    <2>3. DOMAIN frames = 1..Len(frames)
        BY ObTypes
    <2>. QED
        BY <2>1, <2>2, <2>3, ObSame DEF InStep, Obs!InStep
<1>. QED
    BY <1>1, ObserversInvariance, PTL

=============================================================================
