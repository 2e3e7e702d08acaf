----------------------------- MODULE MemoryProofs -----------------------------
(***************************************************************************)
(* queue_t pointer by pointer implements a sequence with a cursor; ptr_t   *)
(* counts exactly and sees nothing outside its array; the blocks of the    *)
(* heap are apart and its room is found again; a file is what was written  *)
(* to it, and a read what is in the file; and invoker_t calls only what it *)
(* was asked for; with any number of nodes, handles, threads, lengths,     *)
(* pages, sizes, callbacks, files and calls on them.                       *)
(***************************************************************************)
EXTENDS MCMemory, FiniteSetTheorems, SequenceTheorems, WellFoundedInduction, TLAPS

-----------------------------------------------------------------------------
(* The list: sequences of nodes and the pointers between them.             *)

Distinct(s) == \A i, j \in 1..Len(s) : s[i] = s[j] => i = j

In(s, x) == \E i \in 1..Len(s) : s[i] = x

\* The nodes of s, and no others, are linked by nx and pv in that order.
Linked(s, nx, pv) ==
    /\ s \in Seq(Nodes) /\ Distinct(s)
    /\ nx \in [Nodes -> Pointers] /\ pv \in [Nodes -> Pointers]
    /\ \A i \in 1..Len(s) : nx[s[i]] = IF i = Len(s) THEN Nil ELSE s[i + 1]
    /\ \A i \in 1..Len(s) : pv[s[i]] = IF i = 1 THEN Nil ELSE s[i - 1]
    /\ \A n \in Nodes : ~In(s, n) => nx[n] = Nil /\ pv[n] = Nil

\* The first and the last node of s.
Ends(s, f, l) ==
    IF Len(s) = 0 THEN f = Nil /\ l = Nil ELSE f = s[1] /\ l = s[Len(s)]

\* s is the list that the variables are.
IsList(s, nx, pv, present, f, l, len) ==
    /\ Linked(s, nx, pv) /\ Ends(s, f, l)
    /\ present = {s[i] : i \in 1..Len(s)}
    /\ len = Len(s)

\* The inductive invariant.
IInv ==
    /\ IsList(Forward, next, prev, sign, fst, lst, length)
    /\ act \in sign \cup {Nil}

-----------------------------------------------------------------------------
(* A traversal.                                                            *)

\* A set of numbers that is not empty has a least one.
LEMMA Least ==
    ASSUME NEW T, T \subseteq Nat, T # {}
    PROVE  \E n \in T : \A m \in T : n <= m
<1>. DEFINE R == {ss \in Nat \X Nat : ss[1] < ss[2]}
<1>1. IsWellFoundedOn(R, Nat)
    BY NatLessThanWellFounded DEF OpToRel
<1>2. PICK n \in T : \A m \in T : <<m, n>> \notin R
    <2>. HIDE DEF R
    <2>. QED
        BY <1>1, WFMin
<1>3. ASSUME NEW m \in T, ~(n <= m) PROVE FALSE
    <2>1. m \in Nat /\ n \in Nat /\ m < n
        BY <1>3
    <2>2. <<m, n>> \in Nat \X Nat /\ <<m, n>>[1] < <<m, n>>[2]
        BY <2>1
    <2>. QED
        BY <2>2, <1>2
<1>. QED
    BY <1>3

ChainOf(f, start, len) ==
    LET c[i \in 1..len] ==
            IF i = 1 THEN start
            ELSE LET p == c[i - 1] IN IF p = Nil THEN Nil ELSE f[p]
    IN  c

\* The traversal along nx meets the nodes of s in their order.
LEMMA Traversed ==
    ASSUME NEW s, NEW nx, NEW pv, Linked(s, nx, pv), NEW f, NEW l, Ends(s, f, l)
    PROVE  ChainOf(nx, f, Len(s)) = s
<1>. DEFINE Def(c) == [i \in 1..Len(s) |->
                          IF i = 1 THEN f
                          ELSE LET p == c[i - 1] IN IF p = Nil THEN Nil ELSE nx[p]]
<1>1. s \in Seq(Nodes) /\ Len(s) \in Nat /\ s = [i \in 1..Len(s) |-> s[i]]
    BY DEF Linked
<1>2. \A i \in 1..Len(s) : s[i] \in Nodes /\ s[i] # Nil
    BY <1>1, QueueListAssumption
<1>3. \A i \in 1..Len(s) : i # 1 => nx[s[i - 1]] = s[i]
    BY <1>1 DEF Linked
<1>4. Len(s) > 0 => f = s[1]
    BY <1>1 DEF Ends
<1>5. s = Def(s)
    BY <1>1, <1>2, <1>3, <1>4
<1>6. ASSUME NEW c, c = Def(c) PROVE c = s
    <2>1. DOMAIN c = 1..Len(s) /\ c = [i \in 1..Len(s) |-> c[i]]
        BY <1>6
    <2>2. \A i \in 1..Len(s) :
             c[i] = IF i = 1 THEN f ELSE IF c[i - 1] = Nil THEN Nil ELSE nx[c[i - 1]]
        BY <1>6
    <2>. DEFINE T == {i \in 1..Len(s) : c[i] # s[i]}
    <2>3. ASSUME T # {} PROVE FALSE
        <3>1. PICK n \in T : \A m \in T : n <= m
            <4>1. T \subseteq Nat /\ T # {}
                BY <2>3, <1>1
            <4>. HIDE DEF T
            <4>. QED
                BY <4>1, Least
        <3>2. CASE n = 1
            BY <3>1, <3>2, <2>2, <1>4, <1>1
        <3>3. CASE n # 1
            <4>1. n - 1 \in 1..Len(s) /\ n - 1 \notin T
                BY <3>1, <3>3, <1>1
            <4>2. c[n - 1] = s[n - 1] /\ s[n - 1] # Nil
                BY <4>1, <1>2
            <4>. QED
                BY <4>2, <3>1, <3>3, <2>2, <1>3
        <3>. QED
            BY <3>2, <3>3
    <2>. QED
        BY <2>1, <2>3, <1>1
<1>7. ChainOf(nx, f, Len(s)) = CHOOSE c : c = Def(c)
    BY DEF ChainOf
<1>. QED
    <2>. HIDE DEF Def
    <2>. QED
        BY <1>5, <1>6, <1>7

\* ...so that the list there is after a step is what a traversal finds then.
LEMMA ListAfter ==
    ASSUME NEW s, IsList(s, next', prev', sign', fst', lst', length'),
           act' \in sign' \cup {Nil}
    PROVE  Forward' = s /\ IInv'
<1>1. Forward' = ChainOf(next', fst', length')
    BY DEF Forward, Chain, ChainOf
<1>2. Forward' = s
    BY <1>1, Traversed DEF IsList
<1>. QED
    BY <1>2 DEF IInv

-----------------------------------------------------------------------------
(* What leaves a sequence, and what comes into it, by index.               *)

Without(s, k) ==
    [j \in 1..Len(s) - 1 |-> IF j < k THEN s[j] ELSE s[j + 1]]

With(s, k, x) ==
    [j \in 1..Len(s) + 1 |-> IF j < k THEN s[j] ELSE IF j = k THEN x ELSE s[j - 1]]

\* A function on 1..n is a sequence of length n.
LEMMA SeqOfFunction ==
    ASSUME NEW S, NEW n \in Nat, NEW f \in [1..n -> S]
    PROVE  f \in Seq(S) /\ Len(f) = n
<1>1. f \in Seq(S)
    BY SeqDef
<1>2. DOMAIN f = 1..Len(f) /\ Len(f) \in Nat
    BY <1>1, LenProperties
<1>3. n \in 1..n \/ n = 0
    OBVIOUS
<1>4. Len(f) \in 1..Len(f) \/ Len(f) = 0
    BY <1>2
<1>. QED
    BY <1>1, <1>2, <1>3, <1>4

\* A sequence with the elements of another function on 1..n is that function.
LEMMA SameSequence ==
    ASSUME NEW S, NEW t \in Seq(S), NEW g, g = [j \in 1..Len(t) |-> g[j]],
           \A j \in 1..Len(t) : t[j] = g[j]
    PROVE  t = g
<1>1. t = [j \in 1..Len(t) |-> t[j]]
    BY SeqDef, LenProperties
<1>2. [j \in 1..Len(t) |-> t[j]] = [j \in 1..Len(t) |-> g[j]]
    OBVIOUS
<1>. QED
    BY <1>1, <1>2

LEMMA WithoutIs ==
    ASSUME NEW s \in Seq(Nodes), Distinct(s), NEW k \in 1..Len(s)
    PROVE  LET d == Without(s, k) IN
           /\ d \in Seq(Nodes) /\ Len(d) = Len(s) - 1 /\ Distinct(d)
           /\ \A j \in 1..Len(d) : d[j] = IF j < k THEN s[j] ELSE s[j + 1]
           /\ \A n : In(d, n) <=> In(s, n) /\ n # s[k]
<1>. DEFINE d == Without(s, k)
<1>1. Len(s) \in Nat /\ Len(s) - 1 \in Nat /\ \A j \in 1..Len(s) : s[j] \in Nodes
    OBVIOUS
<1>2. d \in [1..Len(s) - 1 -> Nodes]
    BY <1>1 DEF Without
<1>3. d \in Seq(Nodes) /\ Len(d) = Len(s) - 1
    BY <1>1, <1>2, SeqOfFunction
<1>4. \A j \in 1..Len(d) : d[j] = IF j < k THEN s[j] ELSE s[j + 1]
    BY <1>1, <1>3 DEF Without
<1>. HIDE DEF d
<1>5. Distinct(d)
    <2>. SUFFICES ASSUME NEW i \in 1..Len(d), NEW j \in 1..Len(d), d[i] = d[j] PROVE i = j
        BY DEF Distinct
    <2>1. i \in 1..Len(s) /\ j \in 1..Len(s) /\ i + 1 \in 1..Len(s) /\ j + 1 \in 1..Len(s)
        BY <1>1, <1>3
    <2>. QED
        BY <2>1, <1>1, <1>4 DEF Distinct
<1>6. ASSUME NEW n, In(d, n) PROVE In(s, n) /\ n # s[k]
    <2>1. PICK j \in 1..Len(d) : d[j] = n
        BY <1>6 DEF In
    <2>2. j \in 1..Len(s) /\ j + 1 \in 1..Len(s)
        BY <1>1, <1>3
    <2>. QED
        BY <2>1, <2>2, <1>1, <1>4 DEF In, Distinct
<1>7. ASSUME NEW n, In(s, n), n # s[k] PROVE In(d, n)
    <2>1. PICK i \in 1..Len(s) : s[i] = n
        BY <1>7 DEF In
    <2>2. CASE i < k
        <3>1. i \in 1..Len(d)
            BY <2>2, <1>1, <1>3
        <3>. QED
            BY <3>1, <2>1, <2>2, <1>4 DEF In
    <2>3. CASE i > k
        <3>1. i - 1 \in 1..Len(d) /\ ~(i - 1 < k) /\ (i - 1) + 1 = i
            BY <2>3, <1>1, <1>3
        <3>. QED
            BY <3>1, <2>1, <1>4 DEF In
    <2>. QED
        BY <2>1, <2>2, <2>3, <1>7, <1>1
<1>. QED
    BY <1>3, <1>4, <1>5, <1>6, <1>7 DEF d

LEMMA WithIs ==
    ASSUME NEW s \in Seq(Nodes), Distinct(s), NEW k \in 1..Len(s) + 1,
           NEW x \in Nodes, ~In(s, x)
    PROVE  LET d == With(s, k, x) IN
           /\ d \in Seq(Nodes) /\ Len(d) = Len(s) + 1 /\ Distinct(d)
           /\ \A j \in 1..Len(d) : d[j] = IF j < k THEN s[j] ELSE IF j = k THEN x ELSE s[j - 1]
           /\ \A n : In(d, n) <=> In(s, n) \/ n = x
<1>. DEFINE d == With(s, k, x)
<1>1. Len(s) \in Nat /\ Len(s) + 1 \in Nat /\ \A j \in 1..Len(s) : s[j] \in Nodes
    OBVIOUS
<1>2. d \in [1..Len(s) + 1 -> Nodes]
    BY <1>1 DEF With
<1>3. d \in Seq(Nodes) /\ Len(d) = Len(s) + 1
    BY <1>1, <1>2, SeqOfFunction
<1>4. \A j \in 1..Len(d) : d[j] = IF j < k THEN s[j] ELSE IF j = k THEN x ELSE s[j - 1]
    BY <1>1, <1>3 DEF With
<1>. HIDE DEF d
<1>0. \A j \in 1..Len(d) : (j < k => j \in 1..Len(s)) /\ (j > k => j - 1 \in 1..Len(s))
    BY <1>1, <1>3
<1>5. Distinct(d)
    <2>. SUFFICES ASSUME NEW i \in 1..Len(d), NEW j \in 1..Len(d), d[i] = d[j] PROVE i = j
        BY DEF Distinct
    <2>1. i \in Nat /\ j \in Nat /\ k \in Nat
        BY <1>1, <1>3
    <2>2. CASE i = k \/ j = k
        BY <2>1, <2>2, <1>0, <1>4 DEF In
    <2>3. CASE i # k /\ j # k
        <3>. DEFINE p == IF i < k THEN i ELSE i - 1
                    q == IF j < k THEN j ELSE j - 1
        <3>1. p \in 1..Len(s) /\ q \in 1..Len(s) /\ d[i] = s[p] /\ d[j] = s[q]
            BY <2>1, <2>3, <1>0, <1>4
        <3>2. p = q
            BY <3>1 DEF Distinct
        <3>. QED
            BY <3>2, <2>1, <2>3
    <2>. QED
        BY <2>2, <2>3
<1>6. ASSUME NEW n, In(d, n) PROVE In(s, n) \/ n = x
    <2>1. PICK j \in 1..Len(d) : d[j] = n
        BY <1>6 DEF In
    <2>2. j \in Nat /\ k \in Nat
        BY <1>1, <1>3
    <2>3. CASE j < k
        BY <2>1, <2>2, <2>3, <1>0, <1>4 DEF In
    <2>4. CASE j > k
        BY <2>1, <2>2, <2>4, <1>0, <1>4 DEF In
    <2>. QED
        BY <2>1, <2>2, <2>3, <2>4, <1>4
<1>7. ASSUME NEW n, In(s, n) PROVE In(d, n)
    <2>1. PICK i \in 1..Len(s) : s[i] = n
        BY <1>7 DEF In
    <2>2. CASE i < k
        <3>1. i \in 1..Len(d)
            BY <1>1, <1>3
        <3>. QED
            BY <3>1, <2>1, <2>2, <1>4 DEF In
    <2>3. CASE ~(i < k)
        <3>1. i + 1 \in 1..Len(d) /\ ~(i + 1 < k) /\ i + 1 # k /\ (i + 1) - 1 = i
            BY <2>3, <1>1, <1>3
        <3>. QED
            BY <3>1, <2>1, <1>4 DEF In
    <2>. QED
        BY <2>2, <2>3
<1>8. In(d, x)
    <2>1. k \in 1..Len(d)
        BY <1>1, <1>3
    <2>. QED
        BY <2>1, <1>4 DEF In
<1>. QED
    BY <1>3, <1>4, <1>5, <1>6, <1>7, <1>8 DEF d

-----------------------------------------------------------------------------
(* The operators of CursorList in these terms.                             *)

LEMMA AtIs ==
    ASSUME NEW k \in 1..Len(Forward), Forward \in Seq(Nodes), Distinct(Forward)
    PROVE  List!At(Forward[k]) = k
    BY DEF List!At, Distinct

LEMMA DropIs ==
    ASSUME NEW k \in 1..Len(Forward), Forward \in Seq(Nodes), Distinct(Forward)
    PROVE  List!Drop(Forward[k]) = Without(Forward, k)
<1>. DEFINE s == Forward
<1>1. List!Drop(s[k]) = SubSeq(s, 1, k - 1) \o SubSeq(s, k + 1, Len(s))
    BY AtIs DEF List!Drop
<1>. HIDE DEF s
<1>2. s \in Seq(Nodes) /\ k \in 1..Len(s) /\ Len(s) \in Nat
    BY DEF s
<1>. DEFINE a == SubSeq(s, 1, k - 1)  b == SubSeq(s, k + 1, Len(s))
<1>3. a \in Seq(Nodes) /\ Len(a) = k - 1 /\ \A j \in 1..Len(a) : a[j] = s[j]
    BY <1>2
<1>4. b \in Seq(Nodes) /\ Len(b) = Len(s) - k /\ \A j \in 1..Len(b) : b[j] = s[k + j]
    BY <1>2
<1>. HIDE DEF a, b
<1>5. a \o b \in Seq(Nodes) /\ Len(a \o b) = Len(s) - 1
    <2>1. a \o b \in Seq(Nodes) /\ Len(a \o b) = Len(a) + Len(b)
        BY <1>3, <1>4, ConcatProperties
    <2>2. Len(a) + Len(b) = Len(s) - 1
        BY <1>2, <1>3, <1>4
    <2>. QED
        BY <2>1, <2>2
<1>6. \A j \in 1..Len(s) - 1 : (a \o b)[j] = IF j < k THEN s[j] ELSE s[j + 1]
    BY <1>2, <1>3, <1>4
<1>7. a \o b = Without(s, k)
    <2>. DEFINE t == a \o b  g == Without(s, k)
    <2>1. g = [j \in 1..Len(t) |-> g[j]]
        BY <1>5 DEF Without
    <2>2. \A j \in 1..Len(t) : t[j] = g[j]
        BY <1>5, <1>6 DEF Without
    <2>3. t \in Seq(Nodes)
        BY <1>5
    <2>. HIDE DEF t, g
    <2>4. t = g
        BY <2>1, <2>2, <2>3, SameSequence
    <2>. QED
        BY <2>4 DEF t, g
<1>. QED
    BY <1>1, <1>7 DEF s, a, b

LEMMA PutIs ==
    ASSUME NEW s \in Seq(Nodes), Distinct(s), NEW n, NEW x \in Nodes
    PROVE  /\ ~In(s, n) => List!PutBefore(s, n, x) = With(s, Len(s) + 1, x)
           /\ \A k \in 1..Len(s) : s[k] = n => List!PutBefore(s, n, x) = With(s, k, x)
<1>1. DOMAIN s = 1..Len(s) /\ Len(s) \in Nat
    OBVIOUS
<1>2. ASSUME ~In(s, n) PROVE List!PutBefore(s, n, x) = With(s, Len(s) + 1, x)
    <2>1. List!PutBefore(s, n, x) = Append(s, x)
        BY <1>1, <1>2 DEF List!PutBefore, In
    <2>. DEFINE t == Append(s, x)  g == With(s, Len(s) + 1, x)
    <2>2. t \in Seq(Nodes) /\ Len(t) = Len(s) + 1
          /\ \A j \in 1..Len(t) : t[j] = IF j = Len(s) + 1 THEN x ELSE s[j]
        BY <1>1
    <2>3. g = [j \in 1..Len(t) |-> g[j]] /\ \A j \in 1..Len(t) : t[j] = g[j]
        BY <1>1, <2>2 DEF With
    <2>4. t = g
        <3>. HIDE DEF t, g
        <3>. QED
            BY <2>2, <2>3, SameSequence
    <2>. QED
        BY <2>1, <2>4
<1>3. ASSUME NEW k \in 1..Len(s), s[k] = n PROVE List!PutBefore(s, n, x) = With(s, k, x)
    <2>. DEFINE a == SubSeq(s, 1, k - 1)  b == SubSeq(s, k, Len(s))
    <2>1. (CHOOSE j \in DOMAIN s : s[j] = n) = k
        BY <1>1, <1>3 DEF Distinct
    <2>2. List!PutBefore(s, n, x) = a \o <<x>> \o b
        BY <1>1, <1>3, <2>1 DEF List!PutBefore
    <2>3. a \in Seq(Nodes) /\ Len(a) = k - 1 /\ \A j \in 1..Len(a) : a[j] = s[j]
        BY <1>1
    <2>4. b \in Seq(Nodes) /\ Len(b) = Len(s) - k + 1 /\ \A j \in 1..Len(b) : b[j] = s[k + j - 1]
        BY <1>1
    <2>. HIDE DEF a, b
    <2>. DEFINE c == a \o <<x>>
    <2>5. c \in Seq(Nodes) /\ Len(c) = k /\ \A j \in 1..k : c[j] = IF j < k THEN s[j] ELSE x
        BY <2>3
    <2>. HIDE DEF c
    <2>. DEFINE t == c \o b  g == With(s, k, x)
    <2>6. t \in Seq(Nodes) /\ Len(t) = Len(s) + 1
        <3>1. t \in Seq(Nodes) /\ Len(t) = Len(c) + Len(b)
            BY <2>4, <2>5, ConcatProperties
        <3>2. Len(c) + Len(b) = Len(s) + 1
            BY <1>1, <2>4, <2>5
        <3>. QED
            BY <3>1, <3>2
    <2>7. ASSUME NEW j \in 1..Len(t)
          PROVE  t[j] = IF j < k THEN s[j] ELSE IF j = k THEN x ELSE s[j - 1]
        <3>0. j \in 1..Len(s) + 1 /\ j \in Nat /\ k \in Nat
            BY <2>6, <1>1
        <3>1. CASE j <= k
            <4>1. j \in 1..k /\ j \in 1..Len(c)
                BY <3>0, <3>1, <2>5
            <4>2. t[j] = c[j]
                BY <4>1, <2>4, <2>5, <3>0, <1>1
            <4>. QED
                BY <4>1, <4>2, <2>5, <3>0, <3>1
        <3>2. CASE j > k
            <4>1. j - k \in 1..Len(b) /\ k + (j - k) - 1 = j - 1 /\ j > Len(c) /\ j <= Len(c) + Len(b)
                BY <3>0, <3>2, <2>4, <2>5, <1>1
            <4>2. t[j] = b[j - k]
                BY <4>1, <2>4, <2>5, <3>0, <1>1
            <4>3. b[j - k] = s[j - 1]
                BY <4>1, <2>4
            <4>. QED
                BY <4>2, <4>3, <3>0, <3>2
        <3>. QED
            BY <3>0, <3>1, <3>2
    <2>8. t = g
        <3>1. g = [j \in 1..Len(t) |-> g[j]]
            BY <2>6 DEF With
        <3>2. \A j \in 1..Len(t) : t[j] = g[j]
            BY <2>6, <2>7 DEF With
        <3>. HIDE DEF t, g
        <3>. QED
            BY <2>6, <3>1, <3>2, SameSequence
    <2>. QED
        BY <2>2, <2>8 DEF c
<1>. QED
    BY <1>2, <1>3

-----------------------------------------------------------------------------
(* What the pointers are when a node is taken out of the list or put into  *)
(* it.                                                                     *)

LEMMA LinkedFacts ==
    ASSUME NEW s, NEW nx, NEW pv, Linked(s, nx, pv)
    PROVE  /\ s \in Seq(Nodes) /\ Len(s) \in Nat /\ Distinct(s)
           /\ nx \in [Nodes -> Pointers] /\ pv \in [Nodes -> Pointers]
           /\ \A i \in 1..Len(s) : s[i] \in Nodes /\ s[i] # Nil /\ In(s, s[i])
           /\ \A i, j \in 1..Len(s) : s[i] = s[j] <=> i = j
<1>1. s \in Seq(Nodes) /\ Distinct(s)
    BY DEF Linked
<1>. QED
    BY <1>1, QueueListAssumption DEF Linked, Distinct, In

LEMMA TakenOut ==
    ASSUME NEW s, NEW nx, NEW pv, Linked(s, nx, pv), NEW k \in 1..Len(s), NEW x, x = s[k]
    PROVE  Linked(Without(s, k), [Write(nx, pv[x], nx[x]) EXCEPT ![x] = Nil],
                                 [Write(pv, nx[x], pv[x]) EXCEPT ![x] = Nil])
<1>. DEFINE d == Without(s, k)
            a == [Write(nx, pv[x], nx[x]) EXCEPT ![x] = Nil]
            b == [Write(pv, nx[x], pv[x]) EXCEPT ![x] = Nil]
<1>1. /\ s \in Seq(Nodes) /\ Len(s) \in Nat /\ Distinct(s)
      /\ nx \in [Nodes -> Pointers] /\ pv \in [Nodes -> Pointers]
      /\ \A i \in 1..Len(s) : s[i] \in Nodes /\ s[i] # Nil
      /\ \A i, j \in 1..Len(s) : s[i] = s[j] <=> i = j
    BY LinkedFacts
<1>2. /\ d \in Seq(Nodes) /\ Len(d) = Len(s) - 1 /\ Distinct(d)
      /\ \A j \in 1..Len(d) : d[j] = IF j < k THEN s[j] ELSE s[j + 1]
      /\ \A n : In(d, n) <=> In(s, n) /\ n # x
    BY <1>1, WithoutIs
<1>. HIDE DEF d
<1>3. /\ nx[x] = IF k = Len(s) THEN Nil ELSE s[k + 1]
      /\ pv[x] = IF k = 1 THEN Nil ELSE s[k - 1]
      /\ x \in Nodes /\ k \in Nat /\ k >= 1 /\ k <= Len(s)
    BY <1>1 DEF Linked
<1>4. /\ a \in [Nodes -> Pointers] /\ b \in [Nodes -> Pointers]
      /\ \A n \in Nodes : a[n] = IF n = x THEN Nil ELSE IF n = pv[x] THEN nx[x] ELSE nx[n]
      /\ \A n \in Nodes : b[n] = IF n = x THEN Nil ELSE IF n = nx[x] THEN pv[x] ELSE pv[n]
    BY <1>1, <1>3, QueueListAssumption DEF Write, Pointers
<1>. HIDE DEF a, b
<1>5. ASSUME NEW i \in 1..Len(s), i # k
      PROVE  /\ a[s[i]] = IF i = k - 1 THEN nx[x] ELSE nx[s[i]]
             /\ b[s[i]] = IF i = k + 1 THEN pv[x] ELSE pv[s[i]]
    <2>1. s[i] \in Nodes /\ s[i] # x /\ s[i] # Nil /\ i \in Nat
        BY <1>1, <1>5
    <2>2. s[i] = pv[x] <=> i = k - 1
        BY <1>1, <1>3, <2>1
    <2>3. s[i] = nx[x] <=> i = k + 1
        BY <1>1, <1>3, <2>1
    <2>. QED
        BY <1>4, <2>1, <2>2, <2>3
<1>6. ASSUME NEW j \in 1..Len(d)
      PROVE  /\ a[d[j]] = IF j = Len(d) THEN Nil ELSE d[j + 1]
             /\ b[d[j]] = IF j = 1 THEN Nil ELSE d[j - 1]
    <2>1. j \in Nat /\ j >= 1 /\ j <= Len(s) - 1 /\ j \in 1..Len(s) /\ j + 1 \in 1..Len(s)
        BY <1>1, <1>2
    <2>2. /\ nx[s[j]] = s[j + 1]
          /\ nx[s[j + 1]] = IF j + 1 = Len(s) THEN Nil ELSE s[j + 2]
          /\ pv[s[j]] = IF j = 1 THEN Nil ELSE s[j - 1]
          /\ pv[s[j + 1]] = s[j]
        BY <2>1, <1>1 DEF Linked
    <2>3. /\ j # Len(d) => d[j + 1] = IF j + 1 < k THEN s[j + 1] ELSE s[j + 2]
          /\ j # 1 => d[j - 1] = IF j - 1 < k THEN s[j - 1] ELSE s[j]
        BY <1>2, <2>1, <1>1
    <2>4. CASE j < k
        <3>1. d[j] = s[j] /\ j # k
            BY <1>2, <2>4, <2>1, <1>3
        <3>2. a[s[j]] = IF j = k - 1 THEN nx[x] ELSE nx[s[j]]
            BY <1>5, <3>1, <2>1
        <3>3. b[s[j]] = pv[s[j]]
            BY <1>5, <3>1, <2>1, <2>4, <1>3
        <3>. QED
            BY <3>1, <3>2, <3>3, <2>1, <2>2, <2>3, <2>4, <1>2, <1>3, <1>1
    <2>5. CASE ~(j < k)
        <3>1. d[j] = s[j + 1] /\ j + 1 # k
            BY <1>2, <2>5, <2>1, <1>3
        <3>2. a[s[j + 1]] = nx[s[j + 1]]
            BY <1>5, <3>1, <2>1, <2>5, <1>3
        <3>3. b[s[j + 1]] = IF j = k THEN pv[x] ELSE pv[s[j + 1]]
            BY <1>5, <3>1, <2>1, <1>3
        <3>. QED
            BY <3>1, <3>2, <3>3, <2>1, <2>2, <2>3, <2>5, <1>2, <1>3, <1>1
    <2>. QED
        BY <2>4, <2>5
<1>7. ASSUME NEW n \in Nodes, ~In(d, n) PROVE a[n] = Nil /\ b[n] = Nil
    <2>1. CASE n = x
        BY <2>1, <1>4
    <2>2. CASE n # x
        <3>1. ~In(s, n) /\ nx[n] = Nil /\ pv[n] = Nil
            BY <1>2, <1>7, <2>2 DEF Linked
        <3>2. n # pv[x] /\ n # nx[x]
            BY <3>1, <1>1, <1>3, QueueListAssumption DEF In
        <3>. QED
            BY <3>1, <3>2, <2>2, <1>4
    <2>. QED
        BY <2>1, <2>2
<1>. QED
    BY <1>2, <1>4, <1>6, <1>7 DEF Linked, a, b, d

LEMMA PutIn ==
    ASSUME NEW s, NEW nx, NEW pv, Linked(s, nx, pv), NEW k \in 1..Len(s), NEW n, n = s[k],
           NEW x \in Nodes, ~In(s, x)
    PROVE  Linked(With(s, k, x), [Write(nx, pv[n], x) EXCEPT ![x] = n],
                                 [pv EXCEPT ![x] = pv[n], ![n] = x])
<1>. DEFINE d == With(s, k, x)
            a == [Write(nx, pv[n], x) EXCEPT ![x] = n]
            b == [pv EXCEPT ![x] = pv[n], ![n] = x]
<1>1. /\ s \in Seq(Nodes) /\ Len(s) \in Nat /\ Distinct(s)
      /\ nx \in [Nodes -> Pointers] /\ pv \in [Nodes -> Pointers]
      /\ \A i \in 1..Len(s) : s[i] \in Nodes /\ s[i] # Nil /\ s[i] # x
      /\ \A i, j \in 1..Len(s) : s[i] = s[j] <=> i = j
    BY LinkedFacts DEF In
<1>2. /\ d \in Seq(Nodes) /\ Len(d) = Len(s) + 1 /\ Distinct(d)
      /\ \A j \in 1..Len(d) : d[j] = IF j < k THEN s[j] ELSE IF j = k THEN x ELSE s[j - 1]
      /\ \A m : In(d, m) <=> In(s, m) \/ m = x
    BY <1>1, WithIs
<1>. HIDE DEF d
<1>3. /\ pv[n] = IF k = 1 THEN Nil ELSE s[k - 1]
      /\ n \in Nodes /\ n # x /\ x # Nil /\ k \in Nat /\ k >= 1 /\ k <= Len(s)
    BY <1>1, QueueListAssumption DEF Linked
<1>4. /\ a \in [Nodes -> Pointers] /\ b \in [Nodes -> Pointers]
      /\ \A m \in Nodes : a[m] = IF m = x THEN n ELSE IF m = pv[n] THEN x ELSE nx[m]
      /\ \A m \in Nodes : b[m] = IF m = n THEN x ELSE IF m = x THEN pv[n] ELSE pv[m]
    BY <1>1, <1>3, QueueListAssumption DEF Write, Pointers
<1>. HIDE DEF a, b
<1>5. ASSUME NEW i \in 1..Len(s)
      PROVE  /\ a[s[i]] = IF i = k - 1 THEN x ELSE nx[s[i]]
             /\ b[s[i]] = IF i = k THEN x ELSE pv[s[i]]
    <2>1. s[i] \in Nodes /\ s[i] # x /\ s[i] # Nil /\ i \in Nat
        BY <1>1
    <2>2. s[i] = pv[n] <=> i = k - 1
        BY <1>1, <1>3, <2>1
    <2>3. s[i] = n <=> i = k
        BY <1>1
    <2>. QED
        BY <1>4, <2>1, <2>2, <2>3
<1>6. ASSUME NEW j \in 1..Len(d)
      PROVE  /\ a[d[j]] = IF j = Len(d) THEN Nil ELSE d[j + 1]
             /\ b[d[j]] = IF j = 1 THEN Nil ELSE d[j - 1]
    <2>1. j \in Nat /\ j >= 1 /\ j <= Len(s) + 1
        BY <1>1, <1>2
    <2>2. /\ j # Len(d) =>
                d[j + 1] = IF j + 1 < k THEN s[j + 1] ELSE IF j + 1 = k THEN x ELSE s[j]
          /\ j # 1 =>
                d[j - 1] = IF j - 1 < k THEN s[j - 1] ELSE IF j - 1 = k THEN x ELSE s[j - 2]
        BY <1>2, <2>1, <1>1
    <2>3. CASE j < k
        <3>1. d[j] = s[j] /\ j \in 1..Len(s) /\ j # Len(d) /\ j # Len(s)
            BY <1>2, <2>3, <2>1, <1>3
        <3>2. nx[s[j]] = s[j + 1] /\ pv[s[j]] = IF j = 1 THEN Nil ELSE s[j - 1]
            BY <3>1 DEF Linked
        <3>. QED
            BY <3>1, <3>2, <1>5, <2>1, <2>2, <2>3, <1>3
    <2>4. CASE j = k
        <3>1. d[j] = x /\ j # Len(d)
            BY <1>2, <2>4, <2>1, <1>3
        <3>2. a[x] = n /\ b[x] = pv[n]
            BY <1>3, <1>4
        <3>. QED
            BY <3>1, <3>2, <2>1, <2>2, <2>4, <1>3
    <2>5. CASE j > k
        <3>1. d[j] = s[j - 1] /\ j - 1 \in 1..Len(s) /\ j # 1
            BY <1>2, <2>5, <2>1, <1>3
        <3>2. /\ nx[s[j - 1]] = IF j - 1 = Len(s) THEN Nil ELSE s[j]
              /\ pv[s[j - 1]] = IF j - 1 = 1 THEN Nil ELSE s[j - 2]
            BY <3>1, <2>1 DEF Linked
        <3>3. /\ a[s[j - 1]] = nx[s[j - 1]]
              /\ b[s[j - 1]] = IF j - 1 = k THEN x ELSE pv[s[j - 1]]
            BY <3>1, <1>5, <2>1, <2>5, <1>3
        <3>. QED
            BY <3>1, <3>2, <3>3, <2>1, <2>2, <2>5, <1>2, <1>3
    <2>. QED
        BY <2>1, <2>3, <2>4, <2>5, <1>3
<1>7. ASSUME NEW m \in Nodes, ~In(d, m) PROVE a[m] = Nil /\ b[m] = Nil
    <2>1. ~In(s, m) /\ m # x /\ nx[m] = Nil /\ pv[m] = Nil
        BY <1>2, <1>7 DEF Linked
    <2>2. m # pv[n] /\ m # n
        BY <2>1, <1>1, <1>3, QueueListAssumption DEF In
    <2>. QED
        BY <2>1, <2>2, <1>4
<1>. QED
    BY <1>2, <1>4, <1>6, <1>7 DEF Linked, a, b, d

LEMMA PutLast ==
    ASSUME NEW s, NEW nx, NEW pv, Linked(s, nx, pv), Len(s) > 0, NEW n, n = s[Len(s)],
           NEW x \in Nodes, ~In(s, x)
    PROVE  Linked(With(s, Len(s) + 1, x), [nx EXCEPT ![n] = x], [pv EXCEPT ![x] = n])
<1>. DEFINE d == With(s, Len(s) + 1, x)
            a == [nx EXCEPT ![n] = x]
            b == [pv EXCEPT ![x] = n]
<1>1. /\ s \in Seq(Nodes) /\ Len(s) \in Nat /\ Distinct(s)
      /\ nx \in [Nodes -> Pointers] /\ pv \in [Nodes -> Pointers]
      /\ \A i \in 1..Len(s) : s[i] \in Nodes /\ s[i] # Nil /\ s[i] # x
      /\ \A i, j \in 1..Len(s) : s[i] = s[j] <=> i = j
    BY LinkedFacts DEF In
<1>2. /\ d \in Seq(Nodes) /\ Len(d) = Len(s) + 1 /\ Distinct(d)
      /\ \A j \in 1..Len(d) : d[j] = IF j < Len(s) + 1 THEN s[j] ELSE x
      /\ \A m : In(d, m) <=> In(s, m) \/ m = x
    <2>1. Len(s) + 1 \in 1..Len(s) + 1
        BY <1>1
    <2>. HIDE DEF d
    <2>2. LET e == With(s, Len(s) + 1, x) IN
          /\ e \in Seq(Nodes) /\ Len(e) = Len(s) + 1 /\ Distinct(e)
          /\ \A j \in 1..Len(e) :
                e[j] = IF j < Len(s) + 1 THEN s[j] ELSE IF j = Len(s) + 1 THEN x ELSE s[j - 1]
          /\ \A m : In(e, m) <=> In(s, m) \/ m = x
        BY <1>1, <2>1, WithIs
    <2>. QED
        BY <2>2, <1>1 DEF d
<1>. HIDE DEF d
<1>3. n \in Nodes /\ n # x /\ x # Nil /\ Len(s) \in 1..Len(s) /\ nx[x] = Nil
    BY <1>1, QueueListAssumption DEF Linked
<1>4. /\ a \in [Nodes -> Pointers] /\ b \in [Nodes -> Pointers]
      /\ \A m \in Nodes : a[m] = IF m = n THEN x ELSE nx[m]
      /\ \A m \in Nodes : b[m] = IF m = x THEN n ELSE pv[m]
    BY <1>1, <1>3 DEF Pointers
<1>. HIDE DEF a, b
<1>6. ASSUME NEW j \in 1..Len(d)
      PROVE  /\ a[d[j]] = IF j = Len(d) THEN Nil ELSE d[j + 1]
             /\ b[d[j]] = IF j = 1 THEN Nil ELSE d[j - 1]
    <2>1. j \in Nat /\ j >= 1 /\ j <= Len(s) + 1
        BY <1>1, <1>2
    <2>2. /\ j # Len(d) => d[j + 1] = IF j = Len(s) THEN x ELSE s[j + 1]
          /\ j # 1 => d[j - 1] = s[j - 1]
        BY <1>2, <2>1, <1>1
    <2>3. CASE j < Len(s) + 1
        <3>1. d[j] = s[j] /\ j \in 1..Len(s) /\ j # Len(d)
            BY <1>2, <2>3, <2>1
        <3>2. /\ nx[s[j]] = IF j = Len(s) THEN Nil ELSE s[j + 1]
              /\ pv[s[j]] = IF j = 1 THEN Nil ELSE s[j - 1]
            BY <3>1 DEF Linked
        <3>3. s[j] \in Nodes /\ s[j] # x /\ (s[j] = n <=> j = Len(s))
            BY <3>1, <1>1, <1>3
        <3>. QED
            BY <3>1, <3>2, <3>3, <1>4, <2>1, <2>2
    <2>4. CASE j = Len(s) + 1
        <3>1. d[j] = x /\ j = Len(d) /\ j # 1 /\ d[j - 1] = n
            BY <1>2, <2>2, <2>4, <2>1, <1>1
        <3>. QED
            BY <3>1, <1>3, <1>4
    <2>. QED
        BY <2>1, <2>3, <2>4, <1>1
<1>7. ASSUME NEW m \in Nodes, ~In(d, m) PROVE a[m] = Nil /\ b[m] = Nil
    <2>1. ~In(s, m) /\ m # x /\ nx[m] = Nil /\ pv[m] = Nil
        BY <1>2, <1>7 DEF Linked
    <2>2. m # n
        BY <2>1, <1>3 DEF In
    <2>. QED
        BY <2>1, <2>2, <1>4
<1>. QED
    BY <1>2, <1>4, <1>6, <1>7 DEF Linked, a, b, d

-----------------------------------------------------------------------------
(* The steps.                                                              *)

\* What the invariant says of the list there is.
LEMMA ListNow ==
    ASSUME IInv
    PROVE  /\ Linked(Forward, next, prev) /\ Forward \in Seq(Nodes) /\ Distinct(Forward)
           /\ Len(Forward) \in Nat /\ length = Len(Forward)
           /\ sign \subseteq Nodes /\ Nil \notin sign /\ List!Members = sign
           /\ \A n : n \in sign <=> In(Forward, n)
           /\ Empty <=> Len(Forward) = 0
           /\ ~Empty => fst = Forward[1] /\ lst = Forward[Len(Forward)] /\ Last = lst
                        /\ fst \in sign /\ lst \in sign
           /\ Empty => fst = Nil /\ lst = Nil
           /\ act \in sign \cup {Nil}
<1>. DEFINE s == Forward
<1>1. IsList(s, next, prev, sign, fst, lst, length) /\ act \in sign \cup {Nil}
    BY DEF IInv
<1>2. List!Members = {s[i] : i \in DOMAIN s}
    BY DEF List!Members
<1>. HIDE DEF s
<1>3. Linked(s, next, prev) /\ Ends(s, fst, lst) /\ length = Len(s)
    BY <1>1 DEF IsList
<1>4. /\ s \in Seq(Nodes) /\ Len(s) \in Nat /\ Distinct(s) /\ DOMAIN s = 1..Len(s)
      /\ \A i \in 1..Len(s) : s[i] \in Nodes /\ s[i] # Nil
    BY <1>3, LinkedFacts
<1>5. sign = {s[i] : i \in 1..Len(s)}
    BY <1>1 DEF IsList
<1>6. /\ sign \subseteq Nodes /\ Nil \notin sign /\ List!Members = sign
      /\ \A n : n \in sign <=> In(s, n)
    BY <1>2, <1>4, <1>5 DEF In
<1>7. Empty <=> Len(s) = 0
    BY <1>3 DEF Empty
<1>8. ASSUME ~Empty PROVE fst = s[1] /\ lst = s[Len(s)] /\ fst \in sign /\ lst \in sign
    <2>1. 1 \in 1..Len(s) /\ Len(s) \in 1..Len(s)
        BY <1>4, <1>7, <1>8
    <2>. QED
        BY <2>1, <1>3, <1>4, <1>5 DEF Ends
<1>9. Empty => fst = Nil /\ lst = Nil
    BY <1>3, <1>7 DEF Ends
<1>. QED
    BY <1>1, <1>3, <1>4, <1>6, <1>7, <1>8, <1>9 DEF s, Last

\* insert() puts a node in front of n, or behind the last one.
LEMMA Inserts ==
    ASSUME IInv, NEW n \in Nodes \cup {Nil}, NEW m \in Nodes, Insert(n, m)
    PROVE  IInv' /\ List!PutNew(n, m)
<1>. DEFINE s == Forward
            d == List!PutBefore(Forward, n, m)
<1>1. /\ Linked(s, next, prev) /\ s \in Seq(Nodes) /\ Distinct(s)
      /\ Len(s) \in Nat /\ length = Len(s)
      /\ List!Members = sign /\ \A x : x \in sign <=> In(s, x)
      /\ Empty <=> Len(s) = 0
      /\ ~Empty => fst = s[1] /\ lst = s[Len(s)] /\ Last = lst
      /\ act \in sign \cup {Nil}
    BY ListNow
<1>2. d = List!PutBefore(s, n, m)
    OBVIOUS
<1>. HIDE DEF s, d
<1>3. ~In(s, m) /\ m \notin sign /\ n # m
    BY <1>1 DEF Insert
<1>4. sign' = sign \cup {m} /\ length' = Len(s) + 1 /\ act' = act
    BY <1>1 DEF Insert
<1>5. InsertFirst(m) \/ InsertBefore(n, m) \/ InsertLast(n, m)
    BY DEF Insert
<1>6. Linked(d, next', prev') /\ Ends(d, fst', lst') /\ Len(d) = Len(s) + 1
      /\ \A x : In(d, x) <=> In(s, x) \/ x = m
    <2>1. CASE InsertFirst(m)
        <3>1. Len(s) = 0 /\ fst' = m /\ lst' = m /\ next' = next /\ prev' = prev
            BY <2>1, <1>1 DEF InsertFirst
        <3>0. ~In(s, n) /\ Len(s) + 1 = 1 /\ 1 \in 1..Len(s) + 1
            BY <3>1 DEF In
        <3>2. d = With(s, 1, m)
            <4>1. List!PutBefore(s, n, m) = With(s, Len(s) + 1, m)
                BY <3>0, <1>1, PutIs
            <4>. QED
                BY <4>1, <3>0, <1>2
        <3>3. /\ d \in Seq(Nodes) /\ Len(d) = Len(s) + 1 /\ Distinct(d)
              /\ \A j \in 1..Len(d) : d[j] = IF j < 1 THEN s[j] ELSE IF j = 1 THEN m ELSE s[j - 1]
              /\ \A x : In(d, x) <=> In(s, x) \/ x = m
            BY <3>0, <3>2, <1>1, <1>3, WithIs
        <3>4. Len(d) = 1 /\ d[1] = m
            BY <3>1, <3>3
        <3>5. Linked(d, next, prev)
            BY <3>1, <3>3, <3>4, <1>1, <1>3 DEF Linked
        <3>. QED
            BY <3>1, <3>3, <3>4, <3>5 DEF Ends
    <2>2. CASE InsertBefore(n, m)
        <3>1. PICK k \in 1..Len(s) : n = s[k]
            BY <2>2, <1>1 DEF InsertBefore, In
        <3>2. d = With(s, k, m)
            BY <3>1, <1>1, <1>2, PutIs
        <3>3. /\ d \in Seq(Nodes) /\ Len(d) = Len(s) + 1
              /\ \A j \in 1..Len(d) : d[j] = IF j < k THEN s[j] ELSE IF j = k THEN m ELSE s[j - 1]
              /\ \A x : In(d, x) <=> In(s, x) \/ x = m
            BY <3>1, <3>2, <1>1, <1>3, WithIs
        <3>4. Linked(d, next', prev')
            BY <2>2, <3>1, <3>2, <1>1, <1>3, PutIn DEF InsertBefore
        <3>5. /\ next[n] = Nil <=> k = Len(s)
              /\ prev[n] = Nil <=> k = 1
            <4>1. /\ next[n] = IF k = Len(s) THEN Nil ELSE s[k + 1]
                  /\ prev[n] = IF k = 1 THEN Nil ELSE s[k - 1]
                BY <3>1, <1>1 DEF Linked
            <4>2. \A i \in 1..Len(s) : s[i] # Nil
                BY <1>1, LinkedFacts
            <4>3. (k # Len(s) => k + 1 \in 1..Len(s)) /\ (k # 1 => k - 1 \in 1..Len(s))
                BY <1>1
            <4>. QED
                BY <4>1, <4>2, <4>3
        <3>6. /\ fst' = IF k = 1 THEN m ELSE s[1]
              /\ lst' = IF k = Len(s) THEN n ELSE s[Len(s)]
            BY <2>2, <3>5, <1>1 DEF InsertBefore
        <3>7. /\ 1 \in 1..Len(d) /\ Len(d) \in 1..Len(d) /\ Len(d) # 0
              /\ d[1] = IF k = 1 THEN m ELSE s[1]
              /\ d[Len(d)] = s[Len(s)]
            BY <3>3, <1>1
        <3>. QED
            BY <3>1, <3>3, <3>4, <3>6, <3>7 DEF Ends
    <2>3. CASE InsertLast(n, m)
        <3>1. ~In(s, n) /\ Len(s) # 0 /\ Len(s) > 0
            BY <2>3, <1>1 DEF InsertLast
        <3>2. d = With(s, Len(s) + 1, m)
            BY <3>1, <1>1, <1>2, PutIs
        <3>3. /\ d \in Seq(Nodes) /\ Len(d) = Len(s) + 1
              /\ \A j \in 1..Len(d) :
                    d[j] = IF j < Len(s) + 1 THEN s[j] ELSE IF j = Len(s) + 1 THEN m ELSE s[j - 1]
              /\ \A x : In(d, x) <=> In(s, x) \/ x = m
            <4>1. Len(s) + 1 \in 1..Len(s) + 1
                BY <1>1
            <4>. QED
                BY <4>1, <3>2, <1>1, <1>3, WithIs
        <3>4. Last = s[Len(s)] /\ fst = s[1]
            BY <3>1, <1>1
        <3>5. Linked(d, next', prev')
            BY <2>3, <3>1, <3>2, <3>4, <1>1, <1>3, PutLast DEF InsertLast
        <3>6. prev[Last] = Nil => Len(s) = 1
            <4>1. prev[s[Len(s)]] = IF Len(s) = 1 THEN Nil ELSE s[Len(s) - 1]
                BY <3>1, <1>1 DEF Linked
            <4>2. \A i \in 1..Len(s) : s[i] # Nil
                BY <1>1, LinkedFacts
            <4>. QED
                BY <4>1, <4>2, <3>1, <3>4, <1>1
        <3>7. fst' = s[1] /\ lst' = m
            BY <2>3, <3>4, <3>6 DEF InsertLast
        <3>8. d[1] = s[1] /\ d[Len(d)] = m /\ Len(d) # 0
            BY <3>1, <3>3, <1>1
        <3>. QED
            BY <3>3, <3>5, <3>7, <3>8 DEF Ends
    <2>. QED
        BY <1>5, <2>1, <2>2, <2>3
<1>7. sign' = {d[i] : i \in 1..Len(d)}
    BY <1>1, <1>4, <1>6 DEF In
<1>8. IsList(d, next', prev', sign', fst', lst', length') /\ act' \in sign' \cup {Nil}
    BY <1>1, <1>4, <1>6, <1>7 DEF IsList
<1>9. Forward' = d /\ IInv'
    BY <1>8, ListAfter
<1>. QED
    BY <1>1, <1>3, <1>4, <1>9 DEF List!PutNew, d

\* What stands before and behind a node of the list.
LEMMA Neighbours ==
    ASSUME NEW s, NEW nx, NEW pv, Linked(s, nx, pv), NEW k \in 1..Len(s), NEW x, x = s[k]
    PROVE  /\ nx[x] = IF k = Len(s) THEN Nil ELSE s[k + 1]
           /\ pv[x] = IF k = 1 THEN Nil ELSE s[k - 1]
           /\ nx[x] = Nil <=> k = Len(s)
           /\ pv[x] = Nil <=> k = 1
<1>1. /\ nx[x] = IF k = Len(s) THEN Nil ELSE s[k + 1]
      /\ pv[x] = IF k = 1 THEN Nil ELSE s[k - 1]
    BY DEF Linked
<1>2. Len(s) \in Nat /\ \A i \in 1..Len(s) : s[i] # Nil
    BY LinkedFacts
<1>3. (k # Len(s) => k + 1 \in 1..Len(s)) /\ (k # 1 => k - 1 \in 1..Len(s))
    BY <1>2
<1>. QED
    BY <1>1, <1>2, <1>3

\* The ends of a list without its k-th node.
LEMMA EndsWithout ==
    ASSUME NEW s, NEW nx, NEW pv, Linked(s, nx, pv), NEW k \in 1..Len(s), NEW x, x = s[k]
    PROVE  Ends(Without(s, k), IF k = 1 THEN nx[x] ELSE s[1],
                               IF k = Len(s) THEN pv[x] ELSE s[Len(s)])
<1>1. s \in Seq(Nodes) /\ Len(s) \in Nat /\ Distinct(s)
    BY LinkedFacts
<1>. DEFINE d == Without(s, k)
<1>2. /\ Len(d) = Len(s) - 1
      /\ \A j \in 1..Len(d) : d[j] = IF j < k THEN s[j] ELSE s[j + 1]
    BY <1>1, WithoutIs
<1>3. /\ nx[x] = IF k = Len(s) THEN Nil ELSE s[k + 1]
      /\ pv[x] = IF k = 1 THEN Nil ELSE s[k - 1]
    BY Neighbours
<1>. HIDE DEF d
<1>4. CASE Len(s) = 1
    BY <1>1, <1>2, <1>3, <1>4 DEF Ends, d
<1>5. CASE Len(s) # 1
    <2>1. 1 \in 1..Len(d) /\ Len(d) \in 1..Len(d) /\ Len(d) # 0
        BY <1>1, <1>2, <1>5
    <2>2. d[1] = IF 1 < k THEN s[1] ELSE s[2]
        BY <1>2, <2>1
    <2>3. d[Len(d)] = IF Len(s) - 1 < k THEN s[Len(s) - 1] ELSE s[Len(s)]
        BY <1>1, <1>2, <2>1
    <2>4. (IF k = 1 THEN nx[x] ELSE s[1]) = d[1]
        <3>1. CASE k = 1
            <4>1. k + 1 = 2 /\ k # Len(s) /\ ~(1 < k)
                BY <3>1, <1>5
            <4>. QED
                BY <4>1, <3>1, <1>3, <2>2
        <3>2. CASE k # 1
            <4>1. 1 < k
                BY <3>2, <1>1
            <4>. QED
                BY <4>1, <3>2, <2>2
        <3>. QED
            BY <3>1, <3>2
    <2>5. (IF k = Len(s) THEN pv[x] ELSE s[Len(s)]) = d[Len(d)]
        <3>1. CASE k = Len(s)
            <4>1. k - 1 = Len(s) - 1 /\ k # 1 /\ Len(s) - 1 < k
                BY <3>1, <1>1, <1>5
            <4>. QED
                BY <4>1, <3>1, <1>3, <2>3
        <3>2. CASE k # Len(s)
            <4>1. ~(Len(s) - 1 < k)
                BY <3>2, <1>1
            <4>. QED
                BY <4>1, <3>2, <2>3
        <3>. QED
            BY <3>1, <3>2
    <2>. QED
        BY <2>1, <2>4, <2>5 DEF Ends, d
<1>. QED
    BY <1>4, <1>5

\* erase() takes the node out and lets the cursor go on from it.
LEMMA Erases ==
    ASSUME IInv, NEW n \in Nodes \cup {Nil}, Erase(n)
    PROVE  IInv' /\ Victim(n) \in Nodes /\ List!TakeOut(Victim(n))
<1>. DEFINE s == Forward
            e == Victim(n)
            d == List!Drop(e)
<1>1. /\ Linked(s, next, prev) /\ s \in Seq(Nodes) /\ Distinct(s)
      /\ Len(s) \in Nat /\ length = Len(s) /\ sign \subseteq Nodes /\ Nil \notin sign
      /\ List!Members = sign /\ \A x : x \in sign <=> In(s, x)
      /\ Empty <=> Len(s) = 0
      /\ ~Empty => fst = s[1] /\ lst = s[Len(s)]
      /\ act \in sign \cup {Nil}
    BY ListNow
<1>2. e \in sign /\ e \in Nodes /\ ~Empty
    BY <1>1 DEF Erase, EraseUnless
<1>3. PICK k \in 1..Len(s) : e = s[k]
    BY <1>1, <1>2 DEF In
<1>4. d = Without(s, k) /\ List!At(e) = k
    BY <1>1, <1>3, DropIs, AtIs
<1>5. List!After(e) = s[(k % Len(s)) + 1]
    BY <1>4 DEF List!After
<1>6. List!TakeOut(e) <=>
         /\ e \in List!Members
         /\ Forward' = d
         /\ act' = IF act # e THEN act ELSE IF Len(s) = 1 THEN Nil ELSE List!After(e)
    BY DEF List!TakeOut
<1>7. /\ lst' = IF next[e] = Nil THEN prev[e] ELSE lst
      /\ fst' = IF prev[e] = Nil THEN next[e] ELSE fst
      /\ act' = CursorPast(e)
      /\ next' = [Write(next, prev[e], next[e]) EXCEPT ![e] = Nil]
      /\ prev' = [Write(prev, next[e], prev[e]) EXCEPT ![e] = Nil]
      /\ sign' = sign \ {e}
      /\ length' = Len(s) - 1
    BY <1>1 DEF Erase, EraseUnless, Unlinked
<1>. HIDE DEF s, e, d
<1>8. Linked(d, next', prev')
    BY <1>1, <1>3, <1>4, <1>7, TakenOut
<1>9. /\ next[e] = IF k = Len(s) THEN Nil ELSE s[k + 1]
      /\ prev[e] = IF k = 1 THEN Nil ELSE s[k - 1]
      /\ next[e] = Nil <=> k = Len(s)
      /\ prev[e] = Nil <=> k = 1
    BY <1>1, <1>3, Neighbours
<1>10. Ends(d, fst', lst')
    <2>1. /\ fst' = IF k = 1 THEN next[e] ELSE s[1]
          /\ lst' = IF k = Len(s) THEN prev[e] ELSE s[Len(s)]
        BY <1>1, <1>2, <1>7, <1>9
    <2>. QED
        BY <2>1, <1>1, <1>3, <1>4, EndsWithout
<1>11. Len(d) = Len(s) - 1 /\ \A x : In(d, x) <=> In(s, x) /\ x # e
    BY <1>1, <1>3, <1>4, WithoutIs
<1>12. sign' = {d[i] : i \in 1..Len(d)}
    <2>1. \A x : x \in sign' <=> In(d, x)
        BY <1>1, <1>7, <1>11
    <2>. QED
        BY <2>1 DEF In
<1>13. act' = IF act # e THEN act ELSE IF Len(s) = 1 THEN Nil ELSE List!After(e)
    <2>1. act' = IF e # act THEN act
                 ELSE IF next[e] # Nil THEN next[e]
                 ELSE IF prev[e] = Nil THEN Nil ELSE fst
        BY <1>7 DEF CursorPast
    <2>2. CASE k = Len(s)
        <3>1. List!After(e) = s[1]
            BY <2>2, <1>1, <1>3, <1>5
        <3>. QED
            BY <3>1, <2>1, <2>2, <1>1, <1>2, <1>9
    <2>3. CASE k # Len(s)
        <3>1. k % Len(s) = k /\ Len(s) # 1
            BY <2>3, <1>1, <1>3
        <3>. QED
            BY <3>1, <2>1, <2>3, <1>5, <1>9
    <2>. QED
        BY <2>2, <2>3
<1>14. act' \in sign' \cup {Nil}
    <2>1. CASE act # e
        BY <2>1, <1>1, <1>7, <1>13
    <2>2. CASE Len(s) # 1
        <3>1. (k % Len(s)) + 1 \in 1..Len(s) /\ (k % Len(s)) + 1 # k
            <4>1. CASE k = Len(s)
                BY <4>1, <2>2, <1>1, <1>3
            <4>2. CASE k # Len(s)
                <5>1. k % Len(s) = k
                    BY <4>2, <1>1, <1>3
                <5>. QED
                    BY <5>1, <4>2, <1>1, <1>3
            <4>. QED
                BY <4>1, <4>2
        <3>2. List!After(e) \in sign /\ List!After(e) # e
            BY <3>1, <1>1, <1>3, <1>5 DEF In, Distinct
        <3>. QED
            BY <3>2, <2>2, <1>1, <1>7, <1>13
    <2>. QED
        BY <2>1, <2>2, <1>13
<1>15. IsList(d, next', prev', sign', fst', lst', length')
    BY <1>7, <1>8, <1>10, <1>11, <1>12 DEF IsList
<1>16. Forward' = d /\ IInv'
    BY <1>14, <1>15, ListAfter
<1>. QED
    BY <1>1, <1>2, <1>6, <1>13, <1>16 DEF e

\* A pointer that is written twice has the second value.
LEMMA Overwritten ==
    ASSUME NEW f \in [Nodes -> Pointers], NEW x \in Nodes, NEW n \in Nodes,
           NEW v \in Pointers
    PROVE  /\ [[f EXCEPT ![x] = Nil] EXCEPT ![x] = v, ![n] = x]
                 = [f EXCEPT ![x] = v, ![n] = x]
           /\ [[f EXCEPT ![x] = Nil] EXCEPT ![x] = v] = [f EXCEPT ![x] = v]
    OBVIOUS

\* move() takes a node out and puts it in front of n, or behind the last one.
LEMMA Moves ==
    ASSUME IInv, NEW n \in Nodes \cup {Nil}, NEW x \in Nodes, Move(n, x)
    PROVE  IInv' /\ List!Relocate(n, x)
<1>. DEFINE s == Forward
            d == List!PutBefore(List!Drop(x), n, x)
            a == [Write(next, prev[x], next[x]) EXCEPT ![x] = Nil]
            b == [Write(prev, next[x], prev[x]) EXCEPT ![x] = Nil]
<1>1. /\ Linked(s, next, prev) /\ s \in Seq(Nodes) /\ Distinct(s)
      /\ Len(s) \in Nat /\ length = Len(s) /\ sign \subseteq Nodes /\ Nil \notin sign
      /\ List!Members = sign /\ \A y : y \in sign <=> In(s, y)
      /\ Empty <=> Len(s) = 0
      /\ ~Empty => fst = s[1] /\ lst = s[Len(s)]
      /\ act \in sign \cup {Nil}
    BY ListNow
<1>2. x \in sign /\ sign' = sign /\ length' = length /\ act' = act
    BY DEF Move
<1>3. PICK k \in 1..Len(s) : x = s[k]
    BY <1>1, <1>2 DEF In
<1>4. List!Drop(x) = Without(s, k)
    BY <1>1, <1>3, DropIs
<1>. HIDE DEF s
<1>. DEFINE r == Without(s, k)
<1>5. d = List!PutBefore(r, n, x)
    BY <1>4
<1>6. List!Relocate(n, x) <=>
          x \in List!Members /\ n # x /\ Forward' = d /\ act' = act
    BY DEF List!Relocate
<1>. HIDE DEF d
<1>7. Linked(r, a, b)
    BY <1>1, <1>3, TakenOut
<1>8. /\ r \in Seq(Nodes) /\ Len(r) = Len(s) - 1 /\ Distinct(r) /\ Len(r) \in Nat
      /\ \A y : In(r, y) <=> In(s, y) /\ y # x
    BY <1>1, <1>3, WithoutIs
<1>9. Ends(r, IF k = 1 THEN next[x] ELSE s[1], IF k = Len(s) THEN prev[x] ELSE s[Len(s)])
    BY <1>1, <1>3, EndsWithout
<1>. HIDE DEF r
<1>10. ~In(r, x) /\ fst = s[1] /\ lst = s[Len(s)]
       /\ (fst = x <=> k = 1) /\ (lst = x <=> k = Len(s))
    BY <1>1, <1>3, <1>8 DEF Distinct
<1>11. /\ next \in [Nodes -> Pointers] /\ prev \in [Nodes -> Pointers]
       /\ Write(next, prev[x], next[x]) \in [Nodes -> Pointers]
       /\ Write(prev, next[x], prev[x]) \in [Nodes -> Pointers]
    <2>1. next \in [Nodes -> Pointers] /\ prev \in [Nodes -> Pointers]
        BY <1>1 DEF Linked
    <2>. QED
        BY <2>1, QueueListAssumption DEF Write, Pointers
<1>12. /\ n # x /\ Linked(d, next', prev') /\ Ends(d, fst', lst') /\ Len(d) = Len(s)
       /\ \A y : In(d, y) <=> In(s, y)
    <2>1. CASE MoveBefore(n, x)
        <3>. DEFINE nx == Write(next, prev[x], next[x])
                    pv == Write(prev, next[x], prev[x])
        <3>1. /\ n \in sign /\ n # x
              /\ next' = [Write(nx, pv[n], x) EXCEPT ![x] = n]
              /\ prev' = [pv EXCEPT ![x] = pv[n], ![n] = x]
              /\ fst' = MoveFst(n, x)
              /\ lst' = IF lst = x THEN prev[x] ELSE lst
            BY <2>1 DEF MoveBefore
        <3>2. PICK j \in 1..Len(r) : n = r[j]
            BY <3>1, <1>1, <1>8 DEF In
        <3>3. n \in Nodes /\ b[n] = pv[n] /\ pv[n] \in Pointers
            BY <3>1, <1>1, <1>11
        <3>. HIDE DEF nx, pv
        <3>4. d = With(r, j, x)
            BY <3>2, <1>5, <1>8, PutIs
        <3>5. Linked(d, [Write(a, b[n], x) EXCEPT ![x] = n], [b EXCEPT ![x] = b[n], ![n] = x])
            <4>. HIDE DEF a, b
            <4>. QED
                BY <3>2, <3>4, <1>7, <1>10, PutIn
        <3>6. /\ [Write(a, pv[n], x) EXCEPT ![x] = n] = next'
              /\ [b EXCEPT ![x] = pv[n], ![n] = x] = prev'
            <4>1. a = [nx EXCEPT ![x] = Nil] /\ b = [pv EXCEPT ![x] = Nil]
                BY DEF nx, pv
            <4>2. nx \in [Nodes -> Pointers] /\ pv \in [Nodes -> Pointers]
                BY <1>11 DEF nx, pv
            <4>. HIDE DEF a, b
            <4>3. [Write([nx EXCEPT ![x] = Nil], pv[n], x) EXCEPT ![x] = n]
                    = [Write(nx, pv[n], x) EXCEPT ![x] = n]
                <5>1. PICK p : p = pv[n]
                    OBVIOUS
                <5>2. p \in Pointers
                    BY <5>1, <3>3
                <5>3. [Write([nx EXCEPT ![x] = Nil], p, x) EXCEPT ![x] = n]
                        = [Write(nx, p, x) EXCEPT ![x] = n]
                    <6>1. CASE p = Nil
                        BY <6>1, <4>2 DEF Write
                    <6>2. CASE p # Nil
                        <7>1. p \in Nodes
                            BY <5>2, <6>2 DEF Pointers
                        <7>. QED
                            BY <6>2, <7>1, <4>2 DEF Write
                    <6>. QED
                        BY <6>1, <6>2
                <5>. QED
                    BY <5>1, <5>3
            <4>4. [[pv EXCEPT ![x] = Nil] EXCEPT ![x] = pv[n], ![n] = x]
                    = [pv EXCEPT ![x] = pv[n], ![n] = x]
                BY <4>2, <3>3, Overwritten
            <4>5. next' = [Write(a, pv[n], x) EXCEPT ![x] = n]
                BY <4>1, <4>3, <3>1
            <4>6. prev' = [b EXCEPT ![x] = pv[n], ![n] = x]
                BY <4>1, <4>4, <3>1
            <4>. QED
                BY <4>5, <4>6
        <3>7. Linked(d, next', prev')
            <4>. HIDE DEF a, b
            <4>. QED
                BY <3>3, <3>5, <3>6
        <3>8. /\ Len(d) = Len(r) + 1
              /\ \A i \in 1..Len(d) : d[i] = IF i < j THEN r[i] ELSE IF i = j THEN x ELSE r[i - 1]
              /\ \A y : In(d, y) <=> In(r, y) \/ y = x
            <4>1. j \in 1..Len(r) + 1
                BY <1>8
            <4>. QED
                BY <4>1, <3>4, <1>8, <1>10, WithIs
        <3>9. d[1] = (IF j = 1 THEN x ELSE r[1]) /\ d[Len(d)] = r[Len(r)] /\ Len(d) # 0 /\ Len(r) # 0
            <4>1. /\ Len(r) \in Nat /\ j \in Nat /\ 1 <= j /\ j <= Len(r)
                  /\ 1 \in 1..Len(d) /\ Len(d) \in 1..Len(d)
                BY <3>8, <1>8
            <4>2. d[1] = IF 1 < j THEN r[1] ELSE IF 1 = j THEN x ELSE r[0]
                BY <4>1, <3>8
            <4>3. d[Len(d)] = r[Len(d) - 1]
                BY <4>1, <3>8
            <4>4. Len(d) - 1 = Len(r)
                BY <4>1, <3>8
            <4>. QED
                BY <4>1, <4>2, <4>3, <4>4, <3>8
        <3>10. /\ r[1] = IF k = 1 THEN next[x] ELSE s[1]
               /\ r[Len(r)] = IF k = Len(s) THEN prev[x] ELSE s[Len(s)]
            BY <3>9, <1>9 DEF Ends
        <3>11. j = 1 <=> n = r[1]
            <4>1. 1 \in 1..Len(r)
                BY <3>9, <1>8
            <4>. QED
                BY <4>1, <3>2, <1>8 DEF Distinct
        <3>12. fst' = d[1]
            BY <3>1, <3>9, <3>10, <3>11, <1>10 DEF MoveFst
        <3>13. lst' = d[Len(d)]
            BY <3>1, <3>9, <3>10, <1>10
        <3>. QED
            BY <3>1, <3>7, <3>8, <3>9, <3>12, <3>13, <1>1, <1>2, <1>8 DEF Ends
    <2>2. CASE MoveLast(n, x)
        <3>1. /\ n \notin sign /\ lst # x
              /\ prev' = [Write(prev, next[x], prev[x]) EXCEPT ![x] = lst]
              /\ next' = [Write(next, prev[x], next[x]) EXCEPT ![x] = Nil, ![lst] = x]
              /\ fst' = IF fst = x THEN next[x] ELSE fst
              /\ lst' = x
            BY <2>2 DEF MoveLast
        <3>2. n # x /\ ~In(r, n) /\ k # Len(s) /\ Len(r) > 0
            BY <3>1, <1>1, <1>2, <1>8, <1>10
        <3>3. /\ r[1] = IF k = 1 THEN next[x] ELSE s[1]
              /\ r[Len(r)] = lst
            BY <3>2, <1>8, <1>9, <1>10 DEF Ends
        <3>4. d = With(r, Len(r) + 1, x)
            BY <3>2, <1>5, <1>8, PutIs
        <3>5. Linked(d, [a EXCEPT ![lst] = x], [b EXCEPT ![x] = lst])
            <4>. HIDE DEF a, b
            <4>. QED
                BY <3>2, <3>3, <3>4, <1>7, <1>10, PutLast
        <3>6. next' = [a EXCEPT ![lst] = x]
            BY <3>1
        <3>7. prev' = [b EXCEPT ![x] = lst]
            <4>1. lst \in Pointers
                BY <1>1, <1>3, <1>10 DEF Pointers
            <4>. QED
                BY <4>1, <3>1, <1>11, Overwritten
        <3>8. Linked(d, next', prev')
            BY <3>5, <3>6, <3>7
        <3>9. /\ Len(d) = Len(r) + 1
              /\ \A i \in 1..Len(d) :
                    d[i] = IF i < Len(r) + 1 THEN r[i] ELSE IF i = Len(r) + 1 THEN x ELSE r[i - 1]
              /\ \A y : In(d, y) <=> In(r, y) \/ y = x
            <4>1. Len(r) + 1 \in 1..Len(r) + 1
                BY <1>8
            <4>. QED
                BY <4>1, <3>4, <1>8, <1>10, WithIs
        <3>10. d[1] = r[1] /\ d[Len(d)] = x /\ Len(d) # 0
            BY <3>2, <3>9, <1>8
        <3>11. fst' = d[1] /\ lst' = d[Len(d)]
            BY <3>1, <3>3, <3>10, <1>10
        <3>. QED
            BY <3>2, <3>8, <3>9, <3>10, <3>11, <1>1, <1>2, <1>8 DEF Ends
    <2>. QED
        BY <2>1, <2>2 DEF Move
<1>13. sign' = {d[i] : i \in 1..Len(d)}
    <2>1. \A y : y \in sign' <=> In(d, y)
        BY <1>1, <1>2, <1>12
    <2>. QED
        BY <2>1 DEF In
<1>14. Forward' = d /\ IInv'
    <2>1. IsList(d, next', prev', sign', fst', lst', length') /\ act' \in sign' \cup {Nil}
        BY <1>1, <1>2, <1>12, <1>13 DEF IsList
    <2>. QED
        BY <2>1, ListAfter
<1>. QED
    BY <1>1, <1>2, <1>6, <1>12, <1>14

-----------------------------------------------------------------------------
(* swap() of two nodes that are no neighbours.                             *)

\* nx2 and pv2 are nx and pv with the nodes n and x in each other's place.
Crossed(nx, pv, n, x, nx2, pv2) ==
    /\ nx2 \in [Nodes -> Pointers] /\ pv2 \in [Nodes -> Pointers]
    /\ \A z \in Nodes :
         nx2[z] = IF z = pv[n] THEN x ELSE IF z = pv[x] THEN n
                  ELSE IF z = n THEN nx[x] ELSE IF z = x THEN nx[n] ELSE nx[z]
    /\ \A z \in Nodes :
         pv2[z] = IF z = nx[n] THEN x ELSE IF z = nx[x] THEN n
                  ELSE IF z = n THEN pv[x] ELSE IF z = x THEN pv[n] ELSE pv[z]

\* d is s with its nodes n at i and x at k in each other's place, which are no
\* neighbours.
Exchanged(s, d, i, k, n, x) ==
    /\ i \in 1..Len(s) /\ k \in 1..Len(s) /\ i # k /\ i + 1 # k /\ k + 1 # i
    /\ n = s[i] /\ x = s[k]
    /\ d = [s EXCEPT ![i] = x, ![k] = n]

\* The two repairs of a neighbour's pointers, on a pair of fields.
LEMMA PointBackIs ==
    ASSUME NEW f, NEW g, NEW z
    PROVE  PointBack([next |-> f, prev |-> g], z) = [next |-> Write(f, g[z], z), prev |-> g]
BY DEF PointBack

LEMMA PointOnIs ==
    ASSUME NEW f, NEW g, NEW z
    PROVE  PointOn([next |-> f, prev |-> g], z) = [next |-> f, prev |-> Write(g, f[z], z)]
BY DEF PointOn

\* What is left of the pointers when all of swap() was done.
LEMMA SwappedIs ==
    ASSUME IInv, NEW i \in 1..Len(Forward), NEW k \in 1..Len(Forward), i # k,
           NEW n, n = Forward[i], NEW x, x = Forward[k], next[n] # x, next[x] # n
    PROVE  Crossed(next, prev, n, x, Swapped(n, x).next, Swapped(n, x).prev)
<1>. DEFINE s == Forward
<1>1. Linked(s, next, prev) /\ i \in 1..Len(s) /\ k \in 1..Len(s) /\ n = s[i] /\ x = s[k]
    BY ListNow
<1>. HIDE DEF s
<1>2. /\ Len(s) \in Nat /\ next \in [Nodes -> Pointers] /\ prev \in [Nodes -> Pointers]
      /\ \A j \in 1..Len(s) : s[j] \in Nodes /\ s[j] # Nil
      /\ \A j, m \in 1..Len(s) : s[j] = s[m] <=> j = m
    BY <1>1, LinkedFacts
<1>3. /\ next[n] = IF i = Len(s) THEN Nil ELSE s[i + 1]
      /\ prev[n] = IF i = 1 THEN Nil ELSE s[i - 1]
      /\ next[x] = IF k = Len(s) THEN Nil ELSE s[k + 1]
      /\ prev[x] = IF k = 1 THEN Nil ELSE s[k - 1]
    BY <1>1, Neighbours
<1>4. n \in Nodes /\ x \in Nodes /\ n # x /\ n # Nil /\ x # Nil
    BY <1>1, <1>2
<1>5. /\ (i # 1 => i - 1 \in 1..Len(s)) /\ (k # 1 => k - 1 \in 1..Len(s))
      /\ (i # Len(s) => i + 1 \in 1..Len(s)) /\ (k # Len(s) => k + 1 \in 1..Len(s))
    BY <1>1, <1>2
<1>6. i + 1 # k /\ k + 1 # i /\ i - 1 # k /\ k - 1 # i
    <2>1. i + 1 # k
        BY <1>1, <1>2, <1>3
    <2>2. k + 1 # i
        BY <1>1, <1>2, <1>3
    <2>. QED
        BY <2>1, <2>2, <1>2
<1>7. /\ prev[n] # n /\ prev[n] # x /\ prev[x] # n /\ prev[x] # x
      /\ next[n] # n /\ next[n] # x /\ next[x] # n /\ next[x] # x
      /\ prev[n] = prev[x] => prev[n] = Nil
      /\ next[n] = next[x] => next[n] = Nil
    <2>1. prev[n] # n /\ prev[n] # x /\ prev[x] # n /\ prev[x] # x
        BY <1>1, <1>2, <1>3, <1>4, <1>5, <1>6
    <2>2. next[n] # n /\ next[x] # x
        BY <1>1, <1>2, <1>3, <1>4, <1>5, <1>6
    <2>3. prev[n] = prev[x] => prev[n] = Nil
        BY <1>2, <1>3, <1>5
    <2>4. next[n] = next[x] => next[n] = Nil
        BY <1>2, <1>3, <1>5
    <2>. QED
        BY <2>1, <2>2, <2>3, <2>4
<1>. DEFINE a == [next |-> [next EXCEPT ![n] = next[x], ![x] = next[n]],
                  prev |-> [prev EXCEPT ![n] = prev[x], ![x] = prev[n]]]
            b == PointBack(a, n)
            c == PointOn(b, n)
            d == PointBack(c, x)
            e == PointOn(d, x)
<1>8. /\ a.next \in [Nodes -> Pointers] /\ a.prev \in [Nodes -> Pointers]
      /\ \A z \in Nodes : a.next[z] = IF z = x THEN next[n] ELSE IF z = n THEN next[x] ELSE next[z]
      /\ \A z \in Nodes : a.prev[z] = IF z = x THEN prev[n] ELSE IF z = n THEN prev[x] ELSE prev[z]
    BY <1>2, <1>4
<1>9. a = [next |-> a.next, prev |-> a.prev]
    BY DEF a
<1>. HIDE DEF a
<1>10. b = [next |-> Write(a.next, a.prev[n], n), prev |-> a.prev]
    BY <1>9, PointBackIs
<1>. HIDE DEF b
<1>11. c = [next |-> b.next, prev |-> Write(b.prev, b.next[n], n)]
    <2>1. b = [next |-> b.next, prev |-> b.prev]
        BY <1>10
    <2>. QED
        BY <2>1, PointOnIs DEF c
<1>. HIDE DEF c
<1>12. d = [next |-> Write(c.next, c.prev[x], x), prev |-> c.prev]
    <2>1. c = [next |-> c.next, prev |-> c.prev]
        BY <1>11
    <2>. QED
        BY <2>1, PointBackIs DEF d
<1>. HIDE DEF d
<1>13. e = [next |-> d.next, prev |-> Write(d.prev, d.next[x], x)]
    <2>1. d = [next |-> d.next, prev |-> d.prev]
        BY <1>12
    <2>. QED
        BY <2>1, PointOnIs DEF e
<1>14. Swapped(n, x) = [next |-> Repair(e.next, n, x), prev |-> Repair(e.prev, n, x)]
    BY DEF Swapped, e, d, c, b, a
<1>. HIDE DEF a, b, c, d, e
<1>15. /\ a.prev[n] = prev[x] /\ a.next[n] = next[x] /\ a.prev[x] = prev[n] /\ a.next[x] = next[n]
       /\ {prev[n], prev[x], next[n], next[x]} \subseteq Pointers
    BY <1>2, <1>4, <1>8
<1>16. /\ b.next \in [Nodes -> Pointers]
       /\ \A z \in Nodes : b.next[z] = IF z = prev[x] THEN n ELSE a.next[z]
    <2>1. b.next = Write(a.next, prev[x], n)
        BY <1>10, <1>15
    <2>. QED
        BY <2>1, <1>4, <1>8, <1>15, QueueListAssumption DEF Write, Pointers
<1>17. b.next[n] = next[x] /\ b.next[x] = next[n]
    BY <1>16, <1>15, <1>4, <1>7
<1>18. /\ c.prev \in [Nodes -> Pointers]
       /\ \A z \in Nodes : c.prev[z] = IF z = next[x] THEN n ELSE a.prev[z]
    <2>1. c.prev = Write(a.prev, next[x], n)
        BY <1>10, <1>11, <1>17
    <2>. QED
        BY <2>1, <1>4, <1>8, <1>15, QueueListAssumption DEF Write, Pointers
<1>19. c.prev[x] = prev[n]
    BY <1>18, <1>15, <1>4, <1>7
<1>20. /\ d.next \in [Nodes -> Pointers]
       /\ \A z \in Nodes : d.next[z] = IF z = prev[n] THEN x ELSE b.next[z]
    <2>1. d.next = Write(b.next, prev[n], x)
        BY <1>11, <1>12, <1>19
    <2>. QED
        BY <2>1, <1>4, <1>15, <1>16, QueueListAssumption DEF Write, Pointers
<1>21. d.next[x] = next[n]
    BY <1>20, <1>17, <1>4, <1>7
<1>22. /\ e.prev \in [Nodes -> Pointers]
       /\ \A z \in Nodes : e.prev[z] = IF z = next[n] THEN x ELSE c.prev[z]
    <2>1. e.prev = Write(c.prev, next[n], x)
        BY <1>12, <1>13, <1>21
    <2>. QED
        BY <2>1, <1>4, <1>15, <1>18, QueueListAssumption DEF Write, Pointers
<1>23. /\ \A z \in Nodes :
            d.next[z] = IF z = prev[n] THEN x ELSE IF z = prev[x] THEN n
                        ELSE IF z = n THEN next[x] ELSE IF z = x THEN next[n] ELSE next[z]
       /\ \A z \in Nodes :
            e.prev[z] = IF z = next[n] THEN x ELSE IF z = next[x] THEN n
                        ELSE IF z = n THEN prev[x] ELSE IF z = x THEN prev[n] ELSE prev[z]
    BY <1>4, <1>8, <1>16, <1>18, <1>20, <1>22
<1>24. /\ Repair(d.next, n, x) = d.next
       /\ Repair(e.prev, n, x) = e.prev
    BY <1>4, <1>7, <1>23 DEF Repair
<1>25. Swapped(n, x).next = d.next /\ Swapped(n, x).prev = e.prev
    BY <1>14, <1>13, <1>24
<1>. QED
    BY <1>20, <1>22, <1>23, <1>25 DEF Crossed

\* A list with two nodes exchanged that are no neighbours.
LEMMA TwoExchanged ==
    ASSUME NEW s, NEW nx, NEW pv, Linked(s, nx, pv),
           NEW d, NEW i, NEW k, NEW n, NEW x, Exchanged(s, d, i, k, n, x),
           NEW nx2, NEW pv2, Crossed(nx, pv, n, x, nx2, pv2)
    PROVE  /\ Linked(d, nx2, pv2) /\ Len(d) = Len(s)
           /\ \A j \in 1..Len(s) : d[j] = IF j = k THEN n ELSE IF j = i THEN x ELSE s[j]
           /\ \A z : In(d, z) <=> In(s, z)
<1>0. /\ nx2 \in [Nodes -> Pointers] /\ pv2 \in [Nodes -> Pointers]
      /\ \A z \in Nodes :
           nx2[z] = IF z = pv[n] THEN x ELSE IF z = pv[x] THEN n
                    ELSE IF z = n THEN nx[x] ELSE IF z = x THEN nx[n] ELSE nx[z]
      /\ \A z \in Nodes :
           pv2[z] = IF z = nx[n] THEN x ELSE IF z = nx[x] THEN n
                    ELSE IF z = n THEN pv[x] ELSE IF z = x THEN pv[n] ELSE pv[z]
    BY DEF Crossed
<1>10. /\ i \in 1..Len(s) /\ k \in 1..Len(s) /\ i # k /\ i + 1 # k /\ k + 1 # i
       /\ n = s[i] /\ x = s[k]
    BY DEF Exchanged
<1>1. /\ s \in Seq(Nodes) /\ Len(s) \in Nat
      /\ nx \in [Nodes -> Pointers] /\ pv \in [Nodes -> Pointers]
      /\ \A j \in 1..Len(s) : s[j] \in Nodes /\ s[j] # Nil
      /\ \A j, m \in 1..Len(s) : s[j] = s[m] <=> j = m
    BY <1>10, LinkedFacts
<1>2. /\ nx[n] = IF i = Len(s) THEN Nil ELSE s[i + 1]
      /\ pv[n] = IF i = 1 THEN Nil ELSE s[i - 1]
      /\ nx[x] = IF k = Len(s) THEN Nil ELSE s[k + 1]
      /\ pv[x] = IF k = 1 THEN Nil ELSE s[k - 1]
      /\ n \in Nodes /\ x \in Nodes /\ n # x
    BY <1>10, <1>1 DEF Linked
<1>3. /\ d \in Seq(Nodes) /\ Len(d) = Len(s)
      /\ \A j \in 1..Len(s) : d[j] = IF j = k THEN n ELSE IF j = i THEN x ELSE s[j]
    BY <1>10, <1>1, <1>2 DEF Exchanged
<1>4. Distinct(d)
    BY <1>10, <1>1, <1>3 DEF Distinct
<1>5. \A z : In(d, z) <=> In(s, z)
    <2>1. ASSUME NEW z, In(d, z) PROVE In(s, z)
        BY <1>10, <2>1, <1>3 DEF In
    <2>2. ASSUME NEW j \in 1..Len(s) PROVE In(d, s[j])
        <3>1. CASE j = i
            BY <1>10, <3>1, <1>3 DEF In
        <3>2. CASE j = k
            BY <1>10, <3>2, <1>3 DEF In
        <3>3. CASE j # i /\ j # k
            BY <1>10, <3>3, <1>3 DEF In
        <3>. QED
            BY <1>10, <3>1, <3>2, <3>3
    <2>3. ASSUME NEW z, In(s, z) PROVE In(d, z)
        <3>1. PICK j \in 1..Len(s) : s[j] = z
            BY <1>10, <2>3 DEF In
        <3>. QED
            BY <1>10, <3>1, <2>2
    <2>. QED
        BY <1>10, <2>1, <2>3
<1>6. ASSUME NEW j \in 1..Len(s)
      PROVE  /\ s[j] = pv[n] <=> j = i - 1
             /\ s[j] = pv[x] <=> j = k - 1
             /\ s[j] = nx[n] <=> j = i + 1
             /\ s[j] = nx[x] <=> j = k + 1
    <2>1. j \in Nat /\ j >= 1 /\ j <= Len(s) /\ i \in Nat /\ k \in Nat
        BY <1>10, <1>1
    <2>2. s[j] = pv[n] <=> j = i - 1
        BY <1>10, <1>1, <1>2, <2>1
    <2>3. s[j] = pv[x] <=> j = k - 1
        BY <1>10, <1>1, <1>2, <2>1
    <2>4. s[j] = nx[n] <=> j = i + 1
        BY <1>10, <1>1, <1>2, <2>1
    <2>5. s[j] = nx[x] <=> j = k + 1
        BY <1>10, <1>1, <1>2, <2>1
    <2>. QED
        BY <1>10, <2>2, <2>3, <2>4, <2>5
<1>7. ASSUME NEW j \in 1..Len(s)
      PROVE  /\ nx2[d[j]] = IF j = Len(s) THEN Nil ELSE d[j + 1]
             /\ pv2[d[j]] = IF j = 1 THEN Nil ELSE d[j - 1]
    <2>1. /\ j \in Nat /\ i \in Nat /\ k \in Nat
          /\ j # Len(s) => j + 1 \in 1..Len(s)
          /\ j # 1 => j - 1 \in 1..Len(s)
        BY <1>10, <1>1
    <2>2. /\ j # Len(s) => d[j + 1] = IF j + 1 = k THEN n ELSE IF j + 1 = i THEN x ELSE s[j + 1]
          /\ j # 1 => d[j - 1] = IF j - 1 = k THEN n ELSE IF j - 1 = i THEN x ELSE s[j - 1]
        BY <1>10, <1>3, <2>1
    <2>3. CASE j = i
        <3>1. d[j] = x
            BY <1>10, <2>3, <1>3
        <3>2. x # pv[n] /\ x # pv[x] /\ x # nx[n] /\ x # nx[x]
            BY <1>10, <1>6, <2>1, <1>1
        <3>3. nx2[x] = nx[n] /\ pv2[x] = pv[n]
            BY <1>10, <3>2, <1>0, <1>2
        <3>. QED
            BY <1>10, <3>1, <3>3, <2>1, <2>2, <2>3, <1>2
    <2>4. CASE j = k
        <3>1. d[j] = n
            BY <1>10, <2>4, <1>3
        <3>2. n # pv[n] /\ n # pv[x] /\ n # nx[n] /\ n # nx[x]
            BY <1>10, <1>6, <2>1, <1>1
        <3>3. nx2[n] = nx[x] /\ pv2[n] = pv[x]
            BY <1>10, <3>2, <1>0, <1>2
        <3>. QED
            BY <1>10, <3>1, <3>3, <2>1, <2>2, <2>4, <1>2
    <2>5. CASE j # i /\ j # k
        <3>1. d[j] = s[j] /\ s[j] \in Nodes /\ s[j] # n /\ s[j] # x
            BY <1>10, <2>5, <1>1, <1>3
        <3>2. /\ nx2[s[j]] = IF j = i - 1 THEN x ELSE IF j = k - 1 THEN n ELSE nx[s[j]]
              /\ pv2[s[j]] = IF j = i + 1 THEN x ELSE IF j = k + 1 THEN n ELSE pv[s[j]]
            BY <1>10, <3>1, <1>0, <1>6
        <3>3. /\ nx[s[j]] = IF j = Len(s) THEN Nil ELSE s[j + 1]
              /\ pv[s[j]] = IF j = 1 THEN Nil ELSE s[j - 1]
            BY <1>10 DEF Linked
        <3>4. nx2[s[j]] = IF j = Len(s) THEN Nil ELSE d[j + 1]
            BY <1>10, <3>2, <3>3, <2>1, <2>2, <1>1
        <3>5. pv2[s[j]] = IF j = 1 THEN Nil ELSE d[j - 1]
            BY <1>10, <3>2, <3>3, <2>1, <2>2, <1>1
        <3>. QED
            BY <1>10, <3>1, <3>4, <3>5
    <2>. QED
        BY <1>10, <2>3, <2>4, <2>5
<1>8. ASSUME NEW z \in Nodes, ~In(d, z) PROVE nx2[z] = Nil /\ pv2[z] = Nil
    <2>1. ~In(s, z) /\ nx[z] = Nil /\ pv[z] = Nil
        BY <1>10, <1>5, <1>8 DEF Linked
    <2>2. z # n /\ z # x /\ z # pv[n] /\ z # pv[x] /\ z # nx[n] /\ z # nx[x]
        <3>1. /\ i # 1 => i - 1 \in 1..Len(s)
              /\ k # 1 => k - 1 \in 1..Len(s)
              /\ i # Len(s) => i + 1 \in 1..Len(s)
              /\ k # Len(s) => k + 1 \in 1..Len(s)
            BY <1>10, <1>1
        <3>. QED
            BY <1>10, <3>1, <2>1, <1>2, QueueListAssumption DEF In
    <2>. QED
        BY <1>10, <2>1, <2>2, <1>0
<1>9. Linked(d, nx2, pv2)
    BY <1>10, <1>0, <1>3, <1>4, <1>7, <1>8 DEF Linked
<1>. QED
    BY <1>10, <1>3, <1>5, <1>9

\* swap() exchanges the two nodes.
LEMMA Swaps ==
    ASSUME ~SwapNeighbours, IInv,
           NEW m \in Nodes \cup {Nil}, NEW y \in Nodes, Swap(m, y)
    PROVE  IInv' /\ List!Exchange(Pick(m), Pick(y)) /\ Pick(m) \in Nodes /\ Pick(y) \in Nodes
<1>. DEFINE s == Forward
            n == Pick(m)
            x == Pick(y)
            h == Swapped(n, x)
<1>1. /\ Linked(s, next, prev) /\ s \in Seq(Nodes) /\ Distinct(s)
      /\ Len(s) \in Nat /\ length = Len(s) /\ sign \subseteq Nodes
      /\ List!Members = sign /\ \A z : z \in sign <=> In(s, z)
      /\ ~Empty => fst = s[1] /\ lst = s[Len(s)] /\ lst \in sign
      /\ Empty <=> Len(s) = 0
      /\ act \in sign \cup {Nil}
    BY ListNow
<1>2. /\ ~Empty /\ n # x /\ next[n] # x /\ next[x] # n
      /\ fst' = Other(fst, n, x) /\ lst' = Other(lst, n, x)
      /\ next' = h.next /\ prev' = h.prev
      /\ sign' = sign /\ act' = act /\ length' = length
    BY DEF Swap
<1>3. n \in sign /\ x \in sign
    BY <1>1, <1>2 DEF Pick
<1>. HIDE DEF n, x
<1>4. PICK i \in 1..Len(s) : n = s[i]
    BY <1>1, <1>3 DEF In
<1>5. PICK k \in 1..Len(s) : x = s[k]
    BY <1>1, <1>3 DEF In
<1>6. i # k
    BY <1>2, <1>4, <1>5
<1>7. Crossed(next, prev, n, x, h.next, h.prev)
    BY <1>2, <1>4, <1>5, <1>6, SwappedIs
<1>. HIDE DEF h
<1>8. List!At(n) = i /\ List!At(x) = k
    BY <1>1, <1>4, <1>5, AtIs
<1>. DEFINE d == [s EXCEPT ![i] = x, ![k] = n]
<1>9. List!Exchange(n, x) <=> Forward' = d /\ act' = act
    BY <1>1, <1>3, <1>8 DEF List!Exchange
<1>. HIDE DEF s
<1>10. i + 1 # k /\ k + 1 # i
    <2>1. /\ next[n] = IF i = Len(s) THEN Nil ELSE s[i + 1]
          /\ next[x] = IF k = Len(s) THEN Nil ELSE s[k + 1]
        BY <1>1, <1>4, <1>5 DEF Linked
    <2>. QED
        BY <2>1, <1>1, <1>2, <1>4, <1>5
<1>11. /\ Linked(d, h.next, h.prev) /\ Len(d) = Len(s)
       /\ \A j \in 1..Len(s) : d[j] = IF j = k THEN n ELSE IF j = i THEN x ELSE s[j]
       /\ \A z : In(d, z) <=> In(s, z)
    <2>1. Exchanged(s, d, i, k, n, x)
        BY <1>4, <1>5, <1>6, <1>10 DEF d, Exchanged
    <2>. HIDE DEF d
    <2>. QED
        BY <2>1, <1>1, <1>7, TwoExchanged
<1>. HIDE DEF d
<1>12. Ends(d, fst', lst')
    <2>1. 1 \in 1..Len(s) /\ Len(s) \in 1..Len(s)
        BY <1>1, <1>2
    <2>2. fst = s[1] /\ lst = s[Len(s)]
        BY <1>1, <1>2
    <2>3. /\ s[1] = n <=> i = 1
          /\ s[1] = x <=> k = 1
          /\ s[Len(s)] = n <=> i = Len(s)
          /\ s[Len(s)] = x <=> k = Len(s)
        BY <1>1, <1>4, <1>5, <2>1 DEF Distinct
    <2>4. fst' = d[1]
        BY <1>2, <1>6, <1>11, <2>1, <2>2, <2>3 DEF Other
    <2>5. lst' = d[Len(d)]
        BY <1>2, <1>6, <1>11, <2>1, <2>2, <2>3 DEF Other
    <2>. QED
        BY <2>1, <2>4, <2>5, <1>11, <1>1 DEF Ends
<1>13. sign' = {d[j] : j \in 1..Len(d)}
    <2>1. \A z : z \in sign' <=> In(d, z)
        BY <1>1, <1>2, <1>11
    <2>. QED
        BY <2>1 DEF In
<1>14. Forward' = d /\ IInv'
    <2>1. IsList(d, next', prev', sign', fst', lst', length') /\ act' \in sign' \cup {Nil}
        BY <1>1, <1>2, <1>11, <1>12, <1>13 DEF IsList
    <2>. QED
        BY <2>1, ListAfter
<1>. QED
    BY <1>1, <1>2, <1>3, <1>9, <1>14 DEF n, x

-----------------------------------------------------------------------------
(* The cursor, clear(), and the list as a whole.                           *)

\* A step that moves the cursor onto a live node leaves the list alone.
LEMMA CursorOnly ==
    ASSUME IInv, NEW c \in sign, Steer(c)
    PROVE  IInv' /\ Forward' = Forward /\ act' = c
<1>. DEFINE s == Forward
<1>1. IsList(s, next, prev, sign, fst, lst, length)
    BY DEF IInv
<1>. HIDE DEF s
<1>2. IsList(s, next', prev', sign', fst', lst', length') /\ act' \in sign' \cup {Nil} /\ act' = c
    BY <1>1 DEF Steer
<1>3. Forward' = s /\ IInv'
    BY <1>2, ListAfter
<1>. QED
    BY <1>2, <1>3 DEF s

\* next() goes to the next node, from the last one or from nowhere to the
\* first; get() does the latter.
LEMMA StepsForward ==
    ASSUME IInv, Next_ \/ Get
    PROVE  IInv' /\ List!StepForward
<1>. DEFINE s == Forward
            c == IF act = Nil \/ next[act] = Nil THEN fst ELSE next[act]
<1>1. /\ Linked(s, next, prev) /\ s \in Seq(Nodes) /\ Distinct(s) /\ Len(s) \in Nat
      /\ \A n : n \in sign <=> In(s, n)
      /\ Empty <=> Len(s) = 0
      /\ ~Empty => fst = s[1] /\ lst = s[Len(s)] /\ Last = lst /\ fst \in sign
      /\ act \in sign \cup {Nil} /\ Nil \notin sign
    BY ListNow
<1>2. Steer(c) /\ ~Empty
    BY DEF Next_, Get
<1>3. List!StepForward <=>
          s # <<>> /\ act' = (IF act = Nil THEN s[1] ELSE List!After(act)) /\ Forward' = s
    BY DEF List!StepForward
<1>4. ASSUME NEW k \in 1..Len(s), act = s[k] PROVE List!After(act) = s[(k % Len(s)) + 1]
    BY <1>1, <1>4, AtIs DEF List!After
<1>. HIDE DEF s, c
<1>5. c \in sign /\ c = IF act = Nil THEN s[1] ELSE List!After(act)
    <2>1. CASE act = Nil
        BY <2>1, <1>1, <1>2 DEF c
    <2>2. CASE act # Nil
        <3>1. PICK k \in 1..Len(s) : act = s[k]
            BY <2>2, <1>1 DEF In
        <3>2. /\ next[act] = IF k = Len(s) THEN Nil ELSE s[k + 1]
              /\ next[act] = Nil <=> k = Len(s)
            BY <3>1, <1>1, Neighbours
        <3>3. CASE k = Len(s)
            <4>1. List!After(act) = s[1]
                BY <3>1, <3>3, <1>1, <1>4
            <4>. QED
                BY <4>1, <3>2, <3>3, <2>2, <1>1, <1>2 DEF c
        <3>4. CASE k # Len(s)
            <4>1. k % Len(s) = k /\ k + 1 \in 1..Len(s)
                BY <3>1, <3>4, <1>1
            <4>2. c = s[k + 1]
                BY <3>2, <3>4, <2>2 DEF c
            <4>. QED
                BY <4>1, <4>2, <3>1, <2>2, <1>1, <1>4 DEF In
        <3>. QED
            BY <3>3, <3>4
    <2>. QED
        BY <2>1, <2>2
<1>6. IInv' /\ Forward' = Forward /\ act' = c
    BY <1>2, <1>5, CursorOnly
<1>7. s # <<>>
    BY <1>1, <1>2
<1>. QED
    BY <1>3, <1>5, <1>6, <1>7 DEF s

\* prev() goes to the node before, from the first one or from nowhere to the
\* last.
LEMMA StepsBack ==
    ASSUME IInv, Prev_
    PROVE  IInv' /\ List!StepBack
<1>. DEFINE s == Forward
            c == IF act = Nil \/ prev[act] = Nil THEN Last ELSE prev[act]
<1>1. /\ Linked(s, next, prev) /\ s \in Seq(Nodes) /\ Distinct(s) /\ Len(s) \in Nat
      /\ \A n : n \in sign <=> In(s, n)
      /\ Empty <=> Len(s) = 0
      /\ ~Empty => fst = s[1] /\ lst = s[Len(s)] /\ Last = lst /\ lst \in sign
      /\ act \in sign \cup {Nil} /\ Nil \notin sign
    BY ListNow
<1>2. Steer(c) /\ ~Empty
    BY DEF Prev_
<1>3. List!StepBack <=>
          s # <<>> /\ act' = (IF act = Nil THEN s[Len(s)] ELSE List!Ahead(act)) /\ Forward' = s
    BY DEF List!StepBack
<1>4. ASSUME NEW k \in 1..Len(s), act = s[k]
      PROVE  List!Ahead(act) = IF k = 1 THEN s[Len(s)] ELSE s[k - 1]
    BY <1>1, <1>4, AtIs DEF List!Ahead
<1>. HIDE DEF s, c
<1>5. c \in sign /\ c = IF act = Nil THEN s[Len(s)] ELSE List!Ahead(act)
    <2>1. CASE act = Nil
        BY <2>1, <1>1, <1>2 DEF c
    <2>2. CASE act # Nil
        <3>1. PICK k \in 1..Len(s) : act = s[k]
            BY <2>2, <1>1 DEF In
        <3>2. /\ prev[act] = IF k = 1 THEN Nil ELSE s[k - 1]
              /\ prev[act] = Nil <=> k = 1
            BY <3>1, <1>1, Neighbours
        <3>3. CASE k = 1
            BY <3>1, <3>2, <3>3, <2>2, <1>1, <1>2, <1>4 DEF c
        <3>4. CASE k # 1
            <4>1. k - 1 \in 1..Len(s)
                BY <3>1, <3>4, <1>1
            <4>2. c = s[k - 1]
                BY <3>2, <3>4, <2>2 DEF c
            <4>. QED
                BY <4>1, <4>2, <3>1, <3>4, <2>2, <1>1, <1>4 DEF In
        <3>. QED
            BY <3>3, <3>4
    <2>. QED
        BY <2>1, <2>2
<1>6. IInv' /\ Forward' = Forward /\ act' = c
    BY <1>2, <1>5, CursorOnly
<1>7. s # <<>>
    BY <1>1, <1>2
<1>. QED
    BY <1>3, <1>5, <1>6, <1>7 DEF s

\* The list without a node.
LEMMA EmptyList == IsList(<<>>, Null, Null, {}, Nil, Nil, 0)
<1>1. Len(<<>>) = 0 /\ 1..Len(<<>>) = {} /\ <<>> \in Seq(Nodes)
    OBVIOUS
<1>2. Linked(<<>>, Null, Null)
    BY <1>1 DEF Linked, Distinct, Null, Pointers
<1>. QED
    BY <1>1, <1>2 DEF IsList, Ends

\* clear() forgets all nodes.
LEMMA Clears ==
    ASSUME IInv, Clear
    PROVE  IInv' /\ List!Forget
<1>1. IsList(<<>>, next', prev', sign', fst', lst', length') /\ act' = Nil
    BY EmptyList DEF Clear
<1>2. Forward' = <<>> /\ IInv'
    BY <1>1, ListAfter
<1>. QED
    BY <1>1, <1>2 DEF List!Forget

LEMMA InitIInv ==
    Init => IInv /\ List!ListInit
<1>. SUFFICES ASSUME Init PROVE IInv /\ List!ListInit
    OBVIOUS
<1>1. IsList(<<>>, next, prev, sign, fst, lst, length) /\ act = Nil /\ length = 0
    BY EmptyList DEF Init
<1>2. Forward = ChainOf(next, fst, 0)
    BY <1>1 DEF Forward, Chain, ChainOf
<1>3. Forward = <<>>
    <2>1. Linked(<<>>, next, prev) /\ Ends(<<>>, fst, lst) /\ Len(<<>>) = 0
        BY <1>1 DEF IsList
    <2>. QED
        BY <1>2, <2>1, Traversed
<1>. QED
    BY <1>1, <1>3 DEF IInv, List!ListInit

\* Every step is a step of the list, and leads to a list.
LEMMA NextIInv ==
    ASSUME ~SwapNeighbours, IInv, [Next]_vars
    PROVE  IInv' /\ [List!ListNext]_(List!listVars)
<1>1. ASSUME NEW n \in Nodes \cup {Nil}, Erase(n) PROVE IInv' /\ List!ListNext
    BY <1>1, Erases DEF List!ListNext
<1>2. ASSUME NEW n \in Nodes \cup {Nil}, NEW x \in Nodes, Insert(n, x)
      PROVE  IInv' /\ List!ListNext
    BY <1>2, Inserts DEF List!ListNext
<1>3. ASSUME NEW n \in Nodes \cup {Nil}, NEW x \in Nodes, Move(n, x)
      PROVE  IInv' /\ List!ListNext
    BY <1>3, Moves DEF List!ListNext
<1>4. ASSUME NEW n \in Nodes \cup {Nil}, NEW x \in Nodes, Swap(n, x)
      PROVE  IInv' /\ List!ListNext
    <2>1. IInv' /\ List!Exchange(Pick(n), Pick(x)) /\ Pick(n) \in Nodes /\ Pick(x) \in Nodes
        BY <1>4, Swaps
    <2>. QED
        BY <2>1 DEF List!ListNext
<1>5. ASSUME NEW x \in Nodes, Set(x) PROVE IInv' /\ List!ListNext
    <2>1. x \in sign /\ Steer(x) /\ List!Members = sign
        BY <1>5, ListNow DEF Set
    <2>2. IInv' /\ Forward' = Forward /\ act' = x
        BY <2>1, CursorOnly
    <2>3. List!PlaceOn(x)
        BY <2>1, <2>2 DEF List!PlaceOn
    <2>. QED
        BY <2>2, <2>3 DEF List!ListNext
<1>6. ASSUME Next_ \/ Get PROVE IInv' /\ List!ListNext
    BY <1>6, StepsForward DEF List!ListNext
<1>7. ASSUME Prev_ PROVE IInv' /\ List!ListNext
    BY <1>7, StepsBack DEF List!ListNext
<1>8. ASSUME Clear PROVE IInv' /\ List!ListNext
    BY <1>8, Clears DEF List!ListNext
<1>9. ASSUME UNCHANGED vars PROVE IInv' /\ UNCHANGED List!listVars
    <2>. DEFINE s == Forward
    <2>1. IsList(s, next, prev, sign, fst, lst, length) /\ act \in sign \cup {Nil}
        BY DEF IInv
    <2>. HIDE DEF s
    <2>2. IsList(s, next', prev', sign', fst', lst', length') /\ act' \in sign' \cup {Nil}
          /\ act' = act
        BY <2>1, <1>9 DEF vars
    <2>3. Forward' = s /\ IInv'
        BY <2>2, ListAfter
    <2>. QED
        BY <2>2, <2>3 DEF s, List!listVars
<1>. QED
    BY <1>1, <1>2, <1>3, <1>4, <1>5, <1>6, <1>7, <1>8, <1>9 DEF Next

-----------------------------------------------------------------------------
\* queue.h: whatever the operations and their order, with any number of nodes
\* and any addresses handed in, as long as no two neighbours are swapped, the
\* pointers link the live nodes and no others into one list, both ways, with
\* the ends, the length and the cursor that belong to it.
THEOREM Invariance == ~SwapNeighbours => (Spec => []IInv)
<1>. SUFFICES ASSUME ~SwapNeighbours PROVE Spec => []IInv
    OBVIOUS
<1>1. Init => IInv
    BY InitIInv
<1>2. IInv /\ [Next]_vars => IInv'
    BY NextIInv
<1>. QED
    BY <1>1, <1>2, PTL DEF Spec

\* queue.h: insert(), erase(), move(), swap(), clear() and the cursor do to
\* that list what CursorList promises of a sequence of nodes with a cursor.
THEOREM ListImplemented == ~SwapNeighbours => (Spec => ImplementsList)
<1>. SUFFICES ASSUME ~SwapNeighbours PROVE Spec => ImplementsList
    OBVIOUS
<1>1. Init => List!ListInit
    BY InitIInv
<1>2. IInv /\ [Next]_vars => [List!ListNext]_(List!listVars)
    BY NextIInv
<1>3. Spec => []IInv
    BY Invariance
<1>. QED
    BY <1>1, <1>2, <1>3, PTL DEF Spec, ImplementsList, List!ListSpec

\* ...and each operation is the one it is called after: insert() puts a new
\* node in its place, erase() takes out the one it names, next() steps on.
THEOREM OperationsKept == ~SwapNeighbours => (Spec => EachOperation)
<1>. SUFFICES ASSUME ~SwapNeighbours PROVE Spec => EachOperation
    OBVIOUS
<1>. DEFINE Named ==
        /\ \A n \in Nodes \cup {Nil}, x \in Nodes :
             /\ Insert(n, x) => List!PutNew(n, x)
             /\ Move(n, x) => List!Relocate(n, x)
             /\ Swap(n, x) => List!Exchange(Pick(n), Pick(x))
        /\ \A n \in Nodes \cup {Nil} : Erase(n) => List!TakeOut(Victim(n))
        /\ Next_ => List!StepForward
        /\ Prev_ => List!StepBack
<1>1. IInv => Named
    BY Inserts, Moves, Swaps, Erases, StepsForward, StepsBack
<1>2. Spec => []IInv
    BY Invariance
<1>. QED
    BY <1>1, <1>2, PTL DEF EachOperation

-----------------------------------------------------------------------------
(* The handles: what a thread has left to do.                              *)

Later == {"take", "move", "remake"}

StepSet ==
    ({"drop"} \X Handles) \cup ({"take", "move"} \X Handles \X Handles)
        \cup ({"make", "remake"} \X Handles \X Nat)
        \cup ({"destroy", "delete"} \X Held) \cup ({"add"} \X Held \X Nat)

\* Something is done first, or last, or to the node that was just destroyed;
\* and what was dropped is the handle that is then set.
Orderly(s) ==
    /\ s \in Seq(StepSet)
    /\ \A i \in 1..Len(s) :
          /\ s[i][1] \in {"drop", "make", "destroy", "add"} => i = 1
          /\ s[i][1] \in Later \cup {"make"} => i = Len(s)
          /\ s[i][1] = "delete" /\ i # 1 =>
                i = 2 /\ s[1][1] = "destroy" /\ s[1][2] = s[i][2]
          /\ s[i][1] \in Later /\ s[1][1] = "drop" => s[1][2] = s[i][2]

Doing(s, op, n) == \E i \in DOMAIN s : s[i][1] = op /\ s[i][2] = n

\* h is the handle that s sets in the end, having left its node.
Aims(s, h) ==
    /\ s # <<>> /\ s[1][1] # "drop"
    /\ s[Len(s)][1] \in Later /\ s[Len(s)][2] = h

\* The arguments of the steps.
LEMMA Arguments ==
    ASSUME NEW e \in StepSet
    PROVE  /\ e[1] \in {"drop", "make"} \cup Later => e[2] \in Handles
           /\ e[1] \in {"take", "move"} => e[3] \in Handles
           /\ e[1] \in {"make", "remake"} => e[3] \in Nat
           /\ e[1] \in {"destroy", "delete", "add"} => e[2] \in Held
           /\ e[1] \in {"drop", "make", "destroy", "delete", "add"} \cup Later
    BY DEF StepSet, Later

LEMMA Steps ==
    /\ \A h \in Handles : <<"drop", h>> \in StepSet
    /\ \A h, g \in Handles : <<"take", h, g>> \in StepSet /\ <<"move", h, g>> \in StepSet
    /\ \A h \in Handles, k \in Nat : <<"make", h, k>> \in StepSet /\ <<"remake", h, k>> \in StepSet
    /\ \A n \in Held : <<"destroy", n>> \in StepSet /\ <<"delete", n>> \in StepSet
    /\ \A n \in Held, k \in Nat : <<"add", n, k>> \in StepSet
    BY DEF StepSet

LEMMA Shape ==
    ASSUME NEW s, Orderly(s)
    PROVE  /\ Len(s) \in Nat /\ DOMAIN s = 1..Len(s) /\ \A i \in 1..Len(s) : s[i] \in StepSet
           /\ s # <<>> => Len(s) > 0 /\ s[1] \in StepSet
           /\ Len(s) > 0 => s # <<>>
<1>1. s \in Seq(StepSet)
    BY DEF Orderly
<1>2. Len(s) \in Nat /\ DOMAIN s = 1..Len(s) /\ \A i \in 1..Len(s) : s[i] \in StepSet
    BY <1>1, LenProperties, ElementOfSeq
<1>3. s # <<>> => Len(s) > 0
    BY <1>1, EmptySeq
<1>4. Len(s) > 0 => s # <<>>
    BY EmptySeq
<1>. QED
    BY <1>2, <1>3, <1>4

\* What is done to a node is what is done first, but for deleting it.
LEMMA DoneFirst ==
    ASSUME NEW s, Orderly(s), NEW n
    PROVE  /\ \A op \in {"destroy", "add"} :
                 Doing(s, op, n) <=> s # <<>> /\ s[1][1] = op /\ s[1][2] = n
           /\ Doing(s, "delete", n) =>
                 s # <<>> /\ s[1][1] \in {"destroy", "delete"} /\ s[1][2] = n
           /\ s # <<>> /\ s[1][1] = "delete" => Doing(s, "delete", s[1][2])
<1>. /\ Len(s) \in Nat /\ DOMAIN s = 1..Len(s)
     /\ s # <<>> <=> Len(s) > 0
    BY Shape
<1>1. ASSUME NEW op \in {"destroy", "add"}
      PROVE  Doing(s, op, n) <=> s # <<>> /\ s[1][1] = op /\ s[1][2] = n
    <2>1. \A i \in 1..Len(s) : s[i][1] = op => i = 1
        BY DEF Orderly
    <2>. QED
        BY <2>1 DEF Doing
<1>2. Doing(s, "delete", n) => s # <<>> /\ s[1][1] \in {"destroy", "delete"} /\ s[1][2] = n
    <2>1. \A i \in 1..Len(s) : s[i][1] = "delete" /\ i # 1 => s[1][1] = "destroy" /\ s[1][2] = s[i][2]
        BY DEF Orderly
    <2>. QED
        BY <2>1 DEF Doing
<1>3. s # <<>> /\ s[1][1] = "delete" => Doing(s, "delete", s[1][2])
    BY DEF Doing
<1>. QED
    BY <1>1, <1>2, <1>3

\* What is left when the first step is done.
LEMMA Rest ==
    ASSUME NEW s, Orderly(s), s # <<>>
    PROVE  /\ Orderly(Tail(s)) /\ Len(Tail(s)) = Len(s) - 1
           /\ \A i \in 1..Len(Tail(s)) : i + 1 \in 1..Len(s) /\ Tail(s)[i] = s[i + 1]
           /\ \A n : ~Doing(Tail(s), "destroy", n) /\ ~Doing(Tail(s), "add", n)
           /\ \A n : Doing(Tail(s), "delete", n) <=> s[1][1] # "delete" /\ Doing(s, "delete", n)
           /\ \A h : Aims(Tail(s), h) => Aims(s, h) \/ (s[1][1] = "drop" /\ s[1][2] = h)
           /\ s[1][1] \in Later \cup {"make"} => Tail(s) = <<>>
<1>1. /\ s \in Seq(StepSet) /\ Len(s) \in Nat /\ Len(s) > 0 /\ DOMAIN s = 1..Len(s)
      /\ \A i \in 1..Len(s) : s[i] \in StepSet
    BY Shape DEF Orderly
<1>. DEFINE r == Tail(s)
<1>2. /\ r \in Seq(StepSet) /\ Len(r) = Len(s) - 1
      /\ \A i \in 1..Len(r) : r[i] = s[i + 1]
    BY <1>1, HeadTailProperties
<1>3. Len(r) \in Nat /\ DOMAIN r = 1..Len(r)
    BY <1>2, LenProperties
<1>4. \A i \in 1..Len(r) : i + 1 \in 1..Len(s)
    BY <1>1, <1>2, <1>3
<1>. HIDE DEF r
<1>5. ASSUME NEW i \in 1..Len(r)
      PROVE  /\ r[i][1] \notin {"drop", "make", "destroy", "add"}
             /\ r[i][1] \in Later => i = Len(r)
             /\ r[i][1] = "delete" => i = 1 /\ s[1][1] = "destroy" /\ s[1][2] = r[i][2]
    <2>1. i + 1 \in 1..Len(s) /\ i + 1 # 1 /\ r[i] = s[i + 1]
        BY <1>2, <1>3, <1>4
    <2>2. r[i][1] \notin {"drop", "make", "destroy", "add"}
        <3>1. r[i][1] # "make"
            BY <2>1, <1>3, <1>2 DEF Orderly
        <3>. QED
            BY <2>1, <3>1 DEF Orderly
    <2>3. r[i][1] \in Later => i = Len(r)
        <3>1. r[i][1] \in Later => i + 1 = Len(s)
            BY <2>1 DEF Orderly
        <3>. QED
            BY <3>1, <1>2, <1>3
    <2>4. r[i][1] = "delete" => i + 1 = 2 /\ s[1][1] = "destroy" /\ s[1][2] = r[i][2]
        BY <2>1 DEF Orderly
    <2>. QED
        BY <2>2, <2>3, <2>4
<1>6. \A i \in 1..Len(r) : r[i][1] \in Later => r[1][1] # "drop"
    <2>1. \A i \in 1..Len(r) : 1 \in 1..Len(r)
        BY <1>3
    <2>. QED
        BY <2>1, <1>5
<1>7. Orderly(r)
    BY <1>2, <1>5, <1>6 DEF Orderly
<1>8. \A n : ~Doing(r, "destroy", n) /\ ~Doing(r, "add", n)
    BY <1>3, <1>5 DEF Doing
<1>9. ASSUME NEW n
      PROVE  Doing(r, "delete", n) <=> s[1][1] # "delete" /\ Doing(s, "delete", n)
    <2>1. Doing(r, "delete", n) => s[1][1] # "delete" /\ Doing(s, "delete", n)
        BY <1>1, <1>2, <1>3, <1>4, <1>5 DEF Doing
    <2>2. ASSUME s[1][1] # "delete", NEW i \in 1..Len(s), s[i][1] = "delete", s[i][2] = n
          PROVE  Doing(r, "delete", n)
        <3>1. i = 2
            BY <2>2 DEF Orderly
        <3>2. 1 \in 1..Len(r)
            BY <3>1, <1>1, <1>2
        <3>3. r[1] = s[2]
            BY <3>2, <1>2
        <3>. QED
            BY <3>1, <3>2, <3>3, <2>2, <1>3 DEF Doing
    <2>. QED
        BY <2>1, <2>2, <1>1 DEF Doing
<1>10. ASSUME NEW h, Aims(r, h)
       PROVE  Aims(s, h) \/ (s[1][1] = "drop" /\ s[1][2] = h)
    <2>1. Len(r) > 0 /\ Len(r) \in 1..Len(r)
        BY <1>10, <1>3, <1>2, EmptySeq DEF Aims
    <2>2. r[Len(r)] = s[Len(s)] /\ Len(s) \in 1..Len(s)
        BY <2>1, <1>1, <1>2
    <2>3. s[Len(s)][1] \in Later /\ s[Len(s)][2] = h
        BY <2>2, <1>10 DEF Aims
    <2>. QED
        BY <2>2, <2>3 DEF Orderly, Aims
<1>11. s[1][1] \in Later \cup {"make"} => r = <<>>
    <2>1. s[1][1] \in Later \cup {"make"} => 1 = Len(s)
        <3>1. 1 \in 1..Len(s)
            BY <1>1
        <3>. QED
            BY <3>1 DEF Orderly
    <2>2. s[1][1] \in Later \cup {"make"} => Len(r) = 0
        BY <2>1, <1>2
    <2>. QED
        BY <2>2, <1>2, EmptySeq
<1>. QED
    BY <1>2, <1>4, <1>7, <1>8, <1>9, <1>10, <1>11 DEF r

LEMMA PairThen ==
    ASSUME NEW S, NEW e \in Seq(S), NEW r \in Seq(S), Len(e) = 2
    PROVE  /\ e \o r \in Seq(S) /\ Len(e \o r) = Len(r) + 2
           /\ \A i \in 1..Len(e \o r) : (e \o r)[i] = IF i <= 2 THEN e[i] ELSE r[i - 2]
<1>1. Len(r) \in Nat
    BY LenProperties
<1>2. /\ e \o r \in Seq(S) /\ Len(e \o r) = Len(e) + Len(r)
      /\ \A i \in 1..(Len(e) + Len(r)) : (e \o r)[i] = IF i <= Len(e) THEN e[i] ELSE r[i - Len(e)]
    BY ConcatProperties
<1>. QED
    BY <1>1, <1>2

\* What the last handle to leave a node has to do.
Parts(q, s, n) == q = << <<"destroy", n>>, <<"delete", n>> >> \o Tail(s)

LEMMA Leaving ==
    ASSUME NEW s, Orderly(s), s # <<>>, s[1][1] = "drop", NEW n \in Held,
           NEW q, Parts(q, s, n)
    PROVE  /\ Orderly(q)
           /\ \A m : Doing(q, "destroy", m) <=> m = n
           /\ \A m : Doing(q, "delete", m) <=> m = n
           /\ \A m : ~Doing(q, "add", m)
           /\ \A h : Aims(q, h) => s[1][2] = h
           /\ \A i \in 1..Len(q) :
                 \/ q[i][1] \in {"destroy", "delete"}
                 \/ q[i][1] \in Later /\ \E j \in 1..Len(s) : q[i] = s[j]
<1>. DEFINE r == Tail(s)  e == << <<"destroy", n>>, <<"delete", n>> >>
<1>1. /\ r \in Seq(StepSet) /\ Len(r) \in Nat
      /\ \A i \in 1..Len(r) : i + 1 \in 1..Len(s) /\ r[i] = s[i + 1]
    BY Rest, Shape DEF Orderly
<1>2. /\ e \in Seq(StepSet) /\ Len(e) = 2 /\ e[1] = <<"destroy", n>> /\ e[2] = <<"delete", n>>
    BY Steps
<1>. HIDE DEF r, e
<1>3. ASSUME NEW i \in 1..Len(r)
      PROVE  r[i] \in StepSet /\ r[i][1] \in Later /\ r[i][2] = s[1][2] /\ i = Len(r)
    <2>1. r[i] \in StepSet /\ r[i] = s[i + 1] /\ i + 1 \in 1..Len(s) /\ i + 1 # 1
        BY <1>1, ElementOfSeq
    <2>2. r[i][1] \notin {"drop", "make", "destroy", "add", "delete"}
        <3>1. r[i][1] \notin {"drop", "destroy", "add"}
            BY <2>1 DEF Orderly
        <3>2. r[i][1] # "make"
            BY <2>1, Rest DEF Orderly, r
        <3>3. r[i][1] # "delete"
            BY <2>1 DEF Orderly
        <3>. QED
            BY <3>1, <3>2, <3>3
    <2>3. r[i][1] \in Later
        BY <2>1, <2>2, Arguments
    <2>. QED
        BY <2>1, <2>3, Rest DEF Orderly, r
<1>4. q \in Seq(StepSet) /\ Len(q) = Len(r) + 2
      /\ \A i \in 1..Len(q) : q[i] = IF i <= 2 THEN e[i] ELSE r[i - 2]
    <2>1. q = e \o r
        BY DEF e, r, Parts
    <2>2. e \in Seq(StepSet) /\ r \in Seq(StepSet) /\ Len(e) = 2
        BY <1>1, <1>2
    <2>3. /\ e \o r \in Seq(StepSet) /\ Len(e \o r) = Len(r) + 2
          /\ \A i \in 1..Len(e \o r) : (e \o r)[i] = IF i <= 2 THEN e[i] ELSE r[i - 2]
        BY <2>2, PairThen
    <2>. QED
        BY <2>1, <2>3
<1>5. /\ 1 \in 1..Len(q) /\ 2 \in 1..Len(q) /\ DOMAIN q = 1..Len(q)
      /\ q[1][1] = "destroy" /\ q[1][2] = n /\ q[2][1] = "delete" /\ q[2][2] = n
    BY <1>1, <1>2, <1>4, LenProperties
<1>6. ASSUME NEW i \in 1..Len(q), i # 1, i # 2
      PROVE  i - 2 \in 1..Len(r) /\ q[i] = r[i - 2] /\ q[i][1] \in Later
             /\ q[i][2] = s[1][2] /\ i = Len(q)
    <2>1. i - 2 \in 1..Len(r) /\ q[i] = r[i - 2]
        BY <1>6, <1>1, <1>4
    <2>. QED
        BY <2>1, <1>1, <1>3, <1>4
<1>7. "destroy" \notin Later /\ "delete" \notin Later /\ "add" \notin Later
      /\ "drop" \notin Later /\ "make" \notin Later
    BY DEF Later
<1>8. Orderly(q)
    <2>1. ASSUME NEW i \in 1..Len(q)
          PROVE  /\ q[i][1] \in {"drop", "make", "destroy", "add"} => i = 1
                 /\ q[i][1] \in Later \cup {"make"} => i = Len(q)
                 /\ q[i][1] = "delete" /\ i # 1 => i = 2 /\ q[1][1] = "destroy" /\ q[1][2] = q[i][2]
                 /\ q[i][1] \in Later /\ q[1][1] = "drop" => q[1][2] = q[i][2]
        <3>1. CASE i = 1
            BY <3>1, <1>5, <1>7
        <3>2. CASE i = 2
            <4>1. q[2][1] \notin {"drop", "make", "destroy", "add"} \cup Later
                BY <1>5, <1>7
            <4>. QED
                BY <3>2, <4>1, <1>5, Zenon
        <3>3. CASE i # 1 /\ i # 2
            <4>1. q[i][1] \in Later /\ i = Len(q) /\ q[1][1] # "drop"
                BY <3>3, <1>5, <1>6, Zenon
            <4>2. q[i][1] \notin {"drop", "make", "destroy", "add", "delete"}
                BY <4>1, <1>7
            <4>. QED
                BY <4>1, <4>2
        <3>. QED
            BY <3>1, <3>2, <3>3
    <2>. QED
        BY <2>1, <1>4 DEF Orderly
<1>9. ASSUME NEW i \in 1..Len(q), q[i][1] \notin Later
      PROVE  i = 1 \/ i = 2
    BY <1>6, <1>9
<1>10. ASSUME NEW m
       PROVE  /\ Doing(q, "destroy", m) <=> m = n
              /\ Doing(q, "delete", m) <=> m = n
              /\ ~Doing(q, "add", m)
    BY <1>5, <1>7, <1>9 DEF Doing
<1>11. ASSUME NEW h, Aims(q, h)
       PROVE  s[1][2] = h
    <2>1. Len(q) \in 1..Len(q)
        BY <1>1, <1>4
    <2>2. Len(q) # 1 /\ Len(q) # 2
        BY <1>5, <1>7, <1>11 DEF Aims
    <2>. QED
        BY <2>1, <2>2, <1>6, <1>11 DEF Aims
<1>12. ASSUME NEW i \in 1..Len(q)
       PROVE  \/ q[i][1] \in {"destroy", "delete"}
              \/ q[i][1] \in Later /\ \E j \in 1..Len(s) : q[i] = s[j]
    <2>1. CASE i = 1 \/ i = 2
        BY <2>1, <1>5
    <2>2. CASE i # 1 /\ i # 2
        <3>1. i - 2 \in 1..Len(r) /\ q[i] = r[i - 2] /\ q[i][1] \in Later
            BY <2>2, <1>6
        <3>. DEFINE k == i - 2
        <3>2. k \in 1..Len(r) /\ q[i] = r[k]
            BY <3>1
        <3>. HIDE DEF k
        <3>3. k + 1 \in 1..Len(s) /\ q[i] = s[k + 1]
            BY <3>2, <1>1
        <3>. QED
            BY <3>1, <3>3
    <2>. QED
        BY <2>1, <2>2
<1>. QED
    BY <1>8, <1>10, <1>11, <1>12

\* What a handle that joins a node has to do.
LEMMA Joining ==
    ASSUME NEW n \in Held, NEW k \in Nat, NEW q, q = << <<"add", n, k>> >>
    PROVE  /\ Orderly(q)
           /\ \A m : Doing(q, "add", m) <=> m = n
           /\ \A m : ~Doing(q, "destroy", m) /\ ~Doing(q, "delete", m)
           /\ \A h : ~Aims(q, h)
           /\ \A i \in 1..Len(q) : q[i][1] = "add"
<1>1. /\ q \in Seq(StepSet) /\ Len(q) = 1 /\ DOMAIN q = 1..1 /\ q[1][1] = "add" /\ q[1][2] = n
    BY Steps
<1>2. \A i \in 1..1 : i = 1
    OBVIOUS
<1>3. "add" \notin Later
    BY DEF Later
<1>. QED
    BY <1>1, <1>2, <1>3 DEF Orderly, Doing, Aims

\* The operations.
LEMMA Beginnings ==
    /\ \A h, g \in Handles, op \in {"take", "move"} : Orderly(<< <<"drop", h>>, <<op, h, g>> >>)
    /\ \A h \in Handles, k \in Nat : Orderly(<< <<"drop", h>>, <<"remake", h, k>> >>)
    /\ \A h \in Handles : Orderly(<< <<"drop", h>> >>)
    /\ \A h \in Handles, k \in Nat : Orderly(<< <<"make", h, k>> >>)
    /\ \A n \in Held : Orderly(<< <<"destroy", n>> >>)
<1>1. ASSUME NEW h \in Handles, NEW e \in StepSet, e[1] \in Later, e[2] = h
      PROVE  Orderly(<< <<"drop", h>>, e >>)
    <2>. DEFINE q == << <<"drop", h>>, e >>
    <2>1. q \in Seq(StepSet) /\ Len(q) = 2 /\ q[1] = <<"drop", h>> /\ q[2] = e
        BY Steps
    <2>2. q[1][1] = "drop" /\ q[1][2] = h /\ q[2][1] \in {"take", "move", "remake"} /\ q[2][2] = h
        BY <2>1, <1>1 DEF Later
    <2>. HIDE DEF q
    <2>3. \A i \in 1..2 : i = 1 \/ i = 2
        OBVIOUS
    <2>4. Orderly(q)
        BY <2>1, <2>2, <2>3 DEF Orderly, Later
    <2>. QED
        BY <2>4 DEF q
<1>2. ASSUME NEW e \in StepSet, e[1] \in {"drop", "make", "destroy"}
      PROVE  Orderly(<< e >>)
    <2>. DEFINE q == << e >>
    <2>1. q \in Seq(StepSet) /\ Len(q) = 1 /\ q[1] = e
        OBVIOUS
    <2>. HIDE DEF q
    <2>2. \A i \in 1..1 : i = 1
        OBVIOUS
    <2>3. Orderly(q)
        BY <2>1, <2>2, <1>2 DEF Orderly, Later
    <2>. QED
        BY <2>3 DEF q
<1>3. ASSUME NEW h \in Handles, NEW g \in Handles, NEW op \in {"take", "move"}
      PROVE  Orderly(<< <<"drop", h>>, <<op, h, g>> >>)
    <2>. DEFINE e == <<op, h, g>>
    <2>1. e \in StepSet /\ e[1] \in Later /\ e[2] = h
        BY Steps DEF Later
    <2>. HIDE DEF e
    <2>2. Orderly(<< <<"drop", h>>, e >>)
        BY <2>1, <1>1
    <2>. QED
        BY <2>2 DEF e
<1>4. ASSUME NEW h \in Handles, NEW k \in Nat
      PROVE  Orderly(<< <<"drop", h>>, <<"remake", h, k>> >>) /\ Orderly(<< <<"make", h, k>> >>)
    <2>. DEFINE e == <<"remake", h, k>>  f == <<"make", h, k>>
    <2>1. e \in StepSet /\ e[1] \in Later /\ e[2] = h /\ f \in StepSet /\ f[1] = "make"
        BY Steps DEF Later
    <2>. HIDE DEF e, f
    <2>2. Orderly(<< <<"drop", h>>, e >>) /\ Orderly(<< f >>)
        BY <2>1, <1>1, <1>2
    <2>. QED
        BY <2>2 DEF e, f
<1>5. \A h \in Handles : Orderly(<< <<"drop", h>> >>)
    BY <1>2, Steps
<1>6. \A n \in Held : Orderly(<< <<"destroy", n>> >>)
    BY <1>2, Steps
<1>. QED
    BY <1>3, <1>4, <1>5, <1>6

\* The handles that s is about are handles of t.
Owns(t, s) ==
    \A i \in 1..Len(s) :
        /\ s[i][1] \in {"drop", "make"} \cup Later => owner[s[i][2]] = t
        /\ s[i][1] \in {"take", "move"} => owner[s[i][3]] = t

-----------------------------------------------------------------------------
(* The inductive invariant of the handles.                                 *)

NodeSet == [count : Nat, length : Nat, value : {"live", "gone"}]

PtrTyped ==
    /\ owner \in [Handles -> Threads]
    /\ addr \in [Handles -> Held \cup {Nil}]
    /\ view \in [Handles -> [from : Nat, to : Nat]]
    /\ DOMAIN node \subseteq Held /\ node \in [DOMAIN node -> NodeSet]
    /\ todo \in [Threads -> Seq(StepSet)]

On(n)         == {h \in Handles : addr[h] = n}
Destroyers(n) == P!Pending("destroy", n)
Deleters(n)   == P!Pending("delete", n)
Adders(n)     == P!Pending("add", n)

\* A handle on no node, or on one whose value was freed.
Loose(h) == addr[h] = Nil \/ node[addr[h]].value = "gone"

PlanOK(t) ==
    /\ Orderly(todo[t]) /\ Owns(t, todo[t])
    /\ \A h \in Handles : Aims(todo[t], h) => Loose(h)

\* A node with a handle, or that somebody will work on, is there.
There(n) ==
    On(n) # {} \/ Destroyers(n) # {} \/ Deleters(n) # {} \/ Adders(n) # {} => n \in DOMAIN node

\* The count of a live node, and who has come to none.
Counts(n) ==
    n \in DOMAIN node =>
        /\ node[n].value = "live" =>
              /\ node[n].count + Cardinality(Adders(n)) = Cardinality(On(n))
              /\ node[n].count = 0 => Destroyers(n) # {}
        /\ node[n].value = "gone" => node[n].count = 0

\* One thread destroys, with nobody else on the node, and one deletes, with
\* nobody on it at all.
Alone(n) ==
    /\ \A t \in Destroyers(n) :
          /\ node[n].value = "live"
          /\ \A h \in On(n) : owner[h] = t
          /\ \A u \in Destroyers(n) \cup Deleters(n) : u = t
    /\ \A t \in Deleters(n) : On(n) = {} /\ \A u \in Deleters(n) : u = t

\* Who counts a handle has another one on the node.
Held2(n) ==
    \A t \in Adders(n) :
        /\ node[n].value = "live"
        /\ \E h, g \in On(n) : h # g /\ owner[h] = t /\ owner[g] = t

NodeOK(n) == There(n) /\ Counts(n) /\ Alone(n) /\ Held2(n)

Inside(h) ==
    addr[h] # Nil /\ node[addr[h]].value = "live" =>
        view[h].from <= view[h].to /\ view[h].to <= node[addr[h]].length

PtrInv ==
    /\ PtrTyped
    /\ \A t \in Threads : PlanOK(t)
    /\ \A n \in Held : NodeOK(n)
    /\ \A h \in Handles : Inside(h)

-----------------------------------------------------------------------------
(* What a thread does next, and what it leaves to the others.              *)

Turn(t, q) == todo' = [todo EXCEPT ![t] = q]

\* The same threads are to work on n; and n is what it was.
Unmoved(n) ==
    Destroyers(n)' = Destroyers(n) /\ Deleters(n)' = Deleters(n) /\ Adders(n)' = Adders(n)
Untouched(n) ==
    /\ n \in DOMAIN node' <=> n \in DOMAIN node
    /\ n \in DOMAIN node => node'[n] = node[n]

LEMMA Turned ==
    ASSUME PtrTyped, NEW t \in Threads, NEW q, Turn(t, q)
    PROVE  /\ todo'[t] = q /\ \A u \in Threads \ {t} : todo'[u] = todo[u]
           /\ \A op, n, u : u \in P!Pending(op, n) <=> u \in Threads /\ Doing(todo[u], op, n)
           /\ \A op, n, u : u \in P!Pending(op, n)' <=>
                 IF u = t THEN Doing(q, op, n) ELSE u \in P!Pending(op, n)
    BY DEF PtrTyped, Turn, P!Pending, Doing

\* A thread's part in what is to be done to n.
LEMMA Standing ==
    ASSUME PtrInv, NEW t \in Threads, NEW n
    PROVE  /\ t \in Destroyers(n) <=> todo[t] # <<>> /\ todo[t][1][1] = "destroy" /\ todo[t][1][2] = n
           /\ t \in Adders(n) <=> todo[t] # <<>> /\ todo[t][1][1] = "add" /\ todo[t][1][2] = n
           /\ t \in Deleters(n) =>
                 todo[t] # <<>> /\ todo[t][1][1] \in {"destroy", "delete"} /\ todo[t][1][2] = n
           /\ todo[t] # <<>> /\ todo[t][1][1] = "delete" /\ todo[t][1][2] = n => t \in Deleters(n)
<1>1. \A op : t \in P!Pending(op, n) <=> Doing(todo[t], op, n)
    BY DEF P!Pending, Doing
<1>2. Orderly(todo[t])
    BY DEF PtrInv, PlanOK
<1>. QED
    BY <1>1, <1>2, DoneFirst DEF Destroyers, Adders, Deleters

\* A thread at op.
LEMMA AtStep ==
    ASSUME PtrInv, NEW t \in Threads, NEW op, P!At(t, op)
    PROVE  /\ todo[t] # <<>> /\ todo[t] \in Seq(StepSet) /\ todo[t][1][1] = op
           /\ todo[t][1] \in StepSet /\ 1 \in 1..Len(todo[t])
           /\ Orderly(todo[t]) /\ Owns(t, todo[t])
           /\ \A h \in Handles : Aims(todo[t], h) => Loose(h)
           /\ op \in Later => Aims(todo[t], todo[t][1][2])
<1>1. todo[t] # <<>> /\ todo[t] \in Seq(StepSet) /\ todo[t][1][1] = op /\ PlanOK(t)
    BY DEF PtrInv, PtrTyped, P!At
<1>2. Orderly(todo[t]) /\ Owns(t, todo[t]) /\ \A h \in Handles : Aims(todo[t], h) => Loose(h)
    BY <1>1 DEF PlanOK
<1>3. Len(todo[t]) \in Nat /\ Len(todo[t]) > 0 /\ todo[t][1] \in StepSet
    BY <1>1, <1>2, Shape
<1>4. 1 \in 1..Len(todo[t])
    BY <1>3
<1>5. op \in Later => Aims(todo[t], todo[t][1][2])
    BY <1>1, <1>2, <1>4 DEF Orderly, Aims, Later
<1>. QED
    BY <1>1, <1>2, <1>3, <1>4, <1>5

LEMMA ThenTurn ==
    ASSUME PtrInv, NEW t \in Threads, todo[t] # <<>>, NEW ops, P!Then(t, ops)
    PROVE  /\ Turn(t, ops \o Tail(todo[t]))
           /\ ops = <<>> => Turn(t, Tail(todo[t]))
<1>1. todo[t] \in Seq(StepSet)
    BY DEF PtrInv, PtrTyped
<1>2. Tail(todo[t]) \in Seq(StepSet)
    BY <1>1, HeadTailProperties
<1>3. <<>> \o Tail(todo[t]) = Tail(todo[t])
    BY <1>2, ConcatEmptySeq
<1>4. Turn(t, ops \o Tail(todo[t]))
    BY DEF P!Then, Turn
<1>. QED
    BY <1>3, <1>4

\* A step that is none on a node leaves that to whoever it was.
LEMMA QuietRest ==
    ASSUME PtrInv, NEW t \in Threads, todo[t] # <<>>,
           todo[t][1][1] \notin {"destroy", "delete", "add"}, Turn(t, Tail(todo[t])), NEW n
    PROVE  Unmoved(n)
<1>1. /\ \A u : u \in Threads => ((u \in Destroyers(n))' <=> IF u = t THEN FALSE ELSE u \in Destroyers(n))
      /\ \A u : u \in Threads => ((u \in Adders(n))' <=> IF u = t THEN FALSE ELSE u \in Adders(n))
      /\ \A u : u \in Threads => ((u \in Deleters(n))' <=> IF u = t THEN FALSE ELSE u \in Deleters(n))
    <2>1. Orderly(todo[t])
        BY DEF PtrInv, PlanOK
    <2>2. ~Doing(Tail(todo[t]), "destroy", n) /\ ~Doing(Tail(todo[t]), "add", n)
        BY <2>1, Rest
    <2>3. ~Doing(Tail(todo[t]), "delete", n)
        BY <2>1, Rest, DoneFirst
    <2>. QED
        BY <2>2, <2>3, Turned DEF PtrInv, Destroyers, Adders, Deleters
<1>2. t \notin Destroyers(n) /\ t \notin Adders(n) /\ t \notin Deleters(n)
    BY Standing
<1>3. Destroyers(n) \cup Adders(n) \cup Deleters(n) \cup Destroyers(n)' \cup Adders(n)' \cup Deleters(n)'
        \subseteq Threads
    BY DEF Destroyers, Adders, Deleters, P!Pending
<1>. QED
    BY <1>1, <1>2, <1>3 DEF Unmoved

\* The plans, when t goes on with q.
LEMMA PlansKept ==
    ASSUME PtrInv, NEW t \in Threads, NEW q, Turn(t, q), owner' = owner, Orderly(q), Owns(t, q),
           \A h \in Handles : Aims(q, h) => Loose(h)',
           \A h \in Handles : owner[h] # t /\ Loose(h) => Loose(h)'
    PROVE  todo' \in [Threads -> Seq(StepSet)] /\ \A u \in Threads : PlanOK(u)'
<1>1. todo'[t] = q /\ \A u \in Threads \ {t} : todo'[u] = todo[u]
    BY Turned DEF PtrInv
<1>2. q \in Seq(StepSet) /\ todo \in [Threads -> Seq(StepSet)]
    BY DEF Orderly, PtrInv, PtrTyped
<1>3. todo' \in [Threads -> Seq(StepSet)]
    BY <1>2 DEF Turn
<1>4. PlanOK(t)'
    BY <1>1 DEF PlanOK, Owns
<1>5. ASSUME NEW u \in Threads \ {t}
      PROVE  PlanOK(u)'
    <2>1. PlanOK(u) /\ todo'[u] = todo[u]
        BY <1>1 DEF PtrInv
    <2>2. ASSUME NEW h \in Handles, Aims(todo[u], h)
          PROVE  Loose(h)'
        <3>1. Len(todo[u]) \in 1..Len(todo[u])
            BY <2>1, <2>2, Shape DEF PlanOK, Aims
        <3>2. owner[h] = u
            BY <3>1, <2>1, <2>2 DEF PlanOK, Owns, Aims
        <3>. QED
            BY <3>2, <2>1, <2>2 DEF PlanOK
    <2>. QED
        BY <2>1, <2>2 DEF PlanOK, Owns
<1>. QED
    BY <1>3, <1>4, <1>5

-----------------------------------------------------------------------------
(* The nodes.                                                              *)

LEMMA Finite ==
    ASSUME NEW n
    PROVE  /\ IsFiniteSet(On(n)) /\ IsFiniteSet(Adders(n))
           /\ Cardinality(On(n)) \in Nat /\ Cardinality(Adders(n)) \in Nat
           /\ On(n) \subseteq Handles /\ Adders(n) \subseteq Threads
           /\ Destroyers(n) \subseteq Threads /\ Deleters(n) \subseteq Threads
<1>1. /\ On(n) \subseteq Handles /\ Adders(n) \subseteq Threads
      /\ Destroyers(n) \subseteq Threads /\ Deleters(n) \subseteq Threads
    BY DEF On, Adders, Destroyers, Deleters, P!Pending
<1>. QED
    BY <1>1, MemoryAssumption, FS_Subset, FS_CardinalityType

\* A node that nobody comes to.
LEMMA NodeKept ==
    ASSUME NEW n \in Held, NodeOK(n), On(n)' = On(n), Unmoved(n), Untouched(n), owner' = owner
    PROVE  NodeOK(n)'
    BY DEF NodeOK, There, Counts, Alone, Held2, Unmoved, Untouched

\* A node whose value was freed, that a handle may leave.
LEMMA Forgotten ==
    ASSUME NEW n \in Held, NodeOK(n), n \in DOMAIN node, node[n].value = "gone",
           On(n)' \subseteq On(n), Unmoved(n), Untouched(n), owner' = owner
    PROVE  NodeOK(n)'
<1>1. Adders(n) = {} /\ Destroyers(n) = {}
    BY DEF NodeOK, Alone, Held2
<1>2. Adders(n)' = {} /\ Destroyers(n)' = {} /\ node'[n] = node[n] /\ n \in DOMAIN node'
    BY <1>1 DEF Unmoved, Untouched
<1>3. There(n)' /\ Counts(n)'
    BY <1>2 DEF NodeOK, There, Counts
<1>4. Alone(n)'
    BY <1>2 DEF NodeOK, Alone, Unmoved
<1>5. Held2(n)'
    BY <1>2 DEF Held2
<1>. QED
    BY <1>3, <1>4, <1>5 DEF NodeOK

\* The nodes of the handles are there.
LEMMA Present ==
    ASSUME PtrInv, NEW h \in Handles, addr[h] # Nil
    PROVE  /\ addr[h] \in Held /\ addr[h] \in DOMAIN node /\ node[addr[h]] \in NodeSet
           /\ h \in On(addr[h])
<1>1. addr[h] \in Held /\ h \in On(addr[h])
    BY DEF PtrInv, PtrTyped, On
<1>2. addr[h] \in DOMAIN node
    BY <1>1 DEF PtrInv, NodeOK, There
<1>. QED
    BY <1>1, <1>2 DEF PtrInv, PtrTyped

\* A thread with a handle on a node, which does not destroy it.
LEMMA Holder ==
    ASSUME PtrInv, NEW t \in Threads, NEW h \in Handles, owner[h] = t, addr[h] # Nil,
           t \notin Destroyers(addr[h])
    PROVE  /\ addr[h] \in Held /\ addr[h] \in DOMAIN node /\ NodeOK(addr[h]) /\ h \in On(addr[h])
           /\ node[addr[h]] \in NodeSet
           /\ Destroyers(addr[h]) = {} /\ Deleters(addr[h]) = {}
           /\ node[addr[h]].count = 0 <=> node[addr[h]].value = "gone"
<1>. DEFINE n == addr[h]
<1>1. n \in Held /\ h \in On(n)
    BY DEF PtrInv, PtrTyped, On
<1>. HIDE DEF n
<1>2. NodeOK(n) /\ n \in DOMAIN node
    BY <1>1 DEF PtrInv, NodeOK, There
<1>3. Destroyers(n) = {} /\ Deleters(n) = {}
    BY <1>1, <1>2 DEF NodeOK, Alone, n
<1>4. node[n] \in NodeSet
    BY <1>2 DEF PtrInv, PtrTyped
<1>5. node[n].count = 0 <=> node[n].value = "gone"
    BY <1>2, <1>3, <1>4 DEF NodeOK, Counts, NodeSet
<1>. QED
    BY <1>1, <1>2, <1>3, <1>4, <1>5 DEF n

\* When all who are on a node have two handles on it and stand for one, nobody
\* is.
LEMMA NobodyLeft ==
    ASSUME NEW S \in SUBSET Handles, NEW T \in SUBSET Threads, Cardinality(S) = Cardinality(T),
           \A u \in T : \E h, g \in S : h # g /\ owner[h] = u /\ owner[g] = u
    PROVE  S = {} /\ T = {}
<1>1. IsFiniteSet(S) /\ IsFiniteSet(T)
    BY MemoryAssumption, FS_Subset
<1>. DEFINE f == [u \in T |-> CHOOSE h \in S : owner[h] = u]
<1>2. \A u \in T : f[u] \in S /\ owner[f[u]] = u
    OBVIOUS
<1>3. f \in [T -> S]
    BY <1>2
<1>. HIDE DEF f
<1>4. f \in Injection(T, S)
    BY <1>2, <1>3 DEF Injection, IsInjective
<1>5. f \in Surjection(T, S)
    BY <1>1, <1>4, FS_Injection
<1>6. \A x \in S : \E u \in T : f[u] = x
    BY <1>5 DEF Surjection
<1>7. T = {}
    <2>. SUFFICES ASSUME NEW u \in T PROVE FALSE
        OBVIOUS
    <2>1. PICK h \in S, g \in S : h # g /\ owner[h] = u /\ owner[g] = u
        OBVIOUS
    <2>2. f[u] = h /\ f[u] = g
        BY <2>1, <1>2, <1>6
    <2>. QED
        BY <2>1, <2>2
<1>. QED
    BY <1>1, <1>7, FS_EmptySet

-----------------------------------------------------------------------------
(* Every step keeps the invariant of the handles.                          *)

\* What is left of the plan of t when its first step is done.
LEMMA OwnsRest ==
    ASSUME PtrInv, NEW t \in Threads, todo[t] # <<>>
    PROVE  Orderly(Tail(todo[t])) /\ Owns(t, Tail(todo[t]))
<1>1. Orderly(todo[t]) /\ Owns(t, todo[t])
    BY DEF PtrInv, PlanOK
<1>2. /\ Orderly(Tail(todo[t]))
      /\ \A i \in 1..Len(Tail(todo[t])) : i + 1 \in 1..Len(todo[t]) /\ Tail(todo[t])[i] = todo[t][i + 1]
    BY <1>1, Rest
<1>3. Owns(t, Tail(todo[t]))
    BY <1>1, <1>2 DEF Owns
<1>. QED
    BY <1>2, <1>3

\* A step that changes nothing but what the thread has left.
LEMMA Nothing ==
    ASSUME PtrInv, NEW t \in Threads, todo[t] # <<>>, Turn(t, Tail(todo[t])),
           todo[t][1][1] \notin {"destroy", "delete", "add"},
           \A h \in Handles : todo[t][1][1] = "drop" /\ todo[t][1][2] = h => Loose(h),
           UNCHANGED <<owner, addr, view, node>>
    PROVE  PtrInv'
<1>1. \A h \in Handles : Aims(Tail(todo[t]), h) => Loose(h)
    BY Rest DEF PtrInv, PlanOK
<1>2. todo' \in [Threads -> Seq(StepSet)] /\ \A u \in Threads : PlanOK(u)'
    <2>1. \A h \in Handles : Loose(h) => Loose(h)'
        BY DEF Loose
    <2>. QED
        BY <1>1, <2>1, OwnsRest, PlansKept
<1>3. ASSUME NEW n \in Held
      PROVE  NodeOK(n)'
    <2>1. NodeOK(n) /\ On(n)' = On(n) /\ Untouched(n) /\ owner' = owner
        BY DEF PtrInv, On, Untouched
    <2>2. Unmoved(n)
        BY QuietRest
    <2>. QED
        BY <2>1, <2>2, NodeKept
<1>4. \A h \in Handles : Inside(h)'
    BY DEF PtrInv, Inside
<1>. QED
    BY <1>2, <1>3, <1>4 DEF PtrInv, PtrTyped

\* A count that is set.
LEMMA Recounted ==
    ASSUME NEW D, NEW f \in [D -> NodeSet], NEW n \in D, NEW k \in Nat, NEW v \in {"live", "gone"},
           NEW g, g = [f EXCEPT ![n] = [count |-> k, length |-> f[n].length, value |-> v]]
    PROVE  /\ g \in [D -> NodeSet] /\ \A m \in D \ {n} : g[m] = f[m]
           /\ g[n].count = k /\ g[n].length = f[n].length /\ g[n].value = v
    BY DEF NodeSet

LEMMA Fields ==
    ASSUME NEW r \in NodeSet
    PROVE  \A k : [r EXCEPT !.count = k] = [count |-> k, length |-> r.length, value |-> r.value]
<1>1. PICK a, b, c : r = [count |-> a, length |-> b, value |-> c]
    BY DEF NodeSet
<1>2. r.count = a /\ r.length = b /\ r.value = c
    BY <1>1
<1>3. \A k : [[count |-> a, length |-> b, value |-> c] EXCEPT !.count = k]
                  = [count |-> k, length |-> b, value |-> c]
    OBVIOUS
<1>. QED
    BY <1>1, <1>2, <1>3

LEMMA DropKeeps ==
    ASSUME PtrInv, NEW t \in Threads, P!Drop(t)
    PROVE  PtrInv'
<1>. DEFINE s == todo[t]
<1>1. /\ s # <<>> /\ s[1][1] = "drop" /\ s[1] \in StepSet /\ Orderly(s) /\ Owns(t, s)
      /\ 1 \in 1..Len(s) /\ P!At(t, "drop")
    BY AtStep DEF P!Drop
<1>2. PICK h \in Handles, n \in {addr[s[1][2]]} : h = s[1][2] /\ n = addr[h] /\ owner[h] = t
    BY <1>1, Arguments DEF Owns
<1>3. \A m : t \notin Destroyers(m) /\ t \notin Adders(m) /\ t \notin Deleters(m)
    BY <1>1, Standing
<1>4. CASE n = Nil \/ node[n].count = 0
    <2>1. Turn(t, Tail(s)) /\ UNCHANGED <<owner, addr, view, node>>
        BY <1>1, <1>2, <1>4, ThenTurn DEF P!Drop, P!Arg
    <2>2. Loose(h)
        BY <1>2, <1>3, <1>4, Holder DEF Loose
    <2>. QED
        BY <1>1, <1>2, <2>1, <2>2, Nothing
<1>5. CASE n # Nil /\ node[n].count # 0
    <2>. DEFINE ops == IF node[n].count = 1 THEN << <<"destroy", n>>, <<"delete", n>> >> ELSE <<>>
                q == ops \o Tail(s)
    <2>1. /\ node' = [node EXCEPT ![n].count = @ - 1]
          /\ addr' = [addr EXCEPT ![h] = Nil] /\ view' = [view EXCEPT ![h] = P!NoView]
          /\ owner' = owner /\ P!Then(t, ops)
        BY <1>2, <1>5 DEF P!Drop, P!Arg
    <2>2. /\ n \in Held /\ n \in DOMAIN node /\ h \in On(n) /\ node[n] \in NodeSet
          /\ NodeOK(n) /\ Destroyers(n) = {} /\ Deleters(n) = {} /\ node[n].value = "live"
        BY <1>2, <1>3, <1>5, Holder DEF NodeSet
    <2>3. Turn(t, q) /\ (node[n].count # 1 => q = Tail(s))
        <3>1. Tail(s) \in Seq(StepSet)
            BY <1>1, HeadTailProperties DEF Orderly
        <3>. QED
            BY <1>1, <2>1, <3>1, ThenTurn, ConcatEmptySeq
    <2>4. node[n].count = 1 => Parts(q, s, n)
        BY DEF Parts
    <2>. HIDE DEF q, ops, s
    <2>5. /\ DOMAIN node' = DOMAIN node /\ \A m \in DOMAIN node \ {n} : node'[m] = node[m]
          /\ node'[n].value = "live" /\ node'[n].count = node[n].count - 1
          /\ node'[n].length = node[n].length /\ node'[n] \in NodeSet
          /\ node' \in [DOMAIN node' -> NodeSet]
        <3>1. node \in [DOMAIN node -> NodeSet] /\ node[n].count \in Nat \ {0}
            BY <2>2, <1>5 DEF PtrInv, PtrTyped, NodeSet
        <3>2. node' = [node EXCEPT ![n] = [node[n] EXCEPT !.count = @ - 1]]
            BY <2>1
        <3>3. node' = [node EXCEPT ![n] = [count |-> node[n].count - 1, length |-> node[n].length,
                                           value |-> "live"]]
            BY <2>2, <3>2, Fields
        <3>4. node[n].count - 1 \in Nat
            BY <3>1
        <3>5. DOMAIN node' = DOMAIN node
            BY <3>3
        <3>. QED
            BY <2>2, <3>1, <3>3, <3>4, <3>5, Recounted
    <2>6. /\ addr' \in [Handles -> Held \cup {Nil}] /\ addr'[h] = Nil
          /\ \A g \in Handles \ {h} : addr'[g] = addr[g] /\ view'[g] = view[g]
          /\ view' \in [Handles -> [from : Nat, to : Nat]]
        BY <1>2, <2>1 DEF PtrInv, PtrTyped, P!NoView
    <2>7. On(n)' = On(n) \ {h} /\ \A m \in Held \ {n} : On(m)' = On(m)
        BY <1>2, <2>2, <2>6, MemoryAssumption DEF On
    <2>8. Cardinality(On(n)') = Cardinality(On(n)) - 1
        BY <2>2, <2>7, Finite, FS_RemoveElement
    <2>9. /\ Cardinality(On(n)) \in Nat /\ Cardinality(Adders(n)) \in Nat
          /\ node[n].count + Cardinality(Adders(n)) = Cardinality(On(n))
          /\ node[n].count \in Nat
        BY <2>2, Finite DEF NodeOK, Counts, NodeSet
    <2>10. \A u \in Adders(n) : \E g, k \in On(n)' : g # k /\ owner[g] = u /\ owner[k] = u
        <3>. SUFFICES ASSUME NEW u \in Adders(n)
                      PROVE  \E g, k \in On(n)' : g # k /\ owner[g] = u /\ owner[k] = u
            OBVIOUS
        <3>1. PICK g \in On(n), k \in On(n) : g # k /\ owner[g] = u /\ owner[k] = u
            BY <2>2 DEF NodeOK, Held2
        <3>. QED
            BY <3>1, <1>2, <1>3, <2>7
    <2>11. \A g \in Handles : Loose(g) => Loose(g)'
        BY <2>2, <2>5, <2>6, Present DEF Loose
    <2>12. \A g \in Handles : Inside(g)'
        <3>. SUFFICES ASSUME NEW g \in Handles PROVE Inside(g)'
            OBVIOUS
        <3>1. CASE g = h
            BY <3>1, <2>6 DEF Inside
        <3>2. CASE g # h
            BY <3>2, <2>2, <2>5, <2>6, Present DEF PtrInv, Inside
        <3>. QED
            BY <3>1, <3>2
    <2>13. CASE node[n].count # 1
        <3>1. Turn(t, Tail(s))
            BY <2>3, <2>13
        <3>2. \A m : Unmoved(m)
            BY <3>1, <1>1, QuietRest DEF s
        <3>3. \A g \in Handles : Aims(Tail(s), g) => Loose(g)'
            <4>1. \A g \in Handles : Aims(Tail(s), g) => Loose(g) \/ g = h
                BY <1>1, <1>2, Rest, AtStep DEF s
            <4>. QED
                BY <4>1, <2>6, <2>11 DEF Loose
        <3>4. todo' \in [Threads -> Seq(StepSet)] /\ \A u \in Threads : PlanOK(u)'
            BY <3>1, <3>3, <1>1, <2>1, <2>11, OwnsRest, PlansKept DEF s
        <3>5. NodeOK(n)'
            <4>1. There(n)'
                BY <2>2, <2>5 DEF There
            <4>2. Counts(n)'
                BY <2>5, <2>8, <2>9, <2>13, <3>2 DEF Counts, Unmoved
            <4>3. Alone(n)'
                BY <2>2, <3>2 DEF Alone, Unmoved
            <4>4. Held2(n)'
                BY <2>1, <2>5, <2>10, <3>2 DEF Held2, Unmoved
            <4>. QED
                BY <4>1, <4>2, <4>3, <4>4 DEF NodeOK
        <3>6. ASSUME NEW m \in Held \ {n}
              PROVE  NodeOK(m)'
            BY <2>1, <2>5, <2>7, <3>2, NodeKept DEF PtrInv, Untouched
        <3>. QED
            BY <2>1, <2>5, <2>6, <2>12, <3>4, <3>5, <3>6 DEF PtrInv, PtrTyped
    <2>14. CASE node[n].count = 1
        <3>1. /\ Orderly(q)
              /\ \A m : Doing(q, "destroy", m) <=> m = n
              /\ \A m : Doing(q, "delete", m) <=> m = n
              /\ \A m : ~Doing(q, "add", m)
              /\ \A g : Aims(q, g) => h = g
              /\ \A i \in 1..Len(q) :
                    \/ q[i][1] \in {"destroy", "delete"}
                    \/ q[i][1] \in Later /\ \E j \in 1..Len(s) : q[i] = s[j]
            BY <1>1, <1>2, <2>2, <2>4, <2>14, Leaving
        <3>2. Owns(t, q)
            BY <1>1, <3>1 DEF Owns, Later
        <3>3. todo' \in [Threads -> Seq(StepSet)] /\ \A u \in Threads : PlanOK(u)'
            <4>1. \A g \in Handles : Aims(q, g) => Loose(g)'
                BY <3>1, <2>6 DEF Loose
            <4>. QED
                BY <4>1, <3>1, <3>2, <2>1, <2>3, <2>11, PlansKept
        <3>4. /\ Destroyers(n)' = {t} /\ Deleters(n)' = {t} /\ Adders(n)' = Adders(n)
              /\ \A m \in Held \ {n} : Unmoved(m)
            <4>1. ASSUME NEW m, NEW u
                  PROVE  /\ u \in Destroyers(m)' <=> IF u = t THEN m = n ELSE u \in Destroyers(m)
                         /\ u \in Deleters(m)' <=> IF u = t THEN m = n ELSE u \in Deleters(m)
                         /\ u \in Adders(m)' <=> u # t /\ u \in Adders(m)
                BY <3>1, <2>3, Turned DEF PtrInv, Destroyers, Deleters, Adders
            <4>2. Destroyers(n)' = {t} /\ Deleters(n)' = {t}
                BY <4>1, <2>2
            <4>3. Adders(n)' = Adders(n)
                <5>1. \A u : u \in Adders(n)' <=> u \in Adders(n)
                    BY <4>1, <1>3
                <5>. QED
                    BY <5>1
            <4>4. \A m \in Held \ {n} : Unmoved(m)
                BY <4>1, <1>3 DEF Unmoved
            <4>. QED
                BY <4>2, <4>3, <4>4
        <3>5. On(n)' = {} /\ Adders(n) = {}
            <4>1. Cardinality(On(n)') = Cardinality(Adders(n))
                BY <2>8, <2>9, <2>14
            <4>2. On(n)' \in SUBSET Handles /\ Adders(n) \in SUBSET Threads
                BY <2>7, Finite
            <4>. QED
                BY <4>1, <4>2, <2>10, NobodyLeft
        <3>6. NodeOK(n)'
            <4>1. There(n)'
                BY <2>2, <2>5 DEF There
            <4>2. Counts(n)'
                BY <2>5, <2>8, <2>9, <2>14, <3>4 DEF Counts
            <4>3. Alone(n)'
                BY <2>5, <3>4, <3>5 DEF Alone
            <4>4. Held2(n)'
                BY <3>4, <3>5 DEF Held2
            <4>. QED
                BY <4>1, <4>2, <4>3, <4>4 DEF NodeOK
        <3>7. ASSUME NEW m \in Held \ {n}
              PROVE  NodeOK(m)'
            BY <2>1, <2>5, <2>7, <3>4, NodeKept DEF PtrInv, Untouched
        <3>. QED
            BY <2>1, <2>5, <2>6, <2>12, <3>3, <3>6, <3>7 DEF PtrInv, PtrTyped
    <2>. QED
        BY <2>13, <2>14
<1>. QED
    BY <1>4, <1>5

LEMMA DestroyKeeps ==
    ASSUME PtrInv, NEW t \in Threads, P!Destroy(t)
    PROVE  PtrInv'
<1>. DEFINE s == todo[t]
<1>1. /\ s # <<>> /\ s[1][1] = "destroy" /\ s[1] \in StepSet /\ Orderly(s) /\ P!At(t, "destroy")
      /\ \A h \in Handles : Aims(s, h) => Loose(h)
    BY AtStep DEF P!Destroy
<1>2. PICK n \in Held : n = s[1][2]
    BY <1>1, Arguments
<1>3. t \in Destroyers(n) /\ NodeOK(n) /\ n \in DOMAIN node
    BY <1>1, <1>2, Standing DEF PtrInv, NodeOK, There
<1>4. /\ node' = [node EXCEPT ![n] = [count |-> 0, length |-> node[n].length, value |-> "gone"]]
      /\ UNCHANGED <<owner, addr, view>> /\ Turn(t, Tail(s))
    BY <1>1, <1>2, ThenTurn DEF P!Destroy, P!Arg
<1>. HIDE DEF s
<1>5. /\ DOMAIN node' = DOMAIN node /\ \A m \in DOMAIN node \ {n} : node'[m] = node[m]
      /\ node' \in [DOMAIN node' -> NodeSet] /\ node'[n].value = "gone" /\ node'[n].count = 0
    <2>1. node \in [DOMAIN node -> NodeSet] /\ DOMAIN node' = DOMAIN node
        BY <1>4 DEF PtrInv, PtrTyped
    <2>. QED
        BY <1>3, <1>4, <2>1, Recounted
<1>6. Destroyers(n) = {t} /\ Deleters(n) \subseteq {t} /\ Adders(n) = {}
    <2>1. Destroyers(n) = {t} /\ Deleters(n) \subseteq {t} /\ \A h \in On(n) : owner[h] = t
        BY <1>3 DEF NodeOK, Alone
    <2>2. t \notin Adders(n)
        BY <1>1, Standing DEF s
    <2>. QED
        BY <2>1, <2>2, <1>3 DEF NodeOK, Held2
<1>7. ASSUME NEW m
      PROVE  /\ Destroyers(m)' = Destroyers(m) \ {t} /\ Adders(m)' = Adders(m) \ {t}
             /\ Deleters(m)' = Deleters(m)
    <2>1. ASSUME NEW u
          PROVE  /\ u \in Destroyers(m)' <=> u # t /\ u \in Destroyers(m)
                 /\ u \in Adders(m)' <=> u # t /\ u \in Adders(m)
                 /\ u \in Deleters(m)' <=> u \in Deleters(m)
        <3>1. /\ ~Doing(Tail(s), "destroy", m) /\ ~Doing(Tail(s), "add", m)
              /\ Doing(Tail(s), "delete", m) <=> Doing(s, "delete", m)
            BY <1>1, Rest
        <3>. QED
            BY <3>1, <1>4, Turned DEF PtrInv, Destroyers, Adders, Deleters, s
    <2>. QED
        BY <2>1
<1>8. ASSUME NEW m \in Held \ {n}
      PROVE  Unmoved(m)
    <2>1. t \notin Destroyers(m) /\ t \notin Adders(m)
        BY <1>1, <1>2, Standing DEF s
    <2>. QED
        BY <2>1, <1>7 DEF Unmoved
<1>9. \A h \in Handles : Loose(h) => Loose(h)'
    BY <1>4, <1>5, Present DEF Loose
<1>10. todo' \in [Threads -> Seq(StepSet)] /\ \A u \in Threads : PlanOK(u)'
    <2>1. \A h \in Handles : Aims(Tail(s), h) => Loose(h)'
        BY <1>1, <1>9, Rest
    <2>. QED
        BY <2>1, <1>1, <1>4, <1>9, OwnsRest, PlansKept DEF s
<1>11. \A m : On(m)' = On(m)
    BY <1>4 DEF On
<1>12. NodeOK(n)'
    <2>1. There(n)'
        BY <1>3, <1>5 DEF There
    <2>2. Counts(n)'
        BY <1>5 DEF Counts
    <2>3. Alone(n)'
        BY <1>3, <1>6, <1>7, <1>11 DEF Alone, NodeOK
    <2>4. Held2(n)'
        BY <1>6, <1>7 DEF Held2
    <2>. QED
        BY <2>1, <2>2, <2>3, <2>4 DEF NodeOK
<1>13. ASSUME NEW m \in Held \ {n}
       PROVE  NodeOK(m)'
    BY <1>4, <1>5, <1>8, <1>11, NodeKept DEF PtrInv, Untouched
<1>14. \A h \in Handles : Inside(h)'
    BY <1>4, <1>5, Present DEF PtrInv, Inside
<1>. QED
    BY <1>4, <1>5, <1>10, <1>12, <1>13, <1>14 DEF PtrInv, PtrTyped

LEMMA DeleteKeeps ==
    ASSUME PtrInv, NEW t \in Threads, P!Delete(t)
    PROVE  PtrInv'
<1>. DEFINE s == todo[t]
<1>1. /\ s # <<>> /\ s[1][1] = "delete" /\ s[1] \in StepSet /\ Orderly(s) /\ P!At(t, "delete")
      /\ \A h \in Handles : Aims(s, h) => Loose(h)
    BY AtStep DEF P!Delete
<1>2. PICK n \in Held : n = s[1][2]
    BY <1>1, Arguments
<1>3. t \in Deleters(n) /\ NodeOK(n) /\ n \in DOMAIN node
    BY <1>1, <1>2, Standing DEF PtrInv, NodeOK, There
<1>4. /\ node' = [m \in DOMAIN node \ {n} |-> node[m]]
      /\ UNCHANGED <<owner, addr, view>> /\ Turn(t, Tail(s))
    BY <1>1, <1>2, ThenTurn DEF P!Delete, P!Arg
<1>. HIDE DEF s
<1>5. /\ DOMAIN node' = DOMAIN node \ {n} /\ \A m \in DOMAIN node \ {n} : node'[m] = node[m]
      /\ node' \in [DOMAIN node' -> NodeSet]
    BY <1>4 DEF PtrInv, PtrTyped
<1>6. Destroyers(n) = {} /\ Deleters(n) = {t} /\ On(n) = {} /\ Adders(n) = {}
    <2>1. Deleters(n) = {t} /\ On(n) = {}
        BY <1>3 DEF NodeOK, Alone
    <2>2. t \notin Destroyers(n)
        BY <1>1, Standing DEF s
    <2>3. \A u \in Destroyers(n) : u = t
        BY <2>1, <1>3 DEF NodeOK, Alone
    <2>. QED
        BY <2>1, <2>2, <2>3, <1>3 DEF NodeOK, Held2
<1>7. ASSUME NEW m
      PROVE  /\ Destroyers(m)' = Destroyers(m) \ {t} /\ Adders(m)' = Adders(m) \ {t}
             /\ Deleters(m)' = Deleters(m) \ {t}
    <2>1. ASSUME NEW u
          PROVE  /\ u \in Destroyers(m)' <=> u # t /\ u \in Destroyers(m)
                 /\ u \in Adders(m)' <=> u # t /\ u \in Adders(m)
                 /\ u \in Deleters(m)' <=> u # t /\ u \in Deleters(m)
        <3>1. /\ ~Doing(Tail(s), "destroy", m) /\ ~Doing(Tail(s), "add", m)
              /\ ~Doing(Tail(s), "delete", m)
            BY <1>1, Rest
        <3>. QED
            BY <3>1, <1>4, Turned DEF PtrInv, Destroyers, Adders, Deleters, s
    <2>. QED
        BY <2>1
<1>8. ASSUME NEW m \in Held \ {n}
      PROVE  Unmoved(m)
    <2>1. t \notin Destroyers(m) /\ t \notin Adders(m) /\ t \notin Deleters(m)
        BY <1>1, <1>2, Standing DEF s
    <2>. QED
        BY <2>1, <1>7 DEF Unmoved
<1>9. \A h \in Handles : addr[h] # Nil => addr[h] \in DOMAIN node \ {n}
    BY <1>6, Present
<1>10. todo' \in [Threads -> Seq(StepSet)] /\ \A u \in Threads : PlanOK(u)'
    <2>1. \A h \in Handles : Loose(h) => Loose(h)'
        BY <1>4, <1>5, <1>9 DEF Loose
    <2>2. \A h \in Handles : Aims(Tail(s), h) => Loose(h)'
        BY <1>1, <2>1, Rest
    <2>. QED
        BY <2>1, <2>2, <1>1, <1>4, OwnsRest, PlansKept DEF s
<1>11. \A m : On(m)' = On(m)
    BY <1>4 DEF On
<1>12. NodeOK(n)'
    <2>1. Destroyers(n)' = {} /\ Deleters(n)' = {} /\ On(n)' = {} /\ Adders(n)' = {}
        BY <1>6, <1>7, <1>11
    <2>2. There(n)' /\ Counts(n)'
        BY <2>1, <1>5 DEF There, Counts
    <2>3. Alone(n)' /\ Held2(n)'
        BY <2>1 DEF Alone, Held2
    <2>. QED
        BY <2>2, <2>3 DEF NodeOK
<1>13. ASSUME NEW m \in Held \ {n}
       PROVE  NodeOK(m)'
    BY <1>4, <1>5, <1>8, <1>11, NodeKept DEF PtrInv, Untouched
<1>14. \A h \in Handles : Inside(h)'
    BY <1>4, <1>5, <1>9 DEF PtrInv, Inside
<1>15. PtrTyped'
    <2>1. PtrTyped
        BY DEF PtrInv
    <2>2. owner' = owner /\ addr' = addr /\ view' = view
        BY <1>4
    <2>3. DOMAIN node' \subseteq Held
        BY <2>1, <1>5 DEF PtrTyped
    <2>. QED
        BY <2>1, <2>2, <2>3, <1>5, <1>10 DEF PtrTyped
<1>. QED
    BY <1>10, <1>12, <1>13, <1>14, <1>15 DEF PtrInv

LEMMA AddKeeps ==
    ASSUME PtrInv, NEW t \in Threads, P!Add(t)
    PROVE  PtrInv'
<1>. DEFINE s == todo[t]
<1>1. /\ s # <<>> /\ s[1][1] = "add" /\ s[1] \in StepSet /\ Orderly(s) /\ P!At(t, "add")
      /\ \A h \in Handles : Aims(s, h) => Loose(h)
    BY AtStep DEF P!Add
<1>2. PICK n \in Held : n = s[1][2]
    BY <1>1, Arguments
<1>3. /\ t \in Adders(n) /\ NodeOK(n) /\ n \in DOMAIN node /\ node[n] \in NodeSet
      /\ node[n].value = "live"
    <2>1. t \in Adders(n) /\ NodeOK(n)
        BY <1>1, <1>2, Standing DEF PtrInv
    <2>2. n \in DOMAIN node /\ node[n].value = "live"
        BY <2>1 DEF NodeOK, There, Held2
    <2>. QED
        BY <2>1, <2>2 DEF PtrInv, PtrTyped
<1>4. /\ node' = [node EXCEPT ![n].count = @ + 1]
      /\ UNCHANGED <<owner, addr, view>> /\ Turn(t, Tail(s))
    BY <1>1, <1>2, ThenTurn DEF P!Add, P!Arg, P!Counted
<1>. HIDE DEF s
<1>5. /\ DOMAIN node' = DOMAIN node /\ \A m \in DOMAIN node \ {n} : node'[m] = node[m]
      /\ node' \in [DOMAIN node' -> NodeSet] /\ node'[n].value = "live"
      /\ node'[n].count = node[n].count + 1 /\ node'[n].length = node[n].length
      /\ node[n].count \in Nat
    <2>1. /\ node \in [DOMAIN node -> NodeSet] /\ DOMAIN node' = DOMAIN node
          /\ node[n].count \in Nat /\ node[n].count + 1 \in Nat
        BY <1>3, <1>4 DEF PtrInv, PtrTyped, NodeSet
    <2>2. node' = [node EXCEPT ![n] = [node[n] EXCEPT !.count = @ + 1]]
        BY <1>4
    <2>3. node' = [node EXCEPT ![n] = [count |-> node[n].count + 1, length |-> node[n].length,
                                       value |-> "live"]]
        BY <1>3, <2>2, Fields
    <2>. QED
        BY <1>3, <2>1, <2>3, Recounted
<1>6. Destroyers(n) = {} /\ On(n) # {}
    <2>1. PICK h \in On(n) : owner[h] = t
        BY <1>3 DEF NodeOK, Held2
    <2>2. t \notin Destroyers(n)
        BY <1>1, Standing DEF s
    <2>. QED
        BY <2>1, <2>2, <1>3 DEF NodeOK, Alone
<1>7. ASSUME NEW m
      PROVE  /\ Destroyers(m)' = Destroyers(m) \ {t} /\ Adders(m)' = Adders(m) \ {t}
             /\ Deleters(m)' = Deleters(m) \ {t}
    <2>1. ASSUME NEW u
          PROVE  /\ u \in Destroyers(m)' <=> u # t /\ u \in Destroyers(m)
                 /\ u \in Adders(m)' <=> u # t /\ u \in Adders(m)
                 /\ u \in Deleters(m)' <=> u # t /\ u \in Deleters(m)
        <3>1. /\ ~Doing(Tail(s), "destroy", m) /\ ~Doing(Tail(s), "add", m)
              /\ ~Doing(Tail(s), "delete", m)
            BY <1>1, Rest, DoneFirst
        <3>. QED
            BY <3>1, <1>4, Turned DEF PtrInv, Destroyers, Adders, Deleters, s
    <2>. QED
        BY <2>1
<1>8. /\ \A m \in Held \ {n} : Unmoved(m)
      /\ Destroyers(n)' = {} /\ Deleters(n)' = {} /\ Adders(n)' = Adders(n) \ {t}
    <2>1. /\ \A m : t \notin Destroyers(m) /\ t \notin Deleters(m)
          /\ \A m \in Held \ {n} : t \notin Adders(m)
        BY <1>1, <1>2, Standing DEF s
    <2>2. Deleters(n) = {}
        BY <1>3, <1>6 DEF NodeOK, Alone
    <2>3. \A m \in Held \ {n} : Unmoved(m)
        BY <2>1, <1>7 DEF Unmoved
    <2>4. Destroyers(n)' = {} /\ Deleters(n)' = {} /\ Adders(n)' = Adders(n) \ {t}
        BY <2>2, <1>6, <1>7
    <2>. QED
        BY <2>3, <2>4
<1>9. \A h \in Handles : Loose(h) => Loose(h)'
    BY <1>3, <1>4, <1>5, Present DEF Loose
<1>10. todo' \in [Threads -> Seq(StepSet)] /\ \A u \in Threads : PlanOK(u)'
    <2>1. \A h \in Handles : Aims(Tail(s), h) => Loose(h)'
        BY <1>1, <1>9, Rest
    <2>. QED
        BY <2>1, <1>1, <1>4, <1>9, OwnsRest, PlansKept DEF s
<1>11. \A m : On(m)' = On(m)
    BY <1>4 DEF On
<1>12. NodeOK(n)'
    <2>1. There(n)'
        BY <1>3, <1>5 DEF There
    <2>2. Counts(n)'
        <3>1. Cardinality(Adders(n)') = Cardinality(Adders(n)) - 1
            BY <1>3, <1>8, Finite, FS_RemoveElement
        <3>2. node[n].count + Cardinality(Adders(n)) = Cardinality(On(n)')
            BY <1>3, <1>11 DEF NodeOK, Counts
        <3>. QED
            BY <3>1, <3>2, <1>5, Finite DEF Counts
    <2>3. Alone(n)'
        BY <1>8 DEF Alone
    <2>4. Held2(n)'
        BY <1>3, <1>4, <1>5, <1>8, <1>11 DEF Held2, NodeOK
    <2>. QED
        BY <2>1, <2>2, <2>3, <2>4 DEF NodeOK
<1>13. ASSUME NEW m \in Held \ {n}
       PROVE  NodeOK(m)'
    BY <1>4, <1>5, <1>8, <1>11, NodeKept DEF PtrInv, Untouched
<1>14. \A h \in Handles : Inside(h)'
    BY <1>3, <1>4, <1>5, Present DEF PtrInv, Inside
<1>. QED
    BY <1>4, <1>5, <1>10, <1>12, <1>13, <1>14 DEF PtrInv, PtrTyped

\* A handle that leaves its node and comes to m, if that is one.
LEMMA Comes ==
    ASSUME PtrInv, NEW h \in Handles, NEW m \in Held \cup {Nil}, addr' = [addr EXCEPT ![h] = m]
    PROVE  /\ \A n \in Held : On(n)' = IF n = m THEN On(n) \cup {h} ELSE On(n) \ {h}
           /\ addr' \in [Handles -> Held \cup {Nil}]
           /\ addr'[h] = m /\ \A f \in Handles \ {h} : addr'[f] = addr[f]
<1>1. /\ addr' \in [Handles -> Held \cup {Nil}]
      /\ addr'[h] = m /\ \A f \in Handles \ {h} : addr'[f] = addr[f]
    BY DEF PtrInv, PtrTyped
<1>2. ASSUME NEW n \in Held
      PROVE  On(n)' = IF n = m THEN On(n) \cup {h} ELSE On(n) \ {h}
    <2>1. \A f : f \in On(n)' <=> f \in Handles /\ addr'[f] = n
        BY DEF On
    <2>2. \A f : f \in On(n) <=> f \in Handles /\ addr[f] = n
        BY DEF On
    <2>. QED
        BY <1>1, <2>1, <2>2
<1>. QED
    BY <1>1, <1>2

LEMMA TakeKeeps ==
    ASSUME PtrInv, NEW t \in Threads, P!Take(t)
    PROVE  PtrInv'
<1>. DEFINE s == todo[t]
<1>1. /\ s # <<>> /\ s[1][1] = "take" /\ s[1] \in StepSet /\ Orderly(s) /\ Owns(t, s)
      /\ 1 \in 1..Len(s) /\ P!At(t, "take") /\ \A f \in Handles : Aims(s, f) => Loose(f)
      /\ Aims(s, s[1][2])
    BY AtStep DEF P!Take, Later
<1>2. PICK h \in Handles, g \in Handles : /\ h = s[1][2] /\ g = s[1][3]
                                          /\ owner[h] = t /\ owner[g] = t
    BY <1>1, Arguments DEF Owns, Later
<1>3. Loose(h) /\ \A m : t \notin Destroyers(m) /\ t \notin Adders(m) /\ t \notin Deleters(m)
    BY <1>1, <1>2, Standing
<1>4. CASE P!Null(g)
    <2>1. Turn(t, Tail(s)) /\ UNCHANGED <<owner, addr, view, node>>
        BY <1>1, <1>2, <1>4, ThenTurn DEF P!Take, P!Arg
    <2>. QED
        BY <1>1, <2>1, Nothing
<1>5. CASE ~P!Null(g)
    <2>1. PICK n, k, q : /\ n = addr[g] /\ k = node[n].count /\ q = << <<"add", n, k>> >>
        OBVIOUS
    <2>2. /\ n \in Held /\ n \in DOMAIN node /\ g \in On(n) /\ node[n] \in NodeSet
          /\ NodeOK(n) /\ Destroyers(n) = {} /\ Deleters(n) = {} /\ node[n].value = "live"
          /\ k \in Nat
        BY <1>2, <1>3, <1>5, <2>1, Holder DEF P!Null, NodeSet
    <2>3. h # g /\ h \notin On(n)
        BY <1>3, <2>1, <2>2, MemoryAssumption DEF Loose, On
    <2>4. /\ addr' = [addr EXCEPT ![h] = n] /\ view' = [view EXCEPT ![h] = view[g]]
          /\ UNCHANGED <<owner, node>> /\ P!Then(t, q)
        BY <1>2, <1>5, <2>1 DEF P!Take, P!Arg
    <2>5. Turn(t, q)
        <3>1. Turn(t, q \o Tail(s)) /\ Tail(s) = <<>>
            BY <1>1, <2>4, ThenTurn, Rest DEF Later
        <3>2. q \in Seq(StepSet)
            BY <2>1, <2>2, Steps
        <3>. QED
            BY <3>1, <3>2, ConcatEmptySeq
    <2>6. /\ Orderly(q)
          /\ \A m : Doing(q, "add", m) <=> m = n
          /\ \A m : ~Doing(q, "destroy", m) /\ ~Doing(q, "delete", m)
          /\ \A f : ~Aims(q, f)
          /\ \A i \in 1..Len(q) : q[i][1] = "add"
        BY <2>1, <2>2, Joining
    <2>. HIDE DEF s
    <2>7. /\ On(n)' = On(n) \cup {h} /\ \A m \in Held \ {n} : On(m)' = On(m) \ {h}
          /\ addr' \in [Handles -> Held \cup {Nil}] /\ addr'[h] = n
          /\ \A f \in Handles \ {h} : addr'[f] = addr[f]
        BY <2>2, <2>4, Comes
    <2>8. /\ view' \in [Handles -> [from : Nat, to : Nat]] /\ view'[h] = view[g]
          /\ \A f \in Handles \ {h} : view'[f] = view[f]
        BY <2>4 DEF PtrInv, PtrTyped
    <2>9. ASSUME NEW m, NEW u
          PROVE  /\ u \in Destroyers(m)' <=> u \in Destroyers(m)
                 /\ u \in Deleters(m)' <=> u \in Deleters(m)
                 /\ u \in Adders(m)' <=> (u = t /\ m = n) \/ u \in Adders(m)
        BY <1>3, <2>5, <2>6, Turned DEF PtrInv, Destroyers, Deleters, Adders
    <2>10. /\ Destroyers(n)' = {} /\ Deleters(n)' = {} /\ Adders(n)' = Adders(n) \cup {t}
        <3>1. Destroyers(n)' = {} /\ Deleters(n)' = {}
            BY <2>2, <2>9
        <3>2. Adders(n)' = Adders(n) \cup {t}
            BY <2>9
        <3>. QED
            BY <3>1, <3>2
    <2>11. ASSUME NEW m \in Held \ {n}
           PROVE  Unmoved(m)
        <3>1. \A u : /\ u \in Destroyers(m)' <=> u \in Destroyers(m)
                     /\ u \in Deleters(m)' <=> u \in Deleters(m)
                     /\ u \in Adders(m)' <=> u \in Adders(m)
            BY <2>9
        <3>. QED
            BY <3>1 DEF Unmoved
    <2>12. todo' \in [Threads -> Seq(StepSet)] /\ \A u \in Threads : PlanOK(u)'
        <3>1. Owns(t, q)
            BY <2>6 DEF Owns, Later
        <3>2. \A f \in Handles : owner[f] # t /\ Loose(f) => Loose(f)'
            BY <1>2, <2>4, <2>7 DEF Loose
        <3>. QED
            BY <3>1, <3>2, <2>4, <2>5, <2>6, PlansKept
    <2>13. NodeOK(n)'
        <3>1. There(n)'
            BY <2>2, <2>4 DEF There
        <3>2. Counts(n)'
            <4>1. /\ Cardinality(On(n)') = Cardinality(On(n)) + 1
                  /\ Cardinality(Adders(n)') = Cardinality(Adders(n)) + 1
                BY <1>3, <2>3, <2>7, <2>10, Finite, FS_AddElement
            <4>2. /\ k + Cardinality(Adders(n)) = Cardinality(On(n)) /\ k # 0
                BY <2>1, <2>2 DEF NodeOK, Counts
            <4>3. Cardinality(On(n)) \in Nat /\ Cardinality(Adders(n)) \in Nat
                BY Finite
            <4>4. k + Cardinality(Adders(n)') = Cardinality(On(n)')
                BY <4>1, <4>2, <4>3, <2>2
            <4>. QED
                BY <4>2, <4>4, <2>1, <2>2, <2>4 DEF Counts
        <3>3. Alone(n)'
            BY <2>10 DEF Alone
        <3>4. Held2(n)'
            BY <1>2, <2>2, <2>3, <2>4, <2>7, <2>10 DEF Held2, NodeOK
        <3>. QED
            BY <3>1, <3>2, <3>3, <3>4 DEF NodeOK
    <2>14. ASSUME NEW m \in Held \ {n}
           PROVE  NodeOK(m)'
        <3>1. NodeOK(m) /\ Untouched(m) /\ owner' = owner /\ Unmoved(m)
            BY <2>4, <2>11 DEF PtrInv, Untouched
        <3>2. CASE h \notin On(m)
            BY <2>7, <3>1, <3>2, NodeKept
        <3>3. CASE h \in On(m)
            <4>1. m \in DOMAIN node /\ node[m].value = "gone"
                BY <1>3, <3>3, Present, MemoryAssumption DEF Loose, On
            <4>. QED
                BY <2>7, <3>1, <4>1, Forgotten
        <3>. QED
            BY <3>2, <3>3
    <2>15. ASSUME NEW f \in Handles
           PROVE  Inside(f)'
        <3>1. CASE f = h
            BY <3>1, <2>1, <2>2, <2>4, <2>7, <2>8, MemoryAssumption DEF PtrInv, Inside
        <3>2. CASE f # h
            BY <3>2, <2>4, <2>7, <2>8 DEF PtrInv, Inside
        <3>. QED
            BY <3>1, <3>2
    <2>. QED
        BY <2>4, <2>7, <2>8, <2>12, <2>13, <2>14, <2>15 DEF PtrInv, PtrTyped
<1>. QED
    BY <1>4, <1>5

LEMMA MoveKeeps ==
    ASSUME PtrInv, NEW t \in Threads, P!MoveOver(t)
    PROVE  PtrInv'
<1>. DEFINE s == todo[t]
<1>1. /\ s # <<>> /\ s[1][1] = "move" /\ s[1] \in StepSet /\ Orderly(s) /\ Owns(t, s)
      /\ 1 \in 1..Len(s) /\ P!At(t, "move") /\ \A f \in Handles : Aims(s, f) => Loose(f)
      /\ Aims(s, s[1][2])
    BY AtStep DEF P!MoveOver, Later
<1>2. PICK h \in Handles, g \in Handles : /\ h = s[1][2] /\ g = s[1][3]
                                          /\ owner[h] = t /\ owner[g] = t
    BY <1>1, Arguments DEF Owns, Later
<1>3. Loose(h) /\ \A m : t \notin Destroyers(m) /\ t \notin Adders(m) /\ t \notin Deleters(m)
    BY <1>1, <1>2, Standing
<1>4. Turn(t, Tail(s)) /\ UNCHANGED <<owner, node>>
    BY <1>1, ThenTurn DEF P!MoveOver
<1>5. CASE P!Null(g)
    <2>1. UNCHANGED <<owner, addr, view, node>>
        BY <1>2, <1>5 DEF P!MoveOver, P!Arg
    <2>. QED
        BY <1>1, <1>4, <2>1, Nothing
<1>6. CASE ~P!Null(g)
    <2>1. PICK n : n = addr[g]
        OBVIOUS
    <2>2. /\ n \in Held /\ n \in DOMAIN node /\ g \in On(n) /\ node[n] \in NodeSet
          /\ NodeOK(n) /\ Destroyers(n) = {} /\ Deleters(n) = {} /\ node[n].value = "live"
        BY <1>2, <1>3, <1>6, <2>1, Holder DEF P!Null, NodeSet
    <2>3. h # g /\ h \notin On(n)
        BY <1>3, <2>1, <2>2, MemoryAssumption DEF Loose, On
    <2>4. /\ addr' = [addr EXCEPT ![h] = n, ![g] = Nil]
          /\ view' = [view EXCEPT ![h] = view[g], ![g] = P!NoView]
        BY <1>2, <1>6, <2>1 DEF P!MoveOver, P!Arg
    <2>. HIDE DEF s
    <2>5. /\ addr' \in [Handles -> Held \cup {Nil}] /\ addr'[h] = n /\ addr'[g] = Nil
          /\ \A f \in Handles \ {h, g} : addr'[f] = addr[f]
          /\ view' \in [Handles -> [from : Nat, to : Nat]] /\ view'[h] = view[g]
          /\ \A f \in Handles \ {h, g} : view'[f] = view[f]
        BY <2>2, <2>3, <2>4 DEF PtrInv, PtrTyped, P!NoView
    <2>6. /\ On(n)' = (On(n) \ {g}) \cup {h}
          /\ \A m \in Held \ {n} : On(m)' = On(m) \ {h}
        <3>1. \A m, f : f \in On(m)' <=> f \in Handles /\ addr'[f] = m
            BY DEF On
        <3>2. \A m, f : f \in On(m) <=> f \in Handles /\ addr[f] = m
            BY DEF On
        <3>3. On(n)' = (On(n) \ {g}) \cup {h}
            BY <3>1, <3>2, <2>2, <2>3, <2>5, MemoryAssumption
        <3>4. ASSUME NEW m \in Held \ {n}
              PROVE  On(m)' = On(m) \ {h}
            BY <3>1, <3>2, <2>1, <2>2, <2>5, MemoryAssumption
        <3>. QED
            BY <3>3, <3>4
    <2>7. \A m : Unmoved(m)
        BY <1>1, <1>4, QuietRest DEF s
    <2>8. todo' \in [Threads -> Seq(StepSet)] /\ \A u \in Threads : PlanOK(u)'
        <3>1. Tail(s) = <<>>
            BY <1>1, Rest DEF Later
        <3>2. \A f \in Handles : Aims(Tail(s), f) => Loose(f)'
            BY <3>1 DEF Aims
        <3>3. \A f \in Handles : owner[f] # t /\ Loose(f) => Loose(f)'
            BY <1>2, <1>4, <2>5 DEF Loose
        <3>. QED
            BY <3>2, <3>3, <1>1, <1>4, OwnsRest, PlansKept DEF s
    <2>9. NodeOK(n)'
        <3>1. There(n)'
            BY <2>2, <1>4 DEF There
        <3>2. Counts(n)'
            <4>1. Cardinality(On(n) \ {g}) = Cardinality(On(n)) - 1 /\ IsFiniteSet(On(n) \ {g})
                BY <2>2, Finite, FS_RemoveElement
            <4>2. Cardinality(On(n)') = Cardinality(On(n) \ {g}) + 1
                BY <4>1, <2>3, <2>6, FS_AddElement
            <4>3. Cardinality(On(n)') = Cardinality(On(n))
                BY <4>1, <4>2, Finite
            <4>. QED
                BY <4>3, <2>2, <2>7, <1>4 DEF NodeOK, Counts, Unmoved
        <3>3. Alone(n)'
            BY <2>2, <2>7 DEF Alone, Unmoved
        <3>4. Held2(n)'
            <4>1. ASSUME NEW u \in Adders(n)
                  PROVE  \E f, k \in On(n)' : f # k /\ owner[f] = u /\ owner[k] = u
                <5>1. PICK f \in On(n), k \in On(n) : f # k /\ owner[f] = u /\ owner[k] = u
                    BY <2>2 DEF NodeOK, Held2
                <5>. QED
                    BY <5>1, <1>2, <1>3, <2>6
            <4>. QED
                BY <4>1, <1>4, <2>2, <2>7 DEF Held2, Unmoved
        <3>. QED
            BY <3>1, <3>2, <3>3, <3>4 DEF NodeOK
    <2>10. ASSUME NEW m \in Held \ {n}
           PROVE  NodeOK(m)'
        <3>1. NodeOK(m) /\ Untouched(m) /\ owner' = owner /\ Unmoved(m)
            BY <1>4, <2>7 DEF PtrInv, Untouched
        <3>2. CASE h \notin On(m)
            BY <2>6, <3>1, <3>2, NodeKept
        <3>3. CASE h \in On(m)
            <4>1. m \in DOMAIN node /\ node[m].value = "gone"
                BY <1>3, <3>3, Present, MemoryAssumption DEF Loose, On
            <4>. QED
                BY <2>6, <3>1, <4>1, Forgotten
        <3>. QED
            BY <3>2, <3>3
    <2>11. ASSUME NEW f \in Handles
           PROVE  Inside(f)'
        <3>1. CASE f = h
            BY <3>1, <2>1, <2>2, <1>4, <2>5, MemoryAssumption DEF PtrInv, Inside
        <3>2. CASE f = g
            BY <3>2, <2>5 DEF Inside
        <3>3. CASE f # h /\ f # g
            BY <3>3, <1>4, <2>5 DEF PtrInv, Inside
        <3>. QED
            BY <3>1, <3>2, <3>3
    <2>. QED
        BY <1>4, <2>5, <2>8, <2>9, <2>10, <2>11 DEF PtrInv, PtrTyped
<1>. QED
    BY <1>5, <1>6

LEMMA MakeKeeps ==
    ASSUME PtrInv, NEW t \in Threads, P!Make(t)
    PROVE  PtrInv'
<1>. DEFINE s == todo[t]
<1>1. /\ P!At(t, "make") \/ P!At(t, "remake")
      /\ s # <<>> /\ s[1][1] \in {"make", "remake"} /\ s[1] \in StepSet /\ Orderly(s) /\ Owns(t, s)
      /\ 1 \in 1..Len(s) /\ \A f \in Handles : Aims(s, f) => Loose(f)
      /\ s[1][1] = "remake" => Aims(s, s[1][2])
    BY AtStep DEF P!Make, Later
<1>2. PICK h \in Handles, k \in Nat : h = s[1][2] /\ k = s[1][3] /\ owner[h] = t
    BY <1>1, Arguments DEF Owns, Later
<1>3. Turn(t, Tail(s)) /\ Tail(s) = <<>> /\ UNCHANGED owner
    BY <1>1, ThenTurn, Rest DEF P!Make, Later
<1>4. \A m : Unmoved(m)
    BY <1>1, <1>3, QuietRest
<1>5. ASSUME \A f \in Handles : owner[f] # t /\ Loose(f) => Loose(f)'
      PROVE  todo' \in [Threads -> Seq(StepSet)] /\ \A u \in Threads : PlanOK(u)'
    <2>1. \A f \in Handles : Aims(Tail(s), f) => Loose(f)'
        BY <1>3 DEF Aims
    <2>. QED
        BY <2>1, <1>1, <1>3, <1>5, OwnsRest, PlansKept
<1>6. CASE addr[h] # Nil /\ ~P!At(t, "remake")
    <2>1. UNCHANGED <<owner, addr, view, node>>
        BY <1>2, <1>3, <1>6 DEF P!Make, P!Arg, PtrInv, PtrTyped
    <2>2. s[1][1] # "drop"
        BY <1>1
    <2>. QED
        BY <1>1, <1>3, <2>1, <2>2, Nothing
<1>7. CASE addr[h] # Nil /\ P!At(t, "remake")
    <2>1. /\ addr' = [addr EXCEPT ![h] = Nil] /\ view' = [view EXCEPT ![h] = P!NoView]
          /\ UNCHANGED node
        BY <1>2, <1>7 DEF P!Make, P!Arg
    <2>2. Loose(h)
        BY <1>1, <1>2, <1>7 DEF P!At
    <2>. HIDE DEF s
    <2>3. /\ \A m \in Held : On(m)' = On(m) \ {h}
          /\ addr' \in [Handles -> Held \cup {Nil}] /\ addr'[h] = Nil
          /\ \A f \in Handles \ {h} : addr'[f] = addr[f]
        BY <2>1, Comes, MemoryAssumption
    <2>4. /\ view' \in [Handles -> [from : Nat, to : Nat]]
          /\ \A f \in Handles \ {h} : view'[f] = view[f]
        BY <2>1 DEF PtrInv, PtrTyped, P!NoView
    <2>5. \A f \in Handles : Loose(f) => Loose(f)'
        BY <2>1, <2>3 DEF Loose
    <2>6. ASSUME NEW m \in Held
          PROVE  NodeOK(m)'
        <3>1. NodeOK(m) /\ Untouched(m) /\ owner' = owner /\ Unmoved(m)
            BY <1>3, <1>4, <2>1 DEF PtrInv, Untouched
        <3>2. CASE h \notin On(m)
            BY <2>3, <3>1, <3>2, NodeKept
        <3>3. CASE h \in On(m)
            <4>1. m \in DOMAIN node /\ node[m].value = "gone"
                BY <2>2, <3>3, Present, MemoryAssumption DEF Loose, On
            <4>. QED
                BY <2>3, <3>1, <4>1, Forgotten
        <3>. QED
            BY <3>2, <3>3
    <2>7. ASSUME NEW f \in Handles
          PROVE  Inside(f)'
        <3>1. CASE f = h
            BY <3>1, <2>3 DEF Inside
        <3>2. CASE f # h
            BY <3>2, <2>1, <2>3, <2>4 DEF PtrInv, Inside
        <3>. QED
            BY <3>1, <3>2
    <2>. QED
        BY <1>3, <1>5, <2>1, <2>3, <2>4, <2>5, <2>6, <2>7 DEF PtrInv, PtrTyped
<1>8. CASE addr[h] = Nil
    <2>1. PICK n \in Held \ DOMAIN node :
             /\ node' = [m \in DOMAIN node \cup {n} |->
                            IF m = n THEN [count |-> 1, length |-> k, value |-> "live"] ELSE node[m]]
             /\ addr' = [addr EXCEPT ![h] = n]
             /\ view' = [view EXCEPT ![h] = [from |-> 0, to |-> k]]
        BY <1>2, <1>8 DEF P!Make, P!Arg
    <2>2. /\ DOMAIN node' = DOMAIN node \cup {n} /\ \A m \in DOMAIN node : node'[m] = node[m]
          /\ node'[n] = [count |-> 1, length |-> k, value |-> "live"]
          /\ node' \in [DOMAIN node' -> NodeSet] /\ DOMAIN node' \subseteq Held
        <3>1. [count |-> 1, length |-> k, value |-> "live"] \in NodeSet
            BY DEF NodeSet
        <3>. QED
            BY <2>1, <3>1 DEF PtrInv, PtrTyped
    <2>. HIDE DEF s
    <2>3. /\ On(n)' = On(n) \cup {h} /\ \A m \in Held \ {n} : On(m)' = On(m) \ {h}
          /\ addr' \in [Handles -> Held \cup {Nil}] /\ addr'[h] = n
          /\ \A f \in Handles \ {h} : addr'[f] = addr[f]
        BY <2>1, Comes
    <2>4. /\ view' \in [Handles -> [from : Nat, to : Nat]] /\ view'[h] = [from |-> 0, to |-> k]
          /\ \A f \in Handles \ {h} : view'[f] = view[f]
        BY <2>1 DEF PtrInv, PtrTyped
    <2>5. On(n) = {} /\ Destroyers(n) = {} /\ Deleters(n) = {} /\ Adders(n) = {}
        BY <2>1 DEF PtrInv, NodeOK, There
    <2>6. \A f \in Handles : owner[f] # t /\ Loose(f) => Loose(f)'
        BY <1>2, <2>2, <2>3, Present DEF Loose
    <2>7. NodeOK(n)'
        <3>1. On(n)' = {h} /\ Adders(n)' = {} /\ Destroyers(n)' = {} /\ Deleters(n)' = {}
            BY <1>4, <2>3, <2>5 DEF Unmoved
        <3>2. Cardinality(On(n)') = 1 /\ Cardinality(Adders(n)') = 0
            BY <3>1, FS_EmptySet, FS_Singleton
        <3>3. Counts(n)'
            BY <2>2, <3>2 DEF Counts
        <3>4. There(n)' /\ Alone(n)' /\ Held2(n)'
            BY <2>2, <3>1 DEF There, Alone, Held2
        <3>. QED
            BY <3>3, <3>4 DEF NodeOK
    <2>8. ASSUME NEW m \in Held \ {n}
          PROVE  NodeOK(m)'
        <3>1. NodeOK(m) /\ Untouched(m) /\ owner' = owner /\ Unmoved(m)
            BY <1>3, <1>4, <2>2 DEF PtrInv, Untouched
        <3>2. On(m)' = On(m)
            BY <1>8, <2>3, MemoryAssumption DEF On
        <3>. QED
            BY <3>1, <3>2, NodeKept
    <2>9. ASSUME NEW f \in Handles
          PROVE  Inside(f)'
        <3>1. CASE f = h
            BY <3>1, <2>2, <2>3, <2>4 DEF Inside
        <3>2. CASE f # h
            BY <3>2, <2>2, <2>3, <2>4, Present DEF PtrInv, Inside
        <3>. QED
            BY <3>1, <3>2
    <2>. QED
        BY <1>3, <1>5, <2>2, <2>3, <2>4, <2>6, <2>7, <2>8, <2>9 DEF PtrInv, PtrTyped
<1>. QED
    BY <1>6, <1>7, <1>8

LEMMA SliceKeeps ==
    ASSUME PtrInv, NEW t \in Threads, NEW h \in Handles, NEW w \in Windows,
           P!Slice(t, h, w[1], w[2])
    PROVE  PtrInv'
<1>. DEFINE v == P!Sliced(view[h], node[addr[h]].length, w[1], w[2])
<1>1. /\ view' = [view EXCEPT ![h] = v] /\ UNCHANGED <<owner, addr, node, todo>>
      /\ addr[h] # Nil
    BY DEF P!Slice, P!Null
<1>2. w[1] \in Nat /\ w[2] \in Nat /\ view[h].from \in Nat /\ view[h].to \in Nat
    BY MemoryAssumption DEF PtrInv, PtrTyped
<1>3. node[addr[h]].length \in Nat
    BY <1>1, Present DEF NodeSet
<1>4. v \in [from : Nat, to : Nat] /\ v.from <= v.to /\ v.to <= node[addr[h]].length
    BY <1>2, <1>3 DEF P!Sliced, P!Least, P!NoView
<1>. HIDE DEF v
<1>5. /\ view' \in [Handles -> [from : Nat, to : Nat]] /\ view'[h] = v
      /\ \A f \in Handles \ {h} : view'[f] = view[f]
    BY <1>1, <1>4 DEF PtrInv, PtrTyped
<1>6. \A f \in Handles : Inside(f)'
    <2>. SUFFICES ASSUME NEW f \in Handles PROVE Inside(f)'
        OBVIOUS
    <2>1. CASE f = h
        BY <2>1, <1>1, <1>4, <1>5 DEF Inside
    <2>2. CASE f # h
        BY <2>2, <1>1, <1>5 DEF PtrInv, Inside
    <2>. QED
        BY <2>1, <2>2
<1>7. \A u \in Threads : PlanOK(u)'
    BY <1>1 DEF PtrInv, PlanOK, Owns, Loose
<1>8. ASSUME NEW n \in Held
      PROVE  NodeOK(n)'
    <2>1. NodeOK(n) /\ On(n)' = On(n) /\ Untouched(n) /\ owner' = owner /\ Unmoved(n)
        BY <1>1 DEF PtrInv, On, Untouched, Unmoved, Destroyers, Deleters, Adders, P!Pending
    <2>. QED
        BY <2>1, NodeKept
<1>. QED
    BY <1>1, <1>5, <1>6, <1>7, <1>8 DEF PtrInv, PtrTyped

LEMMA SendKeeps ==
    ASSUME PtrInv, NEW t \in Threads, NEW h \in Handles, NEW v \in Threads, P!Send(t, h, v)
    PROVE  PtrInv'
<1>1. /\ owner' = [owner EXCEPT ![h] = v] /\ UNCHANGED <<addr, view, node, todo>>
      /\ owner[h] = t /\ todo[t] = <<>> /\ v # t
    BY DEF P!Send, P!Mine
<1>2. /\ owner' \in [Handles -> Threads] /\ owner'[h] = v
      /\ \A f \in Handles \ {h} : owner'[f] = owner[f]
    BY <1>1 DEF PtrInv, PtrTyped
<1>3. ASSUME NEW u \in Threads
      PROVE  PlanOK(u)'
    <2>1. PlanOK(u)
        BY DEF PtrInv
    <2>2. CASE u = t
        <3>1. Len(todo[u]) = 0 /\ todo[u] = <<>> /\ todo'[u] = todo[u]
            BY <1>1, <2>2
        <3>2. Owns(u, todo[u])' /\ \A f \in Handles : ~Aims(todo[u], f)'
            BY <3>1 DEF Owns, Aims
        <3>. QED
            BY <2>1, <3>1, <3>2 DEF PlanOK
    <2>3. CASE u # t
        <3>1. \A f \in Handles : owner[f] = u => owner'[f] = u
            BY <1>1, <1>2, <2>3
        <3>2. \A i \in 1..Len(todo[u]) : todo[u][i] \in StepSet
            BY <2>1, Shape DEF PlanOK
        <3>3. Owns(u, todo[u])'
            <4>. SUFFICES ASSUME NEW i \in 1..Len(todo[u])
                          PROVE  /\ todo[u][i][1] \in {"drop", "make"} \cup Later =>
                                        owner'[todo[u][i][2]] = u
                                 /\ todo[u][i][1] \in {"take", "move"} => owner'[todo[u][i][3]] = u
                BY <1>1 DEF Owns
            <4>. QED
                BY <2>1, <3>1, <3>2, Arguments DEF PlanOK, Owns
        <3>. QED
            BY <1>1, <2>1, <3>3 DEF PlanOK, Loose
    <2>. QED
        BY <2>2, <2>3
<1>4. ASSUME NEW n \in Held
      PROVE  NodeOK(n)'
    <2>1. NodeOK(n) /\ On(n)' = On(n) /\ Untouched(n) /\ Unmoved(n)
        BY <1>1 DEF PtrInv, On, Untouched, Unmoved, Destroyers, Deleters, Adders, P!Pending
    <2>2. t \notin Destroyers(n) /\ t \notin Adders(n)
        BY <1>1, Standing
    <2>3. There(n)' /\ Counts(n)'
        BY <1>1, <2>1 DEF NodeOK, There, Counts, Unmoved
    <2>4. Alone(n)'
        <3>1. Destroyers(n) # {} => h \notin On(n)
            BY <1>1, <2>1, <2>2 DEF NodeOK, Alone
        <3>2. \A f \in On(n) : f \in Handles
            BY DEF On
        <3>. QED
            BY <1>1, <1>2, <2>1, <3>1, <3>2 DEF NodeOK, Alone, Unmoved
    <2>5. Held2(n)'
        <3>1. ASSUME NEW u \in Adders(n)
              PROVE  \E f, k \in On(n) : f # k /\ owner'[f] = u /\ owner'[k] = u
            <4>1. PICK f \in On(n), k \in On(n) : f # k /\ owner[f] = u /\ owner[k] = u
                BY <2>1 DEF NodeOK, Held2
            <4>2. u # t /\ f \in Handles /\ k \in Handles
                BY <2>2 DEF On
            <4>. QED
                BY <4>1, <4>2, <1>1, <1>2
        <3>. QED
            BY <1>1, <2>1, <3>1 DEF NodeOK, Held2, Unmoved
    <2>. QED
        BY <2>3, <2>4, <2>5 DEF NodeOK
<1>5. \A f \in Handles : Inside(f)'
    BY <1>1 DEF PtrInv, Inside
<1>. QED
    BY <1>1, <1>2, <1>3, <1>4, <1>5 DEF PtrInv, PtrTyped

\* What a thread may set out to do.
Sound(t, q) ==
    /\ Orderly(q) /\ Owns(t, q) /\ \A h \in Handles : ~Aims(q, h)
    /\ \A n : ~Doing(q, "delete", n) /\ ~Doing(q, "add", n)
    /\ \A n : Doing(q, "destroy", n) =>
          /\ n \in DOMAIN node /\ node[n].value = "live" /\ On(n) # {}
          /\ \A h \in On(n) : owner[h] = t

LEMMA Planned ==
    ASSUME PtrInv, NEW t \in Threads, NEW q, todo[t] = <<>>, Turn(t, q), Sound(t, q),
           UNCHANGED <<owner, addr, view, node>>
    PROVE  PtrInv'
<1>1. todo' \in [Threads -> Seq(StepSet)] /\ \A u \in Threads : PlanOK(u)'
    <2>1. \A h \in Handles : Loose(h) => Loose(h)'
        BY DEF Loose
    <2>2. Orderly(q) /\ Owns(t, q) /\ \A h \in Handles : ~Aims(q, h)
        BY DEF Sound
    <2>. QED
        BY <2>1, <2>2, PlansKept
<1>2. ASSUME NEW n \in Held
      PROVE  NodeOK(n)'
    <2>1. NodeOK(n) /\ On(n)' = On(n) /\ Untouched(n) /\ owner' = owner
        BY DEF PtrInv, On, Untouched
    <2>2. t \notin Destroyers(n) /\ t \notin Adders(n) /\ t \notin Deleters(n)
        BY Standing
    <2>3. ASSUME NEW u
          PROVE  /\ u \in Destroyers(n)' <=> (u = t /\ Doing(q, "destroy", n)) \/ u \in Destroyers(n)
                 /\ u \in Deleters(n)' <=> u \in Deleters(n)
                 /\ u \in Adders(n)' <=> u \in Adders(n)
        BY <2>2, Turned DEF PtrInv, Destroyers, Deleters, Adders, Sound
    <2>4. Deleters(n)' = Deleters(n) /\ Adders(n)' = Adders(n)
        <3>1. /\ \A u : u \in Deleters(n)' <=> u \in Deleters(n)
              /\ \A u : u \in Adders(n)' <=> u \in Adders(n)
            BY <2>3
        <3>. QED
            BY <3>1
    <2>5. CASE ~Doing(q, "destroy", n)
        <3>1. \A u : u \in Destroyers(n)' <=> u \in Destroyers(n)
            BY <2>3, <2>5
        <3>2. Unmoved(n)
            BY <2>4, <3>1 DEF Unmoved
        <3>. QED
            BY <2>1, <3>2, NodeKept
    <2>6. CASE Doing(q, "destroy", n)
        <3>1. /\ n \in DOMAIN node /\ node[n].value = "live" /\ On(n) # {}
              /\ \A h \in On(n) : owner[h] = t
            BY <2>6 DEF Sound
        <3>2. Deleters(n) = {} /\ Destroyers(n) = {}
            BY <2>1, <2>2, <3>1 DEF NodeOK, Alone
        <3>3. Destroyers(n)' = {t} /\ Deleters(n)' = {}
            <4>1. \A u : u \in Destroyers(n)' <=> u = t
                BY <2>3, <2>6, <3>2
            <4>. QED
                BY <4>1, <2>4, <3>2
        <3>4. There(n)' /\ Counts(n)'
            BY <2>1, <2>4, <3>1, <3>3 DEF NodeOK, There, Counts
        <3>5. Alone(n)'
            BY <2>1, <3>1, <3>3 DEF Alone
        <3>6. Held2(n)'
            BY <2>1, <2>4 DEF NodeOK, Held2
        <3>. QED
            BY <3>4, <3>5, <3>6 DEF NodeOK
    <2>. QED
        BY <2>5, <2>6
<1>3. \A f \in Handles : Inside(f)'
    BY DEF PtrInv, Inside
<1>. QED
    BY <1>1, <1>2, <1>3 DEF PtrInv, PtrTyped

\* Every operation is sound: what it drops or makes is a handle of t, and what
\* it destroys is held by t alone.
LEMMA SoundPlans ==
    ASSUME PtrInv, NEW t \in Threads
    PROVE  /\ \A h, g \in Handles, op \in {"take", "move"} :
                 owner[h] = t /\ owner[g] = t => Sound(t, << <<"drop", h>>, <<op, h, g>> >>)
           /\ \A h \in Handles, k \in Nat :
                 owner[h] = t => /\ Sound(t, << <<"drop", h>>, <<"remake", h, k>> >>)
                                 /\ Sound(t, << <<"make", h, k>> >>)
           /\ \A h \in Handles : owner[h] = t => Sound(t, << <<"drop", h>> >>)
           /\ \A h \in Handles :
                 /\ addr[h] # Nil /\ node[addr[h]].value # "gone"
                 /\ \A g \in Handles : addr[g] = addr[h] => owner[g] = t
                 => Sound(t, << <<"destroy", addr[h]>> >>)
<1>1. ASSUME NEW q, Orderly(q), q # <<>>, q[1][1] \in {"drop", "make"},
             owner[q[1][2]] = t,
             \A i \in 1..Len(q) : i # 1 => /\ q[i][1] \in Later /\ owner[q[i][2]] = t
                                           /\ q[i][1] \in {"take", "move"} => owner[q[i][3]] = t
      PROVE  Sound(t, q)
    <2>1. Owns(t, q)
        BY <1>1 DEF Owns
    <2>2. \A h \in Handles : ~Aims(q, h)
        <3>1. CASE q[1][1] = "drop"
            BY <3>1 DEF Aims
        <3>2. CASE q[1][1] = "make"
            <4>1. 1 \in 1..Len(q)
                BY <1>1, Shape
            <4>2. 1 = Len(q)
                BY <1>1, <3>2, <4>1 DEF Orderly
            <4>. QED
                BY <3>2, <4>2 DEF Aims, Later
        <3>. QED
            BY <3>1, <3>2, <1>1
    <2>3. \A n : ~Doing(q, "delete", n) /\ ~Doing(q, "add", n) /\ ~Doing(q, "destroy", n)
        BY <1>1, DoneFirst
    <2>. QED
        BY <1>1, <2>1, <2>2, <2>3 DEF Sound
<1>2. ASSUME NEW h \in Handles, NEW g \in Handles, NEW op \in {"take", "move"},
             owner[h] = t, owner[g] = t
      PROVE  Sound(t, << <<"drop", h>>, <<op, h, g>> >>)
    <2>1. PICK q : q = << <<"drop", h>>, <<op, h, g>> >>
        OBVIOUS
    <2>2. /\ Orderly(q) /\ Len(q) = 2 /\ q # <<>> /\ q[1] = <<"drop", h>> /\ q[2] = <<op, h, g>>
        BY <2>1, Beginnings
    <2>3. \A i \in 1..2 : i # 1 => i = 2
        OBVIOUS
    <2>4. Sound(t, q)
        BY <1>1, <1>2, <2>2, <2>3 DEF Later
    <2>. QED
        BY <2>1, <2>4
<1>3. ASSUME NEW h \in Handles, NEW k \in Nat, owner[h] = t
      PROVE  Sound(t, << <<"drop", h>>, <<"remake", h, k>> >>)
    <2>1. PICK q : q = << <<"drop", h>>, <<"remake", h, k>> >>
        OBVIOUS
    <2>2. /\ Orderly(q) /\ Len(q) = 2 /\ q # <<>> /\ q[1] = <<"drop", h>> /\ q[2] = <<"remake", h, k>>
        BY <2>1, Beginnings
    <2>3. \A i \in 1..2 : i # 1 => i = 2
        OBVIOUS
    <2>4. Sound(t, q)
        BY <1>1, <1>3, <2>2, <2>3 DEF Later
    <2>. QED
        BY <2>1, <2>4
<1>4. ASSUME NEW h \in Handles, NEW k \in Nat, owner[h] = t
      PROVE  Sound(t, << <<"make", h, k>> >>) /\ Sound(t, << <<"drop", h>> >>)
    <2>1. PICK q, r : q = << <<"make", h, k>> >> /\ r = << <<"drop", h>> >>
        OBVIOUS
    <2>2. /\ Orderly(q) /\ Len(q) = 1 /\ q # <<>> /\ q[1] = <<"make", h, k>>
          /\ Orderly(r) /\ Len(r) = 1 /\ r # <<>> /\ r[1] = <<"drop", h>>
        BY <2>1, Beginnings
    <2>3. \A i \in 1..1 : i = 1
        OBVIOUS
    <2>4. Sound(t, q)
        BY <1>1, <1>4, <2>2, <2>3
    <2>5. Sound(t, r)
        BY <1>1, <1>4, <2>2, <2>3
    <2>. QED
        BY <2>1, <2>4, <2>5
<1>5. ASSUME NEW h \in Handles, addr[h] # Nil, node[addr[h]].value # "gone",
             \A g \in Handles : addr[g] = addr[h] => owner[g] = t
      PROVE  Sound(t, << <<"destroy", addr[h]>> >>)
    <2>1. PICK n, q : n = addr[h] /\ q = << <<"destroy", n>> >>
        OBVIOUS
    <2>2. n \in Held /\ n \in DOMAIN node /\ node[n].value = "live" /\ h \in On(n)
        BY <1>5, <2>1, Present DEF NodeSet
    <2>3. \A g \in On(n) : owner[g] = t
        BY <1>5, <2>1 DEF On
    <2>4. Orderly(q) /\ Len(q) = 1 /\ q # <<>> /\ q[1] = <<"destroy", n>>
        BY <2>1, <2>2, Beginnings
    <2>5. \A i \in 1..1 : i = 1
        OBVIOUS
    <2>6. Owns(t, q) /\ \A f \in Handles : ~Aims(q, f)
        BY <2>4, <2>5 DEF Owns, Aims, Later
    <2>7. ASSUME NEW m
          PROVE  ~Doing(q, "delete", m) /\ ~Doing(q, "add", m) /\ (Doing(q, "destroy", m) => m = n)
        <3>1. DOMAIN q = 1..1
            BY <2>4, Shape
        <3>. QED
            BY <3>1, <2>4, <2>5 DEF Doing
    <2>8. Sound(t, q)
        BY <2>2, <2>3, <2>4, <2>6, <2>7 DEF Sound
    <2>. QED
        BY <2>1, <2>8
<1>. QED
    BY <1>2, <1>3, <1>4, <1>5

LEMMA OperationKeeps ==
    ASSUME PtrInv, NEW t \in Threads, P!Operation(t)
    PROVE  PtrInv'
<1>1. UNCHANGED <<owner, addr, view, node>>
    BY DEF P!Operation
<1>2. \A q : P!Start(t, q) /\ Sound(t, q) => PtrInv'
    BY <1>1, Planned DEF P!Start, Turn
<1>3. PICK h \in Handles, g \in Handles :
         \/ P!Assign(t, h, g) \/ P!Move(t, h, g) \/ P!CopyOut(t, h, g)
         \/ P!Clear(t, h) \/ P!Free(t, h)
         \/ \E k \in Lengths : P!Resize(t, h, k)
    BY DEF P!Operation
<1>4. CASE P!Assign(t, h, g)
    BY <1>2, <1>4, SoundPlans DEF P!Assign, P!Mine
<1>5. CASE P!Move(t, h, g)
    BY <1>2, <1>5, SoundPlans DEF P!Move, P!Mine
<1>6. CASE P!CopyOut(t, h, g)
    <2>1. /\ owner[g] = t /\ addr[h] # Nil /\ node[addr[h]].value = "live" /\ view[h].from \in Nat
          /\ view[h].to \in Nat
        BY <1>6, Present DEF P!CopyOut, P!Mine, P!Null, PtrInv, PtrTyped, NodeSet
    <2>2. view[h].to - view[h].from \in Nat
        BY <2>1 DEF PtrInv, Inside
    <2>. QED
        BY <1>2, <1>6, <2>1, <2>2, SoundPlans DEF P!CopyOut
<1>7. CASE P!Clear(t, h)
    BY <1>2, <1>7, SoundPlans DEF P!Clear, P!Mine
<1>8. CASE P!Free(t, h)
    BY <1>2, <1>8, SoundPlans DEF P!Free, P!Null
<1>9. CASE \E k \in Lengths : P!Resize(t, h, k)
    <2>1. PICK k \in Lengths : P!Resize(t, h, k)
        BY <1>9
    <2>2. k \in Nat /\ owner[h] = t
        BY <2>1, MemoryAssumption DEF P!Resize, P!Mine
    <2>3. \/ P!Start(t, << <<"make", h, k>> >>)
          \/ P!Start(t, << <<"drop", h>>, <<"remake", h, k>> >>)
        BY <2>1 DEF P!Resize
    <2>. QED
        BY <1>2, <2>2, <2>3, SoundPlans
<1>. QED
    BY <1>3, <1>4, <1>5, <1>6, <1>7, <1>8, <1>9

-----------------------------------------------------------------------------

LEMMA PtrInit ==
    ASSUME P!Init
    PROVE  PtrInv
<1>1. PICK t \in Threads : owner = [h \in Handles |-> t]
    BY DEF P!Init
<1>2. /\ addr = [h \in Handles |-> Nil] /\ view = [h \in Handles |-> P!NoView]
      /\ node = <<>> /\ todo = [u \in Threads |-> <<>>]
    BY DEF P!Init
<1>3. DOMAIN node = {}
    BY <1>2
<1>4. PtrTyped
    BY <1>1, <1>2, <1>3 DEF PtrTyped, P!NoView
<1>5. ASSUME NEW u \in Threads
      PROVE  PlanOK(u)
    <2>1. todo[u] = <<>> /\ Len(todo[u]) = 0 /\ todo[u] \in Seq(StepSet)
        BY <1>2, EmptySeq
    <2>. QED
        BY <2>1 DEF PlanOK, Orderly, Owns, Aims
<1>6. ASSUME NEW n \in Held
      PROVE  NodeOK(n)
    <2>1. On(n) = {}
        BY <1>2, MemoryAssumption DEF On
    <2>2. Destroyers(n) = {} /\ Deleters(n) = {} /\ Adders(n) = {}
        BY <1>2 DEF Destroyers, Deleters, Adders, P!Pending
    <2>. QED
        BY <2>1, <2>2, <1>3 DEF NodeOK, There, Counts, Alone, Held2
<1>7. \A h \in Handles : Inside(h)
    BY <1>2 DEF Inside
<1>. QED
    BY <1>4, <1>5, <1>6, <1>7 DEF PtrInv

LEMMA PtrNext ==
    ASSUME PtrInv, P!Next
    PROVE  PtrInv'
<1>1. PICK t \in Threads :
        \/ P!Operation(t)
        \/ \E h \in Handles, w \in Windows : P!Slice(t, h, w[1], w[2])
        \/ \E h \in Handles, u \in Threads : P!Send(t, h, u)
        \/ P!Drop(t) \/ P!Destroy(t) \/ P!Delete(t)
        \/ P!Take(t) \/ P!Add(t) \/ P!MoveOver(t) \/ P!Make(t)
    BY DEF P!Next
<1>. QED
    BY <1>1, OperationKeeps, SliceKeeps, SendKeeps, DropKeeps, DestroyKeeps, DeleteKeeps,
       TakeKeeps, AddKeeps, MoveKeeps, MakeKeeps

LEMMA SameCardinality == \A S : P!Cardinality(S) = Cardinality(S)
    BY DEF P!Cardinality, Cardinality

\* The invariant gives what the run checks.
LEMMA PtrRight ==
    ASSUME PtrInv
    PROVE  P!CountsExact /\ P!ViewsInside
<1>1. \A h \in Handles : addr[h] # Nil => P!Exists(addr[h])
    BY Present DEF P!Exists
<1>2. \A n \in Held, op \in {"destroy", "delete", "add"} : P!Pending(op, n) # {} => P!Exists(n)
    BY DEF PtrInv, NodeOK, There, Destroyers, Deleters, Adders, P!Exists
<1>3. ASSUME NEW n \in DOMAIN node
      PROVE  /\ node[n].value = "live" =>
                  /\ node[n].count = Cardinality(On(n)) - Cardinality(Adders(n))
                  /\ node[n].count = 0 => Destroyers(n) # {}
             /\ Cardinality(Destroyers(n)) <= 1
             /\ Destroyers(n) # {} => node[n].value = "live"
             /\ Deleters(n) # {} => \A h \in Handles : addr[h] # n
    <2>1. n \in Held /\ NodeOK(n) /\ node[n] \in NodeSet
        BY DEF PtrInv, PtrTyped
    <2>2. node[n].value = "live" =>
                  /\ node[n].count = Cardinality(On(n)) - Cardinality(Adders(n))
                  /\ node[n].count = 0 => Destroyers(n) # {}
        BY <2>1, Finite DEF NodeOK, Counts, NodeSet
    <2>3. Cardinality(Destroyers(n)) <= 1
        <3>1. CASE Destroyers(n) = {}
            BY <3>1, FS_EmptySet
        <3>2. CASE Destroyers(n) # {}
            <4>1. PICK t \in Destroyers(n) : TRUE
                BY <3>2
            <4>2. Destroyers(n) = {t}
                BY <4>1, <2>1 DEF NodeOK, Alone
            <4>. QED
                BY <4>2, FS_Singleton
        <3>. QED
            BY <3>1, <3>2
    <2>. QED
        BY <2>1, <2>2, <2>3 DEF NodeOK, Alone, On
<1>4. P!CountsExact
    <2>1. ASSUME NEW n \in DOMAIN node
          PROVE  /\ node[n].value = "live" =>
                      /\ node[n].count = Cardinality({h \in Handles : addr[h] = n})
                                            - Cardinality(P!Pending("add", n))
                      /\ node[n].count = 0 => P!Pending("destroy", n) # {}
                 /\ Cardinality(P!Pending("destroy", n)) <= 1
                 /\ P!Pending("destroy", n) # {} => node[n].value = "live"
                 /\ P!Pending("delete", n) # {} => \A h \in Handles : addr[h] # n
        BY <1>3 DEF On, Destroyers, Deleters, Adders
    <2>. QED
        BY <1>1, <1>2, <2>1, SameCardinality DEF P!CountsExact
<1>5. ASSUME NEW h \in Handles, ~P!Null(h)
      PROVE  0 <= view[h].from /\ view[h].from <= view[h].to /\ view[h].to <= node[addr[h]].length
    <2>1. addr[h] # Nil /\ node[addr[h]].value = "live"
        BY <1>5, Present DEF P!Null, NodeSet
    <2>2. view[h].from \in Nat
        BY DEF PtrInv, PtrTyped
    <2>. QED
        BY <2>1, <2>2 DEF PtrInv, Inside
<1>. QED
    BY <1>4, <1>5 DEF P!ViewsInside

-----------------------------------------------------------------------------
(* The inductive invariant of the invoker.                                 *)

\* What is listed has not been taken away, and what has been was taken by an
\* address of the same node whose own callback had gone, or by its own.
Listed(n) == que[n] # 0 => place[que[n]] = n /\ taken[que[n]] = 0
Gone(k) ==
    /\ taken[k] \in 0..Len(place)
    /\ taken[k] = 0 => que[place[k]] = k
    /\ taken[k] \notin {0, k} => taken[taken[k]] # 0 /\ place[k] = place[taken[k]]
    /\ \A j \in I!Made : j < k /\ place[j] = place[k] => taken[j] # 0

CallsOK ==
    /\ place \in Seq(Places) /\ taken \in Seq(Nat) /\ Len(taken) = Len(place)
    /\ que \in [Places -> 0..Len(place)]
    /\ \A n \in Places : Listed(n)
    /\ \A k \in I!Made : Gone(k)

FrameOK(f) ==
    /\ f[1] \in I!Made /\ f[2] \in I!Made
    /\ f[1] # f[2] => taken[f[1]] # 0 /\ f[1] < f[2]

FramesOK ==
    /\ frames \in Seq(Nat \X Nat)
    /\ \A i \in 1..Len(frames) : FrameOK(frames[i])
    /\ \A i, j \in 1..Len(frames) : frames[i][2] = frames[j][2] => i = j
    /\ used = {frames[i][2] : i \in 1..Len(frames)}

InvokerInv == CallsOK /\ FramesOK

-----------------------------------------------------------------------------
(* Every step keeps the invariant of the invoker.                          *)

LEMMA CallsTyped ==
    ASSUME CallsOK
    PROVE  /\ Len(place) \in Nat /\ Len(taken) = Len(place) /\ \A k \in I!Made : place[k] \in Places
           /\ \A k \in I!Made : taken[k] \in Nat /\ k \in Nat /\ k # 0
           /\ \A n \in Places : que[n] # 0 => que[n] \in I!Made
    BY LenProperties, ElementOfSeq DEF CallsOK, I!Made

\* Who has been taken away stays away, so that the frames are kept.
LEMMA FramesKept ==
    ASSUME CallsOK, FramesOK, UNCHANGED <<used, frames>>, Len(place') \in Nat, Len(place) <= Len(place'),
           \A k \in I!Made : taken[k] # 0 => taken'[k] # 0
    PROVE  FramesOK'
<1>1. \A k \in I!Made : k \in I!Made'
    BY CallsTyped DEF I!Made
<1>2. ASSUME NEW i \in 1..Len(frames)
      PROVE  FrameOK(frames[i]')
    BY <1>1 DEF FramesOK, FrameOK
<1>. QED
    BY <1>1 DEF FramesOK, FrameOK

\* An address switched off.
LEMMA RemovesKeep ==
    ASSUME CallsOK, NEW k \in I!Made, I!Removes(k), place' = place
    PROVE  CallsOK' /\ \A j \in I!Made : taken[j] # 0 => taken'[j] # 0
<1>1. PICK n \in Places, c \in {que[place[k]]} : n = place[k] /\ c = que[n]
    BY CallsTyped
<1>2. /\ que' = [que EXCEPT ![n] = 0]
      /\ taken' = [j \in 1..Len(place) |-> IF j = c THEN k ELSE taken[j]]
    BY <1>1 DEF I!Removes, I!Made
<1>3. Len(place) \in Nat /\ \A j \in 1..Len(place) : taken[j] \in Nat
    BY CallsTyped DEF I!Made
<1>4. /\ que' \in [Places -> 0..Len(place)] /\ que'[n] = 0
      /\ \A m \in Places \ {n} : que'[m] = que[m]
    BY <1>2, <1>3 DEF CallsOK
<1>5. /\ taken' \in Seq(Nat) /\ Len(taken') = Len(place)
      /\ \A j \in I!Made : taken'[j] = IF j = c THEN k ELSE taken[j]
    <2>1. taken' \in [1..Len(place) -> Nat]
        BY <1>2, <1>3 DEF I!Made
    <2>. QED
        BY <2>1, <1>2, <1>3 DEF I!Made
<1>6. k # 0 /\ k \in Nat /\ (c # 0 => c \in I!Made /\ place[c] = n /\ taken[c] = 0)
    BY <1>1, CallsTyped DEF CallsOK, Listed
<1>7. \A j \in I!Made : taken[j] # 0 => taken'[j] # 0
    BY <1>5, <1>6
<1>8. ASSUME NEW m \in Places
      PROVE  Listed(m)'
    <2>1. CASE m = n
        BY <2>1, <1>4 DEF Listed
    <2>2. CASE m # n
        <3>1. Listed(m) /\ que'[m] = que[m] /\ (que[m] # 0 => que[m] \in I!Made)
            BY <2>2, <1>4, CallsTyped DEF CallsOK
        <3>2. que[m] # 0 => que[m] # c
            BY <3>1, <2>2, <1>6 DEF Listed
        <3>. QED
            BY <3>1, <3>2, <1>5 DEF Listed
    <2>. QED
        BY <2>1, <2>2
<1>9. ASSUME NEW i \in I!Made
      PROVE  Gone(i)'
    <2>1. Gone(i) /\ place[i] \in Places
        BY CallsTyped DEF CallsOK
    <2>2. taken'[i] \in 0..Len(place)
        BY <2>1, <1>5 DEF Gone, I!Made
    <2>3. taken'[i] = 0 => que'[place[i]] = i
        <3>. SUFFICES ASSUME taken'[i] = 0 PROVE que'[place[i]] = i
            OBVIOUS
        <3>1. i # c /\ taken[i] = 0
            BY <1>5, <1>6
        <3>2. que[place[i]] = i
            BY <2>1, <3>1 DEF Gone
        <3>3. place[i] # n
            BY <1>1, <3>1, <3>2
        <3>. QED
            BY <2>1, <1>4, <3>2, <3>3
    <2>4. taken'[i] \notin {0, i} => taken'[taken'[i]] # 0 /\ place[i] = place[taken'[i]]
        <3>1. CASE i = c
            <4>1. taken'[i] = k /\ place[i] = place[k]
                BY <3>1, <1>1, <1>5, <1>6, CallsTyped
            <4>2. k # c => taken[k] # 0
                BY <1>1 DEF CallsOK, Gone
            <4>. QED
                BY <3>1, <4>1, <4>2, <1>5
        <3>2. CASE i # c
            <4>1. taken'[i] = taken[i]
                BY <3>2, <1>5
            <4>2. taken[i] # 0 => taken[i] \in I!Made
                BY <2>1, <1>3 DEF Gone, I!Made
            <4>. QED
                BY <4>1, <4>2, <2>1, <1>7 DEF Gone
        <3>. QED
            BY <3>1, <3>2
    <2>5. \A j \in I!Made : j < i /\ place[j] = place[i] => taken'[j] # 0
        BY <2>1, <1>7 DEF Gone
    <2>. QED
        BY <2>2, <2>3, <2>4, <2>5 DEF Gone, I!Made
<1>. QED
    BY <1>4, <1>5, <1>7, <1>8, <1>9 DEF CallsOK, I!Made

LEMMA AddCallKeeps ==
    ASSUME InvokerInv, I!Add
    PROVE  InvokerInv'
<1>1. PICK n \in Places : /\ que[n] = 0
                          /\ que' = [que EXCEPT ![n] = Len(place) + 1]
                          /\ place' = Append(place, n)
                          /\ taken' = Append(taken, 0) /\ UNCHANGED <<used, frames>>
    BY DEF I!Add
<1>. DEFINE c == Len(place) + 1
<1>2. Len(place) \in Nat /\ Len(taken) = Len(place) /\ place \in Seq(Places) /\ taken \in Seq(Nat)
    BY CallsTyped DEF InvokerInv, CallsOK
<1>3. /\ place' \in Seq(Places) /\ taken' \in Seq(Nat)
      /\ Len(place') = c /\ Len(taken') = c /\ place'[c] = n /\ taken'[c] = 0
      /\ \A k \in 1..Len(place) : place'[k] = place[k] /\ taken'[k] = taken[k]
    BY <1>1, <1>2
<1>4. /\ c \in Nat /\ c # 0 /\ c \notin 1..Len(place)
      /\ \A k \in 1..c : k = c \/ k \in 1..Len(place)
      /\ \A k \in 1..Len(place) : k \in 1..c /\ k < c
      /\ \A k \in 0..Len(place) : k \in 0..c
    BY <1>2
<1>5. /\ que' \in [Places -> 0..c] /\ que'[n] = c
      /\ \A m \in Places \ {n} : que'[m] = que[m]
    BY <1>1, <1>2 DEF InvokerInv, CallsOK
<1>. HIDE DEF c
<1>6. ASSUME NEW m \in Places
      PROVE  Listed(m)'
    <2>1. CASE m = n
        BY <2>1, <1>3, <1>5 DEF Listed
    <2>2. CASE m # n
        <3>1. Listed(m) /\ que'[m] = que[m] /\ (que[m] # 0 => que[m] \in 1..Len(place))
            BY <2>2, <1>5, CallsTyped DEF InvokerInv, CallsOK, I!Made
        <3>. QED
            BY <3>1, <1>3 DEF Listed
    <2>. QED
        BY <2>1, <2>2
<1>7. ASSUME NEW i \in 1..c
      PROVE  Gone(i)'
    <2>1. CASE i = c
        <3>1. ASSUME NEW j \in 1..c, j < i, place'[j] = place'[i]
              PROVE  taken'[j] # 0
            <4>1. j \in 1..Len(place) /\ place[j] = n
                <5>1. j # c
                    BY <2>1, <3>1, <1>4
                <5>2. j \in 1..Len(place)
                    BY <5>1, <1>4
                <5>. QED
                    BY <5>2, <2>1, <3>1, <1>3
            <4>2. Gone(j) /\ j # 0
                BY <4>1, <1>2 DEF InvokerInv, CallsOK, I!Made
            <4>. QED
                BY <4>1, <4>2, <1>1, <1>3 DEF Gone
        <3>. QED
            BY <2>1, <3>1, <1>3, <1>4, <1>5 DEF Gone, I!Made
    <2>2. CASE i # c
        <3>1. i \in 1..Len(place) /\ Gone(i) /\ place[i] \in Places
            BY <2>2, <1>4, CallsTyped DEF InvokerInv, CallsOK, I!Made
        <3>2. taken'[i] = taken[i] /\ place'[i] = place[i]
            BY <3>1, <1>3
        <3>3. taken[i] = 0 => que'[place[i]] = i
            <4>1. taken[i] = 0 => que[place[i]] = i /\ i # 0
                BY <3>1, <1>4, <1>2 DEF Gone
            <4>. QED
                BY <4>1, <3>1, <1>1, <1>5
        <3>4. taken[i] # 0 => taken[i] \in 1..Len(place)
            BY <3>1, <1>2 DEF Gone
        <3>5. taken[i] \notin {0, i} => taken'[taken[i]] # 0 /\ place'[i] = place'[taken[i]]
            BY <3>1, <3>2, <3>4, <1>3 DEF Gone
        <3>6. ASSUME NEW j \in 1..c, j < i, place'[j] = place'[i]
              PROVE  taken'[j] # 0
            <4>1. j \in 1..Len(place)
                BY <3>1, <3>6, <1>2, <1>4
            <4>. QED
                BY <4>1, <3>1, <3>2, <3>6, <1>3 DEF Gone, I!Made
        <3>7. taken[i] \in 0..c
            BY <3>1, <1>4 DEF Gone
        <3>. QED
            BY <3>2, <3>3, <3>5, <3>6, <3>7, <1>3 DEF Gone, I!Made
    <2>. QED
        BY <2>1, <2>2
<1>8. CallsOK'
    BY <1>3, <1>5, <1>6, <1>7 DEF CallsOK, I!Made
<1>9. FramesOK'
    <2>1. Len(place') \in Nat /\ Len(place) <= Len(place')
        BY <1>2, <1>3, <1>4 DEF c
    <2>2. \A k \in I!Made : taken[k] # 0 => taken'[k] # 0
        BY <1>3 DEF I!Made
    <2>. QED
        BY <2>1, <2>2, <1>1, FramesKept DEF InvokerInv
<1>. QED
    BY <1>8, <1>9 DEF InvokerInv

LEMMA ClearKeeps ==
    ASSUME InvokerInv, I!Clear
    PROVE  InvokerInv'
<1>1. /\ que' = [n \in Places |-> 0] /\ UNCHANGED <<place, used, frames>>
      /\ taken' = [j \in 1..Len(place) |-> IF taken[j] = 0 THEN j ELSE taken[j]]
    BY DEF I!Clear, I!Made
<1>2. Len(place) \in Nat /\ \A k \in 1..Len(place) : taken[k] \in Nat /\ k \in Nat /\ k # 0
    BY CallsTyped DEF InvokerInv, I!Made
<1>3. /\ taken' \in Seq(Nat) /\ Len(taken') = Len(place)
      /\ \A j \in 1..Len(place) : taken'[j] # 0 /\ taken'[j] = IF taken[j] = 0 THEN j ELSE taken[j]
    <2>1. taken' \in [1..Len(place) -> Nat]
        BY <1>1, <1>2
    <2>. QED
        BY <2>1, <1>1, <1>2
<1>4. \A n \in Places : Listed(n)'
    BY <1>1 DEF Listed
<1>5. ASSUME NEW i \in 1..Len(place)
      PROVE  Gone(i)'
    <2>1. Gone(i)
        BY DEF InvokerInv, CallsOK, I!Made
    <2>2. taken[i] # 0 => taken[i] \in 1..Len(place)
        BY <2>1, <1>2 DEF Gone
    <2>. QED
        BY <2>1, <2>2, <1>1, <1>2, <1>3 DEF Gone, I!Made
<1>6. CallsOK'
    BY <1>1, <1>2, <1>3, <1>4, <1>5 DEF InvokerInv, CallsOK, I!Made
<1>7. FramesOK'
    <2>1. \A k \in I!Made : taken[k] # 0 => taken'[k] # 0
        BY <1>3 DEF I!Made
    <2>. QED
        BY <2>1, <1>1, <1>2, FramesKept DEF InvokerInv
<1>. QED
    BY <1>6, <1>7 DEF InvokerInv

LEMMA EmitKeeps ==
    ASSUME InvokerInv, NEW k \in I!Made, I!Emit(k)
    PROVE  InvokerInv'
<1>1. PICK c : /\ c = que[place[k]] /\ c # 0 /\ c \notin used
               /\ used' = used \cup {c} /\ frames' = Append(frames, <<k, c>>)
               /\ UNCHANGED <<que, place, taken>>
    BY DEF I!Emit
<1>2. /\ place[k] \in Places /\ c \in I!Made /\ k \in Nat /\ c \in Nat
      /\ \A i \in I!Made : Gone(i)
    BY <1>1, CallsTyped DEF InvokerInv, CallsOK
<1>3. CallsOK'
    BY <1>1 DEF InvokerInv, CallsOK, Listed, Gone, I!Made
<1>4. k # c => taken[k] # 0 /\ k < c
    <2>1. k # c => taken[k] # 0
        BY <1>1, <1>2 DEF Gone
    <2>2. place[c] = place[k] /\ taken[c] = 0
        BY <1>1, <1>2 DEF InvokerInv, CallsOK, Listed
    <2>3. ~(c < k)
        BY <2>2, <1>2 DEF Gone
    <2>. QED
        BY <2>1, <2>3, <1>2
<1>. DEFINE n == Len(frames)
<1>5. frames \in Seq(Nat \X Nat) /\ n \in Nat /\ <<k, c>> \in Nat \X Nat
    BY <1>2, LenProperties DEF InvokerInv, FramesOK
<1>6. /\ frames' \in Seq(Nat \X Nat) /\ Len(frames') = n + 1 /\ frames'[n + 1] = <<k, c>>
      /\ \A i \in 1..n : frames'[i] = frames[i]
    BY <1>1, <1>5
<1>7. \A i \in 1..(n + 1) : i = n + 1 \/ i \in 1..n
    BY <1>5
<1>8. n + 1 \in 1..(n + 1) /\ \A i \in 1..n : i \in 1..(n + 1)
    BY <1>5
<1>9. /\ used = {frames[i][2] : i \in 1..n}
      /\ \A i, j \in 1..n : frames[i][2] = frames[j][2] => i = j
    BY DEF InvokerInv, FramesOK
<1>. HIDE DEF n
<1>10. ASSUME NEW i \in 1..(n + 1)
       PROVE  /\ frames'[i][1] \in I!Made' /\ frames'[i][2] \in I!Made'
              /\ frames'[i][1] # frames'[i][2] => taken'[frames'[i][1]] # 0 /\ frames'[i][1] < frames'[i][2]
    <2>1. CASE i = n + 1
        BY <2>1, <1>1, <1>2, <1>4, <1>6 DEF I!Made
    <2>2. CASE i \in 1..n
        <3>1. FrameOK(frames[i])
            BY <2>2 DEF InvokerInv, FramesOK, n
        <3>. QED
            BY <2>2, <3>1, <1>1, <1>6 DEF FrameOK, I!Made
    <2>. QED
        BY <2>1, <2>2, <1>7
<1>11. \A i, j \in 1..(n + 1) : frames'[i][2] = frames'[j][2] => i = j
    <2>1. \A i \in 1..n : frames'[i][2] # c
        <3>1. \A i \in 1..n : frames[i][2] \in used
            BY <1>9
        <3>. QED
            BY <3>1, <1>1, <1>6
    <2>2. \A i, j \in 1..n : frames'[i][2] = frames'[j][2] => i = j
        BY <1>6, <1>9
    <2>3. frames'[n + 1][2] = c
        BY <1>6
    <2>. QED
        BY <2>1, <2>2, <2>3, <1>7
<1>12. used' = {frames'[i][2] : i \in 1..(n + 1)}
    BY <1>1, <1>6, <1>7, <1>8, <1>9
<1>13. FramesOK'
    BY <1>6, <1>10, <1>11, <1>12 DEF FramesOK, FrameOK
<1>. QED
    BY <1>3, <1>13 DEF InvokerInv

LEMMA Shortened ==
    ASSUME NEW S, NEW s \in Seq(S), Len(s) # 0
    PROVE  /\ SubSeq(s, 1, Len(s) - 1) \in Seq(S) /\ Len(SubSeq(s, 1, Len(s) - 1)) = Len(s) - 1
           /\ \A i \in 1..(Len(s) - 1) : SubSeq(s, 1, Len(s) - 1)[i] = s[i]
<1>1. Len(s) \in Nat /\ \A i \in 1..Len(s) : s[i] \in S
    BY LenProperties, ElementOfSeq
<1>. DEFINE k == Len(s) - 1
<1>2. k \in Int /\ \A i \in 1..k : s[i] \in S
    BY <1>1
<1>3. /\ SubSeq(s, 1, k) \in Seq(S)
      /\ Len(SubSeq(s, 1, k)) = IF 1 <= k THEN k - 1 + 1 ELSE 0
      /\ \A i \in 1..(k - 1 + 1) : SubSeq(s, 1, k)[i] = s[1 + i - 1]
    <2>. HIDE DEF k
    <2>. QED
        BY <1>2, SubSeqProperties
<1>4. \A i \in 1..k : i \in 1..(k - 1 + 1) /\ 1 + i - 1 = i
    BY <1>2
<1>5. Len(SubSeq(s, 1, k)) = k
    <2>1. k \in Nat
        BY <1>1
    <2>. HIDE DEF k
    <2>2. k = IF 1 <= k THEN k - 1 + 1 ELSE 0
        BY <2>1
    <2>. QED
        BY <1>3, <2>2
<1>6. \A i \in 1..k : SubSeq(s, 1, k)[i] = s[i]
    <2>. HIDE DEF k
    <2>. QED
        BY <1>3, <1>4
<1>. QED
    BY <1>3, <1>5, <1>6

LEMMA ReturnKeeps ==
    ASSUME InvokerInv, NEW answer, I!Return(answer)
    PROVE  InvokerInv'
<1>. DEFINE n == Len(frames)
<1>1. frames \in Seq(Nat \X Nat) /\ n \in Nat /\ n # 0
    BY EmptySeq, LenProperties DEF InvokerInv, FramesOK, I!Return
<1>2. PICK f : /\ f = frames[n] /\ used' = used \ {f[2]} /\ UNCHANGED place
               /\ frames' = SubSeq(frames, 1, n - 1)
               /\ I!Removes(f[1]) \/ UNCHANGED <<que, taken>>
    BY DEF I!Return
<1>3. n \in 1..n /\ n - 1 \in Nat /\ (\A i \in 1..(n - 1) : i \in 1..n /\ i # n)
      /\ \A i \in 1..n : i = n \/ i \in 1..(n - 1)
    BY <1>1
<1>4. FrameOK(f)
    BY <1>2, <1>3 DEF InvokerInv, FramesOK
<1>5. CallsOK' /\ \A k \in I!Made : taken[k] # 0 => taken'[k] # 0
    <2>1. CASE I!Removes(f[1])
        BY <2>1, <1>2, <1>4, RemovesKeep DEF InvokerInv, FrameOK
    <2>2. CASE UNCHANGED <<que, taken>>
        BY <2>2, <1>2 DEF InvokerInv, CallsOK, Listed, Gone, I!Made
    <2>. QED
        BY <2>1, <2>2, <1>2
<1>6. /\ frames' \in Seq(Nat \X Nat) /\ Len(frames') = n - 1
      /\ \A i \in 1..(n - 1) : frames'[i] = frames[i]
    <2>1. \A i \in 1..(n - 1) : frames[i] \in Nat \X Nat
        BY <1>1, <1>3, ElementOfSeq
    <2>. QED
        BY <2>1, <1>2, <1>1, <1>3, Shortened
<1>7. ASSUME NEW i \in 1..(n - 1)
      PROVE  /\ frames'[i][1] \in I!Made' /\ frames'[i][2] \in I!Made'
             /\ frames'[i][1] # frames'[i][2] => taken'[frames'[i][1]] # 0 /\ frames'[i][1] < frames'[i][2]
    <2>1. FrameOK(frames[i])
        BY <1>3 DEF InvokerInv, FramesOK
    <2>. QED
        BY <2>1, <1>2, <1>5, <1>6 DEF FrameOK, I!Made
<1>8. \A i, j \in 1..n : frames[i][2] = frames[j][2] => i = j
    BY DEF InvokerInv, FramesOK
<1>9. used' = {frames'[i][2] : i \in 1..(n - 1)}
    <2>1. used = {frames[i][2] : i \in 1..n}
        BY DEF InvokerInv, FramesOK
    <2>2. \A i \in 1..(n - 1) : frames'[i][2] # f[2]
        BY <1>2, <1>3, <1>6, <1>8
    <2>. QED
        BY <2>1, <2>2, <1>2, <1>3, <1>6
<1>10. \A i, j \in 1..(n - 1) : frames'[i][2] = frames'[j][2] => i = j
    BY <1>3, <1>6, <1>8
<1>. HIDE DEF n
<1>11. FramesOK'
    BY <1>6, <1>7, <1>9, <1>10 DEF FramesOK, FrameOK
<1>. QED
    BY <1>5, <1>11 DEF InvokerInv

LEMMA InvokerNext ==
    ASSUME InvokerInv, I!Next
    PROVE  InvokerInv'
<1>1. CASE I!Add \/ I!Clear
    BY <1>1, AddCallKeeps, ClearKeeps
<1>2. ASSUME NEW k \in I!Made, I!Off(k)
      PROVE  InvokerInv'
    <2>1. CallsOK' /\ \A j \in I!Made : taken[j] # 0 => taken'[j] # 0
        BY <1>2, RemovesKeep DEF I!Off, InvokerInv
    <2>2. Len(place') \in Nat /\ Len(place) <= Len(place')
        BY <1>2, CallsTyped DEF I!Off, InvokerInv
    <2>. QED
        BY <1>2, <2>1, <2>2, FramesKept DEF I!Off, InvokerInv
<1>. QED
    BY <1>1, <1>2, EmitKeeps, ReturnKeeps DEF I!Next

LEMMA InvokerInit ==
    ASSUME I!Init
    PROVE  InvokerInv
<1>1. /\ que = [n \in Places |-> 0] /\ place = <<>> /\ used = {} /\ frames = <<>> /\ taken = <<>>
      /\ Len(place) = 0 /\ Len(taken) = 0 /\ Len(frames) = 0
    BY DEF I!Init
<1>2. I!Made = {} /\ 1..Len(frames) = {}
    BY <1>1 DEF I!Made
<1>. QED
    BY <1>1, <1>2, EmptySeq DEF InvokerInv, CallsOK, FramesOK, Listed

LEMMA InvokerRight ==
    ASSUME InvokerInv
    PROVE  I!CalledByName
<1>1. \A k \in I!Made : taken[k] = 0 <=> que[place[k]] = k
    BY CallsTyped DEF InvokerInv, CallsOK, Listed, Gone
<1>. QED
    BY <1>1 DEF InvokerInv, CallsOK, Gone, FramesOK, FrameOK, I!CalledByName

-----------------------------------------------------------------------------
(* Steps by a recursive function.                                          *)

\* What each step keeps is there after all of them,
LEMMA Kept ==
    ASSUME NEW S, NEW n \in Nat, NEW t, t[0] \in S,
           \A i \in 1..n : t[i - 1] \in S => t[i] \in S
    PROVE  \A i \in 0..n : t[i] \in S
<1>. DEFINE T == {i \in 0..n : t[i] \notin S}
<1>1. ASSUME T # {} PROVE FALSE
    <2>1. PICK m \in T : \A i \in T : m <= i
        <3>1. T \subseteq Nat
            OBVIOUS
        <3>. HIDE DEF T
        <3>. QED
            BY <1>1, <3>1, Least
    <2>2. m # 0 /\ m \in 1..n /\ m - 1 \in 0..n
        OBVIOUS
    <2>3. t[m - 1] \in S
        BY <2>1, <2>2
    <2>. QED
        BY <2>2, <2>3
<1>. QED
    BY <1>1

\* and there is a function that says what n of them come to.
HasPath(S, G, x, n) ==
    \E g \in [0..n -> S] : g[0] = x /\ \A i \in 1..n : g[i] = G[g[i - 1]]

LEMMA Iterated ==
    ASSUME NEW S, NEW G \in [S -> S], NEW x \in S, NEW n \in Nat
    PROVE  HasPath(S, G, x, n)
<1>. DEFINE OK(m) == \E g \in [0..m -> S] :
                        g[0] = x /\ \A i \in 1..m : g[i] = G[g[i - 1]]
            T == {m \in Nat : ~OK(m)}
<1>1. OK(0)
    <2>. DEFINE g == [i \in 0..0 |-> x]
    <2>1. g \in [0..0 -> S] /\ g[0] = x /\ \A i \in 1..0 : g[i] = G[g[i - 1]]
        OBVIOUS
    <2>. QED
        BY <2>1
<1>2. ASSUME NEW m \in Nat, OK(m) PROVE OK(m + 1)
    <2>1. PICK g \in [0..m -> S] : g[0] = x /\ \A i \in 1..m : g[i] = G[g[i - 1]]
        BY <1>2
    <2>. DEFINE h == [i \in 0..(m + 1) |-> IF i = m + 1 THEN G[g[m]] ELSE g[i]]
    <2>2. h \in [0..(m + 1) -> S] /\ h[0] = x
        BY <2>1
    <2>3. ASSUME NEW i \in 1..(m + 1) PROVE h[i] = G[h[i - 1]]
        <3>1. CASE i = m + 1
            BY <3>1
        <3>2. CASE i \in 1..m
            <4>1. h[i] = g[i] /\ h[i - 1] = g[i - 1]
                BY <3>2
            <4>. QED
                BY <2>1, <3>2, <4>1
        <3>. QED
            BY <3>1, <3>2
    <2>. HIDE DEF h
    <2>. QED
        BY <2>2, <2>3
<1>3. ASSUME T # {} PROVE FALSE
    <2>1. PICK m \in T : \A i \in T : m <= i
        <3>1. T \subseteq Nat
            OBVIOUS
        <3>. HIDE DEF T
        <3>. QED
            BY <1>3, <3>1, Least
    <2>. HIDE DEF OK
    <2>2. m # 0 /\ m - 1 \in Nat /\ ~OK(m)
        BY <1>1
    <2>3. OK(m - 1)
        BY <2>1, <2>2
    <2>. QED
        BY <1>2, <2>2, <2>3
<1>. HIDE DEF OK
<1>4. OK(n)
    BY <1>3
<1>. QED
    BY <1>4 DEF OK, HasPath

-----------------------------------------------------------------------------
(* The heap: pages and the headers in them.                                *)

Cells   == 0..Heap - 1
Headers == [size : Cells, mode : {"free", "used"}]

BodyOK(b) == DOMAIN b \subseteq Cells /\ b \in [DOMAIN b -> Headers]

Bodies == UNION {[D -> Headers] : D \in SUBSET Cells}

\* Where the block with the header h ends.
End(b, h) == h + b[h].size + 1

\* One block begins where the one before it ends, and the last one ends with
\* the page.
Tiled(b) ==
    /\ 0 \in DOMAIN b
    /\ \A h \in DOMAIN b : End(b, h) \in DOMAIN b \cup {Heap}
    /\ \A h, k \in DOMAIN b : h < k => End(b, h) <= k

\* What a page is cut from is a free block, if there is anything.
Placed(pg) ==
    pg.size > 0 => /\ pg.offs \in DOMAIN pg.body
                   /\ pg.body[pg.offs].size = pg.size - 1
                   /\ pg.body[pg.offs].mode = "free"

PageSet == [size : 0..Heap, offs : 0..Heap, body : Bodies]

PageOK(pg) == pg \in PageSet /\ Tiled(pg.body) /\ Placed(pg)

Useds(b) == {h \in DOMAIN b : b[h].mode = "used"}

SameUsed(b, c) == Useds(b) = Useds(c) /\ \A h \in Useds(b) : b[h] = c[h]

LEMMA BodyIs == \A b : b \in Bodies <=> BodyOK(b)
<1>1. ASSUME NEW b, b \in Bodies PROVE BodyOK(b)
    <2>1. PICK D \in SUBSET Cells : b \in [D -> Headers]
        BY <1>1 DEF Bodies
    <2>. QED
        BY <2>1 DEF BodyOK
<1>2. ASSUME NEW b, BodyOK(b) PROVE b \in Bodies
    BY <1>2 DEF BodyOK, Bodies
<1>. QED
    BY <1>1, <1>2

\* What there is to know of a header of a page.
LEMMA HeaderIs ==
    ASSUME NEW pg, PageOK(pg), NEW h \in DOMAIN pg.body
    PROVE  /\ h \in Int /\ 0 <= h /\ h < Heap
           /\ pg.body[h].size \in Int /\ 0 <= pg.body[h].size /\ pg.body[h].size < Heap
           /\ pg.body[h].mode \in {"free", "used"}
           /\ pg.body[h] = [size |-> pg.body[h].size, mode |-> pg.body[h].mode]
           /\ End(pg.body, h) \in Int /\ h < End(pg.body, h) /\ End(pg.body, h) <= Heap
           /\ End(pg.body, h) = h + pg.body[h].size + 1
           /\ End(pg.body, h) # Heap => End(pg.body, h) \in DOMAIN pg.body
<1>. DEFINE b == pg.body
<1>1. BodyOK(b)
    BY BodyIs DEF PageOK, PageSet
<1>. HIDE DEF b
<1>2. h \in Cells /\ b[h] \in Headers
    BY <1>1 DEF BodyOK, b
<1>3. Heap \in Nat
    BY HeapAssumption
<1>4. h \in Int /\ 0 <= h /\ h < Heap
    BY <1>2, <1>3 DEF Cells
<1>5. /\ b[h].size \in Int /\ 0 <= b[h].size /\ b[h].size < Heap /\ b[h].mode \in {"free", "used"}
      /\ b[h] = [size |-> b[h].size, mode |-> b[h].mode]
    BY <1>2, <1>3 DEF Headers, Cells
<1>6. End(b, h) = h + b[h].size + 1 /\ End(b, h) \in Int /\ h < End(b, h)
    BY <1>4, <1>5 DEF End
<1>7. End(b, h) \in DOMAIN b \cup {Heap} /\ DOMAIN b \subseteq Cells
    BY <1>1 DEF PageOK, Tiled, BodyOK, b
<1>8. End(b, h) <= Heap
    BY <1>3, <1>7 DEF Cells
<1>. QED
    BY <1>4, <1>5, <1>6, <1>7, <1>8 DEF b

\* What lies between a page's headers: nothing begins inside of a block.
LEMMA HeadersInOrder ==
    ASSUME NEW pg, PageOK(pg), NEW h \in DOMAIN pg.body, NEW k \in DOMAIN pg.body
    PROVE  /\ h < k => End(pg.body, h) <= k
           /\ h < k => End(pg.body, h) < End(pg.body, k)
           /\ h = k \/ h < k \/ k < h
<1>1. h < k => End(pg.body, h) <= k
    BY DEF PageOK, Tiled
<1>2. /\ h \in Int /\ k \in Int /\ End(pg.body, h) \in Int /\ End(pg.body, k) \in Int
      /\ k < End(pg.body, k)
    BY HeaderIs
<1>. QED
    BY <1>1, <1>2

-----------------------------------------------------------------------------
(* _nxt_mem_(): the walk over the headers.                                 *)

Walks(w) == w \in [pg : PageSet, prv : -1..Heap, at : 0..Heap]

\* Of the headers that the walk has passed no free one is larger than the room
\* of the page, and none is before another.
Behind(w) ==
    \A h \in DOMAIN w.pg.body : h < w.at /\ w.pg.body[h].mode = "free" =>
        /\ w.pg.body[h].size + 1 <= w.pg.size
        /\ IF End(w.pg.body, h) = w.at THEN w.prv = h
           ELSE /\ End(w.pg.body, h) \in DOMAIN w.pg.body
                /\ w.pg.body[End(w.pg.body, h)].mode = "used"

WalkOK(pg, w) ==
    /\ Walks(w) /\ PageOK(w.pg) /\ SameUsed(pg.body, w.pg.body)
    /\ w.at \in DOMAIN w.pg.body \cup {Heap}
    /\ w.prv # -1 => /\ w.prv \in DOMAIN w.pg.body /\ w.pg.body[w.prv].mode = "free"
                     /\ End(w.pg.body, w.prv) = w.at
    /\ Behind(w)

LEMMA SameUsedThrough ==
    ASSUME NEW a, NEW b, NEW c, SameUsed(a, b), SameUsed(b, c)
    PROVE  SameUsed(a, c)
BY DEF SameUsed

\* Past a block that is used.
LEMMA StepUsed ==
    ASSUME NEW pg, NEW w, WalkOK(pg, w), w.at < Heap, w.pg.body[w.at].mode = "used",
           NEW v, v = [w EXCEPT !.prv = -1, !.at = End(w.pg.body, w.at)]
    PROVE  WalkOK(pg, v) /\ w.at < v.at
<1>. DEFINE b == w.pg.body
            after == End(b, w.at)
<1>0. Heap \in Nat /\ Heap # 0
    BY HeapAssumption
<1>1. w.at \in DOMAIN b /\ Walks(w) /\ PageOK(w.pg)
    BY <1>0 DEF WalkOK
<1>2. /\ v.pg = w.pg /\ v.prv = -1 /\ v.at = after
      /\ v = [pg |-> w.pg, prv |-> -1, at |-> after]
    BY <1>1 DEF Walks
<1>3. /\ after \in Int /\ w.at < after /\ after <= Heap /\ w.at \in Int /\ 0 <= w.at
      /\ (after # Heap => after \in DOMAIN b)
    BY <1>1, HeaderIs
<1>. HIDE DEF after
<1>4. Walks(v)
    BY <1>0, <1>1, <1>2, <1>3 DEF Walks
<1>5. ASSUME NEW h \in DOMAIN b, h < after, b[h].mode = "free"
      PROVE  /\ b[h].size + 1 <= w.pg.size
             /\ End(b, h) # after /\ End(b, h) \in DOMAIN b /\ b[End(b, h)].mode = "used"
    <2>1. h < w.at
        <3>1. w.at < h => after <= h
            BY <1>1, HeadersInOrder DEF after
        <3>2. h # w.at
            BY <1>5
        <3>3. h \in Int
            BY <1>1, HeaderIs
        <3>. QED
            BY <1>1, <1>3, <1>5, <3>1, <3>2, <3>3
    <2>2. End(b, h) <= w.at /\ End(b, h) \in Int
        BY <1>1, <2>1, HeadersInOrder, HeaderIs
    <2>3. End(b, h) # after
        BY <1>3, <2>2
    <2>4. /\ b[h].size + 1 <= w.pg.size
          /\ IF End(b, h) = w.at THEN w.prv = h
             ELSE End(b, h) \in DOMAIN b /\ b[End(b, h)].mode = "used"
        BY <1>5, <2>1 DEF WalkOK, Behind
    <2>. QED
        BY <1>1, <2>3, <2>4
<1>6. Behind(v)
    BY <1>2, <1>5 DEF Behind
<1>. QED
    BY <1>1, <1>2, <1>3, <1>4, <1>6 DEF WalkOK

\* What is cut after, when a free block of a page is offered.
LEMMA OfferedIs ==
    ASSUME NEW pg \in PageSet, NEW to \in DOMAIN pg.body, pg.body[to].size + 1 \in 0..Heap,
           to \in 0..Heap, NEW r, r = A!Offered(pg, to)
    PROVE  /\ r \in PageSet /\ r.body = pg.body
           /\ pg.body[to].size + 1 <= r.size /\ pg.size <= r.size
           /\ IF pg.size < pg.body[to].size + 1
              THEN r.size = pg.body[to].size + 1 /\ r.offs = to
              ELSE r.size = pg.size /\ r.offs = pg.offs
<1>. DEFINE room == pg.body[to].size + 1
<1>1. r = IF pg.size < room THEN [pg EXCEPT !.size = room, !.offs = to] ELSE pg
    BY DEF A!Offered
<1>2. pg.size \in Int /\ room \in Int
    BY DEF PageSet
<1>3. CASE pg.size < room
    <2>1. r = [size |-> room, offs |-> to, body |-> pg.body]
        BY <1>1, <1>3 DEF PageSet
    <2>2. room <= r.size /\ pg.size <= r.size /\ r.size = room /\ r.offs = to /\ r.body = pg.body
        BY <1>2, <1>3, <2>1
    <2>3. r \in PageSet
        BY <2>1 DEF PageSet
    <2>. QED
        BY <1>3, <2>2, <2>3
<1>4. CASE ~(pg.size < room)
    BY <1>1, <1>2, <1>4
<1>. QED
    BY <1>3, <1>4

\* Past a free block that comes after a used one.
LEMMA StepFree ==
    ASSUME NEW pg, NEW w, WalkOK(pg, w), w.at < Heap, w.pg.body[w.at].mode = "free",
           w.prv = -1,
           NEW v, v = [pg |-> A!Offered(w.pg, w.at), prv |-> w.at, at |-> End(w.pg.body, w.at)]
    PROVE  WalkOK(pg, v) /\ w.at < v.at
<1>. DEFINE b == w.pg.body
            after == End(b, w.at)
            r == A!Offered(w.pg, w.at)
<1>0. Heap \in Nat /\ Heap # 0
    BY HeapAssumption
<1>1. w.at \in DOMAIN b /\ Walks(w) /\ PageOK(w.pg)
    BY <1>0 DEF WalkOK
<1>2. v.pg = r /\ v.prv = w.at /\ v.at = after
    OBVIOUS
<1>3. /\ after \in Int /\ w.at < after /\ after <= Heap /\ w.at \in Int /\ 0 <= w.at
      /\ (after # Heap => after \in DOMAIN b)
      /\ b[w.at].size \in Int /\ 0 <= b[w.at].size /\ b[w.at].size < Heap
    BY <1>1, HeaderIs
<1>4. /\ r \in PageSet /\ r.body = b
      /\ b[w.at].size + 1 <= r.size /\ w.pg.size <= r.size
      /\ IF w.pg.size < b[w.at].size + 1
         THEN r.size = b[w.at].size + 1 /\ r.offs = w.at
         ELSE r.size = w.pg.size /\ r.offs = w.pg.offs
    <2>1. w.pg \in PageSet /\ b[w.at].size + 1 \in 0..Heap /\ w.at \in 0..Heap
        BY <1>0, <1>1, <1>3 DEF PageOK
    <2>. QED
        BY <1>1, <2>1, OfferedIs
<1>. HIDE DEF r
<1>5. PageOK(r)
    <2>1. Placed(r)
        BY <1>1, <1>3, <1>4 DEF PageOK, Placed
    <2>. QED
        BY <1>1, <1>4, <2>1 DEF PageOK
<1>6. Walks(v)
    BY <1>0, <1>2, <1>3, <1>4 DEF Walks
<1>. HIDE DEF after
<1>7. ASSUME NEW h \in DOMAIN b, h < after, b[h].mode = "free"
      PROVE  /\ b[h].size + 1 <= r.size
             /\ IF End(b, h) = after THEN w.at = h
                ELSE End(b, h) \in DOMAIN b /\ b[End(b, h)].mode = "used"
    <2>1. CASE h = w.at
        BY <1>4, <2>1 DEF after
    <2>2. CASE h # w.at
        <3>1. h < w.at
            <4>1. w.at < h => after <= h
                BY <1>1, HeadersInOrder DEF after
            <4>2. h \in Int
                BY <1>1, HeaderIs
            <4>. QED
                BY <1>3, <1>7, <2>2, <4>1, <4>2
        <3>2. End(b, h) <= w.at /\ End(b, h) \in Int /\ b[h].size \in Int
            BY <1>1, <3>1, HeadersInOrder, HeaderIs
        <3>3. End(b, h) # after /\ h # -1
            <4>1. End(b, h) # after
                BY <1>3, <3>2
            <4>2. 0 <= h
                BY <1>1, HeaderIs
            <4>. QED
                BY <4>1, <4>2
        <3>4. /\ b[h].size + 1 <= w.pg.size
              /\ IF End(b, h) = w.at THEN w.prv = h
                 ELSE End(b, h) \in DOMAIN b /\ b[End(b, h)].mode = "used"
            BY <1>7, <3>1 DEF WalkOK, Behind
        <3>5. w.pg.size \in Int /\ r.size \in Int
            BY <1>1, <1>4 DEF PageOK, PageSet
        <3>6. b[h].size + 1 <= r.size
            BY <1>4, <3>2, <3>4, <3>5
        <3>. QED
            BY <3>3, <3>4, <3>6
    <2>. QED
        BY <2>1, <2>2
<1>8. Behind(v)
    BY <1>2, <1>4, <1>7 DEF Behind
<1>. QED
    BY <1>1, <1>2, <1>3, <1>4, <1>5, <1>6, <1>8 DEF WalkOK, after

\* A free block is joined to the one before it.
LEMMA JoinedIs ==
    ASSUME NEW pg, PageOK(pg), NEW p \in DOMAIN pg.body, NEW at0 \in DOMAIN pg.body,
           pg.body[p].mode = "free", pg.body[at0].mode = "free", End(pg.body, p) = at0,
           NEW r, r = A!Joined(pg, p, at0)
    PROVE  /\ r \in PageSet /\ r.size = pg.size /\ r.offs = pg.offs
           /\ DOMAIN r.body = DOMAIN pg.body \ {at0} /\ p \in DOMAIN r.body
           /\ r.body[p].mode = "free"
           /\ r.body[p].size = pg.body[p].size + pg.body[at0].size + 1
           /\ \A h \in DOMAIN r.body : h # p => r.body[h] = pg.body[h]
           /\ End(r.body, p) = End(pg.body, at0)
           /\ \A h \in DOMAIN r.body : h # p => End(r.body, h) = End(pg.body, h)
           /\ Tiled(r.body) /\ SameUsed(pg.body, r.body)
<1>. DEFINE b == pg.body
            sum == b[p].size + b[at0].size + 1
            c == [o \in DOMAIN b \ {at0} |->
                     IF o = p THEN [b[o] EXCEPT !.size = b[o].size + b[at0].size + 1] ELSE b[o]]
<1>1. /\ p \in Int /\ 0 <= p /\ at0 \in Int /\ p < at0 /\ at0 < Heap /\ Heap \in Nat
      /\ b[p].size \in Int /\ 0 <= b[p].size /\ b[at0].size \in Int /\ 0 <= b[at0].size
      /\ at0 = p + b[p].size + 1 /\ End(b, at0) = at0 + b[at0].size + 1 /\ End(b, at0) <= Heap
      /\ End(b, at0) \in Int
    BY HeaderIs, HeapAssumption
<1>2. b[p] = [size |-> b[p].size, mode |-> "free"]
    BY HeaderIs
<1>3. r = [size |-> pg.size, offs |-> pg.offs, body |-> c]
    <2>1. ~(p < 0) /\ pg \in PageSet
        BY <1>1 DEF PageOK
    <2>2. r = [pg EXCEPT !.body = c]
        BY <2>1 DEF A!Joined
    <2>. HIDE DEF c
    <2>. QED
        BY <2>1, <2>2 DEF PageSet
<1>4. /\ DOMAIN c = DOMAIN b \ {at0} /\ p \in DOMAIN c
      /\ c[p] = [size |-> sum, mode |-> "free"]
      /\ \A h \in DOMAIN c : h # p => c[h] = b[h]
    <2>1. DOMAIN c = DOMAIN b \ {at0} /\ p \in DOMAIN c
        BY <1>1
    <2>2. c[p] = [b[p] EXCEPT !.size = sum]
        BY <2>1
    <2>3. c[p] = [size |-> sum, mode |-> "free"]
        BY <1>2, <2>2
    <2>. QED
        BY <2>1, <2>3
<1>5. c = [h \in DOMAIN c |-> c[h]]
    OBVIOUS
<1>. HIDE DEF c
<1>6. /\ End(c, p) = End(b, at0)
      /\ \A h \in DOMAIN c : h # p => End(c, h) = End(b, h)
    BY <1>1, <1>4 DEF End
<1>7. c \in Bodies
    <2>1. BodyOK(b)
        BY BodyIs DEF PageOK, PageSet
    <2>2. \A h \in DOMAIN b : b[h] \in Headers /\ h \in Cells
        BY <2>1 DEF BodyOK
    <2>3. c[p] \in Headers
        <3>1. sum \in Cells
            BY <1>1 DEF Cells
        <3>. HIDE DEF sum
        <3>. QED
            BY <1>4, <3>1 DEF Headers
    <2>4. \A h \in DOMAIN c : c[h] \in Headers /\ h \in Cells
        BY <1>4, <2>2, <2>3
    <2>5. BodyOK(c)
        BY <1>5, <2>4 DEF BodyOK
    <2>. QED
        BY <2>5, BodyIs
<1>8. \A h \in DOMAIN b : End(b, h) \in Int /\ h < End(b, h) /\ h \in Int /\ 0 <= h
    BY HeaderIs
<1>9. \A h, k \in DOMAIN b : h < k => End(b, h) <= k
    BY DEF PageOK, Tiled
<1>10. Tiled(c)
    <2>1. 0 \in DOMAIN c
        BY <1>1, <1>4 DEF PageOK, Tiled
    <2>2. ASSUME NEW h \in DOMAIN c PROVE End(c, h) \in DOMAIN c \cup {Heap}
        <3>1. End(b, h) \in DOMAIN b \cup {Heap} /\ End(b, at0) \in DOMAIN b \cup {Heap}
            BY <1>4, <2>2 DEF PageOK, Tiled
        <3>2. End(b, at0) # at0
            BY <1>8
        <3>3. h # p => End(b, h) # at0
            <4>1. h \in DOMAIN b /\ h # at0
                BY <1>4
            <4>2. h < p => End(b, h) <= p
                BY <1>9, <4>1
            <4>3. p < h => at0 <= h
                BY <1>9, <4>1
            <4>4. h < End(b, h) /\ h \in Int /\ End(b, h) \in Int
                BY <1>8, <4>1
            <4>. QED
                BY <1>1, <4>2, <4>3, <4>4
        <3>. QED
            BY <1>4, <1>6, <3>1, <3>2, <3>3
    <2>3. ASSUME NEW h \in DOMAIN c, NEW k \in DOMAIN c, h < k PROVE End(c, h) <= k
        <3>1. h \in DOMAIN b /\ k \in DOMAIN b /\ k # at0 /\ k \in Int
            BY <1>4, <1>8
        <3>2. CASE h # p
            BY <1>6, <1>9, <2>3, <3>1, <3>2
        <3>3. CASE h = p
            <4>1. at0 <= k
                BY <1>9, <2>3, <3>1, <3>3
            <4>2. at0 < k
                BY <1>1, <3>1, <4>1
            <4>3. End(b, at0) <= k
                BY <1>9, <3>1, <4>2
            <4>. QED
                BY <1>6, <3>3, <4>3
        <3>. QED
            BY <3>2, <3>3
    <2>. QED
        BY <2>1, <2>2, <2>3 DEF Tiled
<1>11. SameUsed(b, c)
    <2>1. \A h \in DOMAIN b : b[h].mode = "used" => h # p /\ h # at0
        OBVIOUS
    <2>2. c[p].mode = "free"
        BY <1>4
    <2>3. Useds(b) = Useds(c)
        BY <1>4, <2>1, <2>2 DEF Useds
    <2>. QED
        BY <1>4, <2>1, <2>3 DEF SameUsed, Useds
<1>12. r \in PageSet
    BY <1>3, <1>7 DEF PageOK, PageSet
<1>13. r.body = c /\ r.size = pg.size /\ r.offs = pg.offs
    BY <1>3
<1>14. c[p].mode = "free" /\ c[p].size = sum
    BY <1>4
<1>. QED
    BY <1>4, <1>6, <1>10, <1>11, <1>12, <1>13, <1>14

\* Past a free block that comes after a free one.
LEMMA StepJoins ==
    ASSUME NEW pg, NEW w, WalkOK(pg, w), w.at < Heap, w.pg.body[w.at].mode = "free",
           w.prv # -1, NEW j, j = A!Joined(w.pg, w.prv, w.at),
           NEW v, v = [pg |-> A!Offered(j, w.prv), prv |-> w.prv, at |-> End(w.pg.body, w.at)]
    PROVE  WalkOK(pg, v) /\ w.at < v.at
<1>. DEFINE b == w.pg.body
            p == w.prv
            after == End(b, w.at)
            c == j.body
            r == A!Offered(j, p)
<1>0. Heap \in Nat /\ Heap # 0
    BY HeapAssumption
<1>1. /\ w.at \in DOMAIN b /\ Walks(w) /\ PageOK(w.pg)
      /\ p \in DOMAIN b /\ b[p].mode = "free" /\ End(b, p) = w.at
    BY <1>0 DEF WalkOK
<1>2. v.pg = r /\ v.prv = p /\ v.at = after
    OBVIOUS
<1>3. /\ after \in Int /\ w.at < after /\ after <= Heap /\ w.at \in Int /\ 0 <= w.at
      /\ (after # Heap => after \in DOMAIN b)
      /\ b[w.at].size \in Int /\ 0 <= b[w.at].size /\ b[w.at].size < Heap
      /\ b[p].size \in Int /\ 0 <= b[p].size /\ p \in Int /\ 0 <= p /\ p < w.at
      /\ w.at = p + b[p].size + 1 /\ after = w.at + b[w.at].size + 1
    BY <1>1, HeaderIs
<1>4. /\ j \in PageSet /\ j.size = w.pg.size /\ j.offs = w.pg.offs
      /\ DOMAIN c = DOMAIN b \ {w.at} /\ p \in DOMAIN c
      /\ c[p].mode = "free" /\ c[p].size = b[p].size + b[w.at].size + 1
      /\ \A h \in DOMAIN c : h # p => c[h] = b[h]
      /\ End(c, p) = after
      /\ \A h \in DOMAIN c : h # p => End(c, h) = End(b, h)
      /\ Tiled(c) /\ SameUsed(b, c)
    <2>. HIDE DEF p
    <2>. QED
        BY <1>1, JoinedIs DEF p
<1>. HIDE DEF c, b, p, after
<1>12. c[p].size + 1 = after - p /\ c[p].size \in Int /\ c[p].size + 1 \in 0..Heap /\ p \in 0..Heap
    <2>1. c[p].size \in Int
        BY <1>3, <1>4
    <2>2. c[p].size + 1 = after - p
        BY <1>3, <1>4, <2>1
    <2>3. 0 <= after - p /\ after - p <= Heap /\ after - p \in Int
        BY <1>0, <1>3
    <2>. QED
        BY <1>0, <1>3, <2>1, <2>2, <2>3
<1>13. w.pg.size \in Int /\ w.pg.size >= 0
    BY <1>1, <1>0 DEF PageOK, PageSet
<1>5. /\ r \in PageSet /\ r.body = c
      /\ c[p].size + 1 <= r.size /\ j.size <= r.size
      /\ IF j.size < c[p].size + 1
         THEN r.size = c[p].size + 1 /\ r.offs = p
         ELSE r.size = j.size /\ r.offs = j.offs
    <2>. QED
        BY <1>4, <1>12, OfferedIs DEF c
<1>. HIDE DEF r
<1>6. PageOK(r)
    <2>1. CASE j.size < c[p].size + 1
        <3>1. r.size - 1 = c[p].size
            BY <1>5, <1>12, <2>1
        <3>. QED
            BY <1>4, <1>5, <2>1, <3>1 DEF PageOK, Placed
    <2>2. CASE ~(j.size < c[p].size + 1)
        <3>1. c[p].size + 1 > 0 /\ b[w.at].size + 1 < c[p].size + 1 /\ b[p].size + 1 < c[p].size + 1
            BY <1>3, <1>4, <1>12
        <3>2. w.pg.size > 0 /\ b[w.at].size # w.pg.size - 1 /\ b[p].size # w.pg.size - 1
            BY <1>3, <1>4, <1>12, <1>13, <2>2, <3>1
        <3>3. /\ w.pg.offs \in DOMAIN b /\ b[w.pg.offs].size = w.pg.size - 1
              /\ b[w.pg.offs].mode = "free"
            BY <1>1, <3>2 DEF PageOK, Placed, b
        <3>4. w.pg.offs # p /\ w.pg.offs # w.at
            BY <3>2, <3>3
        <3>5. w.pg.offs \in DOMAIN c /\ c[w.pg.offs] = b[w.pg.offs]
            BY <1>4, <3>3, <3>4
        <3>6. r.offs = w.pg.offs /\ r.size = w.pg.size /\ r.body = c /\ r \in PageSet /\ Tiled(r.body)
            BY <1>4, <1>5, <2>2
        <3>7. Placed(r)
            BY <3>3, <3>5, <3>6 DEF Placed
        <3>. QED
            BY <3>6, <3>7 DEF PageOK
    <2>. QED
        BY <2>1, <2>2
<1>7. Walks(v)
    <2>1. p \in -1..Heap /\ after \in 0..Heap
        BY <1>0, <1>3
    <2>2. v = [pg |-> r, prv |-> p, at |-> after]
        BY DEF r, p, after, b
    <2>. QED
        BY <1>5, <2>1, <2>2 DEF Walks
<1>8. ASSUME NEW h \in DOMAIN c, h < after, c[h].mode = "free"
      PROVE  /\ c[h].size + 1 <= r.size
             /\ IF End(c, h) = after THEN p = h
                ELSE End(c, h) \in DOMAIN c /\ c[End(c, h)].mode = "used"
    <2>1. CASE h = p
        BY <1>4, <1>5, <2>1
    <2>2. CASE h # p
        <3>0. h \in DOMAIN b /\ h # w.at /\ c[h] = b[h] /\ End(c, h) = End(b, h)
            BY <1>4, <2>2
        <3>1. h < w.at
            <4>1. w.at < h => after <= h
                BY <1>1, <3>0, HeadersInOrder DEF b, after
            <4>2. h \in Int
                BY <1>1, <3>0, HeaderIs DEF b
            <4>. QED
                BY <1>3, <1>8, <3>0, <4>1, <4>2
        <3>2. /\ End(b, h) <= w.at /\ End(b, h) \in Int /\ b[h].size \in Int
              /\ (h < p => End(b, h) < w.at) /\ (p < h => w.at <= h) /\ h \in Int
            <4>1. /\ End(b, h) \in Int /\ b[h].size \in Int /\ h \in Int
                BY <1>1, <3>0, HeaderIs DEF b
            <4>2. /\ End(b, h) <= w.at /\ (h < p => End(b, h) <= p) /\ (p < h => End(b, p) <= h)
                BY <1>1, <3>0, <3>1, HeadersInOrder DEF b
            <4>. QED
                BY <1>1, <1>3, <4>1, <4>2
        <3>3. End(b, h) # after /\ End(b, h) # w.at
            BY <1>3, <2>2, <3>1, <3>2
        <3>4. /\ b[h].size + 1 <= w.pg.size
              /\ End(b, h) \in DOMAIN b /\ b[End(b, h)].mode = "used"
            BY <1>8, <3>0, <3>1, <3>3 DEF WalkOK, Behind, b
        <3>5. w.pg.size \in Int /\ r.size \in Int
            BY <1>5, <1>13 DEF PageSet
        <3>6. b[h].size + 1 <= r.size
            BY <1>4, <1>5, <3>2, <3>4, <3>5
        <3>7. End(b, h) # p
            BY <1>1, <3>4
        <3>8. End(b, h) \in DOMAIN c /\ c[End(b, h)] = b[End(b, h)]
            BY <1>4, <3>3, <3>4, <3>7
        <3>. QED
            BY <3>0, <3>3, <3>4, <3>6, <3>8
    <2>. QED
        BY <2>1, <2>2
<1>9. Behind(v)
    BY <1>2, <1>5, <1>8 DEF Behind
<1>10. SameUsed(pg.body, c)
    <2>1. SameUsed(pg.body, b)
        BY DEF WalkOK, b
    <2>. QED
        BY <1>4, <2>1, SameUsedThrough
<1>11. after \in DOMAIN c \cup {Heap}
    BY <1>3, <1>4
<1>14. /\ p \in DOMAIN r.body /\ r.body[p].mode = "free" /\ End(r.body, p) = after
       /\ SameUsed(pg.body, r.body) /\ after \in DOMAIN r.body \cup {Heap}
    BY <1>4, <1>5, <1>10, <1>11
<1>. HIDE DEF WalkOK
<1>15. WalkOK(pg, v)
    BY ONLY <1>2, <1>6, <1>7, <1>9, <1>14 DEF WalkOK
<1>. QED
    BY <1>2, <1>3, <1>15

\* One header of the walk.
LEMMA StepWalks ==
    ASSUME NEW pg, NEW w, WalkOK(pg, w), NEW v, v = A!Step(w)
    PROVE  WalkOK(pg, v) /\ (w.at = Heap => v.at = Heap) /\ (w.at # Heap => w.at < v.at)
<1>0. Heap \in Nat /\ w.at \in 0..Heap /\ w.prv \in -1..Heap /\ PageOK(w.pg)
      /\ w.at \in DOMAIN w.pg.body \cup {Heap}
    BY HeapAssumption DEF WalkOK, Walks
<1>1. CASE w.at = Heap
    <2>1. v = w
        BY <1>0, <1>1 DEF A!Step
    <2>. QED
        BY <1>1, <2>1
<1>2. CASE w.at # Heap
    <2>0. w.at < Heap /\ ~(w.at >= Heap) /\ w.at \in DOMAIN w.pg.body
        BY <1>0, <1>2
    <2>1. w.pg.body[w.at].mode \in {"free", "used"} /\ End(w.pg.body, w.at) = w.at + w.pg.body[w.at].size + 1
        BY <1>0, <2>0, HeaderIs
    <2>2. CASE w.pg.body[w.at].mode = "used"
        <3>1. v = [w EXCEPT !.prv = -1, !.at = End(w.pg.body, w.at)]
            BY <2>0, <2>1, <2>2 DEF A!Step, A!Used
        <3>. QED
            BY <1>2, <2>0, <2>2, <3>1, StepUsed
    <2>3. CASE w.pg.body[w.at].mode = "free" /\ w.prv = -1
        <3>0. w.prv < 0
            BY <2>3
        <3>1. v = [pg |-> A!Offered(w.pg, w.at), prv |-> w.at, at |-> End(w.pg.body, w.at)]
            BY <2>0, <2>1, <2>3, <3>0 DEF A!Step, A!Used, A!Joined
        <3>. QED
            BY <1>2, <2>0, <2>3, <3>1, StepFree
    <2>4. CASE w.pg.body[w.at].mode = "free" /\ w.prv # -1
        <3>0. ~(w.prv < 0)
            BY <1>0, <2>4
        <3>1. v = [pg |-> A!Offered(A!Joined(w.pg, w.prv, w.at), w.prv), prv |-> w.prv,
                   at |-> End(w.pg.body, w.at)]
            BY <2>0, <2>1, <2>4, <3>0 DEF A!Step, A!Used
        <3>. QED
            BY <1>2, <2>0, <2>4, <3>1, StepJoins
    <2>. QED
        BY <2>1, <2>2, <2>3, <2>4
<1>. QED
    BY <1>1, <1>2

\* A page after the walk: no free block is larger than its room, and none is
\* before another.
Swept(pg) ==
    /\ PageOK(pg)
    /\ \A h \in DOMAIN pg.body : pg.body[h].mode = "free" =>
        /\ pg.body[h].size + 1 <= pg.size
        /\ End(pg.body, h) # Heap => /\ End(pg.body, h) \in DOMAIN pg.body
                                     /\ pg.body[End(pg.body, h)].mode = "used"

WalkBegin(pg) == [pg |-> pg, prv |-> -1, at |-> 0]

LEMMA WalkBegins ==
    ASSUME NEW pg, PageOK(pg)
    PROVE  WalkOK(pg, WalkBegin(pg))
<1>. DEFINE w == WalkBegin(pg)
<1>1. w.pg = pg /\ w.prv = -1 /\ w.at = 0
    BY DEF WalkBegin
<1>2. Walks(w)
    <2>1. Heap \in Nat /\ pg \in PageSet
        BY HeapAssumption DEF PageOK
    <2>. QED
        BY <2>1 DEF Walks, WalkBegin
<1>. HIDE DEF w
<1>3. Behind(w)
    <2>1. ASSUME NEW h \in DOMAIN pg.body PROVE ~(h < 0)
        <3>1. h \in Int /\ 0 <= h
            BY HeaderIs
        <3>. QED
            BY <3>1
    <2>. QED
        BY <1>1, <2>1 DEF Behind
<1>4. 0 \in DOMAIN pg.body /\ SameUsed(pg.body, pg.body)
    BY DEF PageOK, Tiled, SameUsed
<1>. QED
    BY <1>1, <1>2, <1>3, <1>4 DEF WalkOK, w

\* The places of a walk, by the number of headers it has passed at least.
Passed(pg) ==
    {q \in (0..Heap) \X [pg : PageSet, prv : -1..Heap, at : 0..Heap] :
        WalkOK(pg, q[2]) /\ q[1] <= q[2].at}

LEMMA SweepIs ==
    ASSUME NEW pg, PageOK(pg), NEW r, r = A!Sweep(pg)
    PROVE  Swept(r) /\ SameUsed(pg.body, r.body)
<1>. DEFINE x == WalkBegin(pg)
            S == {w \in [pg : PageSet, prv : -1..Heap, at : 0..Heap] : WalkOK(pg, w)}
            Def(g) == [n \in 0..Heap |-> IF n = 0 THEN x ELSE A!Step(g[n - 1])]
            t == CHOOSE g : g = Def(g)
            G == [w \in S |-> A!Step(w)]
<1>1. Heap \in Nat
    BY HeapAssumption
<1>2. r = t[Heap].pg
    BY DEF A!Sweep, WalkBegin
<1>3. \A w : w \in S <=> WalkOK(pg, w)
    BY DEF WalkOK, Walks
<1>4. x \in S
    BY <1>3, WalkBegins
<1>. HIDE DEF x, S
<1>5. G \in [S -> S]
    <2>1. \A w \in S : A!Step(w) \in S
        BY <1>3, StepWalks
    <2>. QED
        BY <2>1
<1>6. PICK g \in [0..Heap -> S] : g[0] = x /\ \A i \in 1..Heap : g[i] = G[g[i - 1]]
    <2>. HIDE DEF G
    <2>1. HasPath(S, G, x, Heap)
        BY <1>1, <1>4, <1>5, Iterated
    <2>. QED
        BY <2>1 DEF HasPath
<1>7. g = Def(g)
    <2>1. \A i \in 0..Heap : i # 0 => i \in 1..Heap /\ i - 1 \in 0..Heap
        BY <1>1
    <2>2. \A i \in 0..Heap : i # 0 => g[i - 1] \in S
        BY <2>1
    <2>3. \A i \in 0..Heap : g[i] = IF i = 0 THEN x ELSE A!Step(g[i - 1])
        BY <1>6, <2>1, <2>2
    <2>4. g = [i \in 0..Heap |-> g[i]]
        OBVIOUS
    <2>. QED
        BY <2>3, <2>4
<1>8. t = Def(t)
    <2>. HIDE DEF Def
    <2>. QED
        BY <1>7
<1>9. \A i \in 0..Heap : t[i] = IF i = 0 THEN x ELSE A!Step(t[i - 1])
    <2>. HIDE DEF t
    <2>. QED
        BY <1>8
<1>. HIDE DEF t, Def, G
<1>10. t[0] = x /\ \A i \in 1..Heap : t[i] = A!Step(t[i - 1])
    <2>1. 0 \in 0..Heap /\ \A i \in 1..Heap : i \in 0..Heap /\ i # 0
        BY <1>1
    <2>. QED
        BY <1>9, <2>1
<1>11. t[Heap] \in S /\ t[Heap].at = Heap
    <2>. DEFINE u == [i \in 0..Heap |-> <<i, t[i]>>]
    <2>1. u[0] \in Passed(pg)
        <3>1. u[0] = <<0, x>>
            BY <1>1, <1>10
        <3>2. WalkOK(pg, x) /\ x \in [pg : PageSet, prv : -1..Heap, at : 0..Heap] /\ x.at = 0
            BY <1>3, <1>4 DEF S, x, WalkBegin
        <3>. QED
            BY <1>1, <3>1, <3>2 DEF Passed
    <2>2. ASSUME NEW i \in 1..Heap, u[i - 1] \in Passed(pg)
          PROVE  u[i] \in Passed(pg)
        <3>. DEFINE w == t[i - 1]
                    v == t[i]
        <3>1. i - 1 \in 0..Heap /\ i \in 0..Heap /\ i \in Int
            BY <1>1
        <3>2. u[i - 1] = <<i - 1, w>> /\ u[i] = <<i, v>>
            BY <3>1
        <3>. HIDE DEF u
        <3>3. v = A!Step(w)
            BY <1>10
        <3>. HIDE DEF w, v
        <3>4. WalkOK(pg, w) /\ i - 1 <= w.at /\ w.at \in 0..Heap
            BY <2>2, <3>2 DEF Passed
        <3>5. WalkOK(pg, v) /\ (w.at = Heap => v.at = Heap) /\ (w.at # Heap => w.at < v.at)
            BY <3>3, <3>4, StepWalks
        <3>6. v \in [pg : PageSet, prv : -1..Heap, at : 0..Heap] /\ v.at \in 0..Heap
            BY <3>5 DEF WalkOK, Walks
        <3>7. i <= v.at
            <4>1. w.at \in Int /\ v.at \in Int /\ i <= Heap
                BY <1>1, <3>4, <3>6
            <4>. QED
                BY <3>1, <3>4, <3>5, <4>1
        <3>. QED
            BY <3>1, <3>2, <3>5, <3>6, <3>7 DEF Passed
    <2>3. u[Heap] = <<Heap, t[Heap]>> /\ Heap \in 0..Heap
        BY <1>1
    <2>. HIDE DEF u
    <2>4. \A i \in 0..Heap : u[i] \in Passed(pg)
        BY <1>1, <2>1, <2>2, Kept
    <2>5. WalkOK(pg, t[Heap]) /\ Heap <= t[Heap].at /\ t[Heap].at \in 0..Heap
        BY <2>3, <2>4 DEF Passed
    <2>. QED
        BY <1>1, <1>3, <2>5
<1>12. WalkOK(pg, t[Heap])
    BY <1>3, <1>11
<1>13. ASSUME NEW h \in DOMAIN r.body, r.body[h].mode = "free"
       PROVE  /\ r.body[h].size + 1 <= r.size
              /\ End(r.body, h) # Heap => /\ End(r.body, h) \in DOMAIN r.body
                                          /\ r.body[End(r.body, h)].mode = "used"
    <2>1. h < Heap
        BY <1>2, <1>12, HeaderIs DEF WalkOK
    <2>. QED
        BY <1>2, <1>11, <1>12, <1>13, <2>1 DEF WalkOK, Behind
<1>. QED
    BY <1>2, <1>12, <1>13 DEF WalkOK, Swept

\* Every byte of a page belongs to one block.
LEMMA Covered ==
    ASSUME NEW pg, PageOK(pg), NEW x \in Cells
    PROVE  \E h \in DOMAIN pg.body : h <= x /\ x < End(pg.body, h)
<1>. DEFINE b == pg.body
            D == {h \in DOMAIN b : h <= x}
            T == {x - h : h \in D}
<1>0. Heap \in Nat /\ x \in Int /\ 0 <= x /\ x < Heap
    BY HeapAssumption DEF Cells
<1>1. \A h \in DOMAIN b : h \in Int /\ 0 <= h /\ End(b, h) \in Int
    BY HeaderIs
<1>2. T \subseteq Nat
    BY <1>0, <1>1
<1>3. 0 \in D
    BY <1>0 DEF PageOK, Tiled
<1>4. T # {}
    BY <1>3
<1>5. PICK m \in T : \A n \in T : m <= n
    <2>. HIDE DEF T
    <2>. QED
        BY <1>2, <1>4, Least
<1>6. PICK h \in D : m = x - h
    OBVIOUS
<1>7. h \in DOMAIN b /\ h <= x
    BY <1>6
<1>8. \A k \in DOMAIN b : k <= x => k <= h
    <2>1. ASSUME NEW k \in DOMAIN b, k <= x PROVE k <= h
        <3>1. x - k \in T
            BY <2>1
        <3>2. x - h <= x - k
            BY <1>5, <1>6, <3>1
        <3>. QED
            BY <1>0, <1>1, <1>7, <3>2
    <2>. QED
        BY <2>1
<1>9. x < End(b, h)
    <2>1. End(b, h) # Heap => End(b, h) \in DOMAIN b
        BY <1>7, HeaderIs
    <2>2. h < End(b, h) /\ End(b, h) \in Int /\ h \in Int
        BY <1>7, HeaderIs
    <2>3. CASE End(b, h) = Heap
        BY <1>0, <2>3
    <2>4. CASE End(b, h) # Heap
        <3>1. ~(End(b, h) <= x)
            BY <1>8, <2>1, <2>2, <2>4
        <3>. QED
            BY <1>0, <2>2, <3>1
    <2>. QED
        BY <2>3, <2>4
<1>. QED
    BY <1>7, <1>9

\* After a walk the room of a page is as large as any place in it that
\* nothing that is used has a byte of.
LEMMA LargestFound ==
    ASSUME NEW pg, Swept(pg), NEW x \in Cells, NEW y \in Cells, x <= y,
           \A h \in Useds(pg.body) : \A z \in x..y : ~(h <= z /\ z < End(pg.body, h))
    PROVE  y - x + 1 <= pg.size
<1>. DEFINE b == pg.body
<1>0. Heap \in Nat /\ x \in Int /\ y \in Int /\ x < Heap /\ y < Heap /\ 0 <= x /\ x \in x..y /\ y \in x..y
    BY HeapAssumption DEF Cells
<1>1. PageOK(pg)
    BY DEF Swept
<1>2. PICK h \in DOMAIN b : h <= x /\ x < End(b, h)
    BY <1>1, Covered
<1>3. h \notin Useds(b)
    BY <1>0, <1>2
<1>4. /\ h \in Int /\ End(b, h) = h + b[h].size + 1 /\ End(b, h) <= Heap /\ b[h].size \in Int
      /\ b[h].mode \in {"free", "used"} /\ End(b, h) \in Int
    BY <1>1, HeaderIs
<1>5. b[h].mode = "free"
    BY <1>3, <1>4 DEF Useds
<1>6. b[h].size + 1 <= pg.size
    BY <1>5 DEF Swept
<1>7. y < End(b, h)
    <2>1. ASSUME ~(y < End(b, h)) PROVE FALSE
        <3>1. End(b, h) <= y /\ End(b, h) # Heap /\ End(b, h) \in x..y
            BY <1>0, <1>2, <1>4, <2>1
        <3>2. End(b, h) \in DOMAIN b /\ b[End(b, h)].mode = "used"
            BY <1>5, <3>1 DEF Swept
        <3>3. End(b, h) \in Useds(b)
            BY <3>2 DEF Useds
        <3>4. End(b, h) <= End(b, h) /\ End(b, h) < End(b, End(b, h))
            <4>1. PICK e : e = End(b, h)
                OBVIOUS
            <4>2. e \in DOMAIN pg.body /\ e \in Int
                BY <1>4, <3>2, <4>1
            <4>3. e < End(pg.body, e)
                BY <1>1, <4>2, HeaderIs
            <4>4. e <= e
                BY <4>2
            <4>. QED
                BY <4>1, <4>3, <4>4
        <3>. QED
            BY <3>1, <3>3, <3>4
    <2>. QED
        BY <2>1
<1>8. pg.size \in Int
    BY <1>1 DEF PageOK, PageSet
<1>. QED
    BY <1>0, <1>2, <1>4, <1>6, <1>7, <1>8

\* A page that is all room has nothing in it that is used.
LEMMA AllRoom ==
    ASSUME NEW pg, PageOK(pg), pg.size >= Heap
    PROVE  Useds(pg.body) = {}
<1>. DEFINE b == pg.body
<1>0. Heap \in Nat /\ Heap # 0 /\ pg.size \in 0..Heap
    BY HeapAssumption DEF PageOK, PageSet
<1>1. pg.offs \in DOMAIN b /\ b[pg.offs].size = Heap - 1 /\ b[pg.offs].mode = "free"
    <2>1. pg.size = Heap /\ pg.size > 0
        BY <1>0
    <2>. QED
        BY <2>1 DEF PageOK, Placed
<1>2. pg.offs = 0 /\ End(b, pg.offs) = Heap
    <2>1. /\ pg.offs \in Int /\ 0 <= pg.offs /\ End(b, pg.offs) <= Heap
          /\ End(b, pg.offs) = pg.offs + b[pg.offs].size + 1
        BY <1>1, HeaderIs
    <2>. QED
        BY <1>0, <1>1, <2>1
<1>3. ASSUME NEW h \in DOMAIN b PROVE h = 0
    <2>1. h \in Int /\ 0 <= h /\ h < Heap
        BY HeaderIs
    <2>2. 0 < h => Heap <= h
        BY <1>1, <1>2, HeadersInOrder
    <2>. QED
        BY <1>0, <2>1, <2>2
<1>. QED
    BY <1>1, <1>2, <1>3 DEF Useds

\* A page that a block was cut off.
LEMMA CutIs ==
    ASSUME NEW pg, PageOK(pg), NEW sz \in Nat, A!Fits(pg, sz), NEW r, r = A!Cut(pg, sz)
    PROVE  /\ PageOK(r) /\ pg.offs \notin Useds(pg.body) /\ pg.offs \in Cells
           /\ Useds(r.body) = Useds(pg.body) \cup {pg.offs}
           /\ r.body[pg.offs].size = sz
           /\ \A h \in Useds(pg.body) : r.body[h] = pg.body[h]
<1>. DEFINE b == pg.body
            o == pg.offs
            rest == pg.size - (sz + 1)
            end == o + sz + 1
            tail == IF rest > 0 THEN {end} ELSE {}
            c == [h \in DOMAIN b \cup {o} \cup tail |->
                     IF h = o THEN [size |-> sz, mode |-> "used"]
                     ELSE IF h \in tail THEN [size |-> rest - 1, mode |-> "free"]
                     ELSE b[h]]
<1>0. Heap \in Nat /\ Heap # 0 /\ sz \in Int /\ 0 <= sz /\ pg.size \in Int /\ pg \in PageSet
    BY HeapAssumption DEF PageOK, PageSet
<1>1. /\ pg.size > 0 /\ 0 <= rest /\ rest \in Int
    BY <1>0 DEF A!Fits
<1>2. o \in DOMAIN b /\ b[o].size = pg.size - 1 /\ b[o].mode = "free"
    BY <1>1 DEF PageOK, Placed
<1>3. /\ o \in Int /\ 0 <= o /\ o < Heap /\ End(b, o) = o + pg.size /\ End(b, o) <= Heap
      /\ End(b, o) \in Int /\ (End(b, o) # Heap => End(b, o) \in DOMAIN b)
    <2>1. /\ o \in Int /\ 0 <= o /\ o < Heap /\ End(b, o) <= Heap /\ End(b, o) \in Int
          /\ (End(b, o) # Heap => End(b, o) \in DOMAIN b) /\ End(b, o) = o + b[o].size + 1
        BY <1>2, HeaderIs
    <2>. QED
        BY <1>0, <1>2, <2>1
<1>4. r = [size |-> rest, offs |-> end, body |-> c]
    BY DEF A!Cut, A!Used, A!Free
<1>5. o < end /\ end \in Int /\ end + rest = End(b, o) /\ end <= Heap /\ (rest > 0 => end < End(b, o))
    BY <1>0, <1>1, <1>3
<1>6. \A h \in tail : h = end /\ rest > 0 /\ h # o
    BY <1>5
<1>7. end \notin DOMAIN b \/ rest = 0
    <2>1. ASSUME end \in DOMAIN b, rest # 0 PROVE FALSE
        <3>1. End(b, o) <= end
            BY <1>2, <1>5, <2>1, HeadersInOrder
        <3>. QED
            BY <1>1, <1>3, <1>5, <2>1, <3>1
    <2>. QED
        BY <2>1
<1>8. /\ DOMAIN c = DOMAIN b \cup tail
      /\ c[o] = [size |-> sz, mode |-> "used"]
      /\ \A h \in tail : c[h] = [size |-> rest - 1, mode |-> "free"]
      /\ \A h \in DOMAIN b : h # o => c[h] = b[h]
    <2>1. \A h \in DOMAIN b : h \notin tail
        BY <1>6, <1>7
    <2>2. DOMAIN c = DOMAIN b \cup tail
        BY <1>2
    <2>. QED
        BY <1>2, <1>6, <2>1, <2>2
<1>9. c = [h \in DOMAIN c |-> c[h]] /\ rest - 1 \in Int
    BY <1>1
<1>10. rest > 0 => tail = {end}
    OBVIOUS
<1>. HIDE DEF c, tail, rest, end
<1>11. /\ End(c, o) = end
       /\ \A h \in tail : End(c, h) = End(b, o)
       /\ \A h \in DOMAIN b : h # o => End(c, h) = End(b, h)
    <2>1. c[o].size = sz
        BY <1>8
    <2>2. ASSUME NEW h \in tail PROVE End(c, h) = End(b, o)
        <3>1. c[h].size = rest - 1 /\ h = end
            BY <1>6, <1>8
        <3>2. h + c[h].size + 1 = end + rest
            BY <1>1, <1>5, <3>1
        <3>. QED
            BY <1>5, <3>2 DEF End
    <2>3. end = o + sz + 1
        BY DEF end
    <2>4. ASSUME NEW h \in DOMAIN b, h # o PROVE End(c, h) = End(b, h)
        BY <1>8, <2>4 DEF End
    <2>. QED
        BY <2>1, <2>2, <2>3, <2>4 DEF End
<1>12. \A h \in DOMAIN b : h \in Int /\ h < End(b, h) /\ End(b, h) \in Int
    BY HeaderIs
<1>13. \A h, k \in DOMAIN b : h < k => End(b, h) <= k
    BY DEF PageOK, Tiled
<1>14. Tiled(c)
    <2>1. 0 \in DOMAIN c
        BY <1>8 DEF PageOK, Tiled
    <2>2. ASSUME NEW h \in DOMAIN c PROVE End(c, h) \in DOMAIN c \cup {Heap}
        <3>1. CASE h = o
            <4>1. rest > 0 => end \in DOMAIN c
                BY <1>8, <1>10
            <4>2. ~(rest > 0) => end = End(b, o)
                BY <1>1, <1>5
            <4>. QED
                BY <1>3, <1>8, <1>11, <3>1, <4>1, <4>2
        <3>2. CASE h \in tail
            BY <1>3, <1>8, <1>11, <3>2
        <3>3. CASE h \in DOMAIN b /\ h # o
            <4>1. End(b, h) \in DOMAIN b \cup {Heap}
                BY <3>3 DEF PageOK, Tiled
            <4>. QED
                BY <1>8, <1>11, <3>3, <4>1
        <3>. QED
            BY <1>8, <3>1, <3>2, <3>3
    <2>3. ASSUME NEW h \in DOMAIN c, NEW k \in DOMAIN c, h < k PROVE End(c, h) <= k
        <3>1. CASE h \in DOMAIN b /\ k \in DOMAIN b
            <4>1. End(b, h) <= k
                BY <1>13, <2>3, <3>1
            <4>2. h = o => End(c, h) <= End(b, h)
                BY <1>1, <1>5, <1>11
            <4>3. h # o => End(c, h) = End(b, h)
                BY <1>11, <3>1
            <4>4. End(b, h) \in Int /\ k \in Int /\ (h = o => End(c, h) \in Int)
                BY <1>5, <1>11, <1>12, <3>1
            <4>. QED
                BY <4>1, <4>2, <4>3, <4>4
        <3>2. CASE h \in tail /\ k \in DOMAIN b
            <4>1. h = end /\ o < k /\ k \in Int
                BY <1>3, <1>5, <1>6, <1>12, <2>3, <3>2
            <4>2. End(b, o) <= k
                BY <1>2, <1>13, <3>2, <4>1
            <4>. QED
                BY <1>11, <3>2, <4>2
        <3>3. CASE h \in DOMAIN b /\ k \in tail
            <4>1. k = end /\ h \in Int /\ rest > 0
                BY <1>6, <1>12, <3>3
            <4>2. CASE h = o
                BY <1>5, <1>11, <4>1, <4>2
            <4>3. CASE h # o
                <5>1. ~(o < h)
                    <6>1. o < h => End(b, o) <= h
                        BY <1>2, <1>13, <3>3
                    <6>. QED
                        BY <1>3, <1>5, <2>3, <4>1, <6>1
                <5>2. h < o
                    BY <1>3, <4>1, <4>3, <5>1
                <5>3. End(b, h) <= o /\ End(b, h) \in Int
                    BY <1>2, <1>12, <1>13, <3>3, <5>2
                <5>. QED
                    BY <1>3, <1>5, <1>11, <3>3, <4>1, <4>3, <5>3
            <4>. QED
                BY <4>2, <4>3
        <3>4. ~(h \in tail /\ k \in tail)
            BY <1>5, <1>6, <2>3
        <3>. QED
            BY <1>8, <3>1, <3>2, <3>3, <3>4
    <2>. QED
        BY <2>1, <2>2, <2>3 DEF Tiled
<1>15. c \in Bodies
    <2>1. BodyOK(b)
        BY <1>0, BodyIs DEF PageSet
    <2>2. \A h \in DOMAIN b : b[h] \in Headers /\ h \in Cells
        BY <2>1 DEF BodyOK
    <2>3. c[o] \in Headers
        <3>1. sz \in Cells
            BY <1>0, <1>3, <1>5 DEF Cells, end
        <3>. QED
            BY <1>8, <3>1 DEF Headers
    <2>4. ASSUME NEW h \in tail PROVE c[h] \in Headers /\ h \in Cells
        <3>1. h = end /\ rest > 0 /\ c[h] = [size |-> rest - 1, mode |-> "free"]
            BY <1>6, <1>8
        <3>2. rest - 1 \in Cells /\ end \in Cells
            BY <1>0, <1>1, <1>3, <1>5, <3>1 DEF Cells
        <3>. QED
            BY <3>1, <3>2 DEF Headers
    <2>5. \A h \in DOMAIN c : c[h] \in Headers /\ h \in Cells
        BY <1>8, <2>2, <2>3, <2>4
    <2>6. BodyOK(c)
        BY <1>9, <2>5 DEF BodyOK
    <2>. QED
        BY <2>6, BodyIs
<1>16. PageOK(r)
    <2>1. r \in PageSet
        <3>1. rest \in 0..Heap /\ end \in 0..Heap
            BY <1>0, <1>1, <1>3, <1>5
        <3>. QED
            BY <1>4, <1>15, <3>1 DEF PageSet
    <2>2. Placed(r)
        <3>1. rest > 0 => end \in DOMAIN c /\ c[end] = [size |-> rest - 1, mode |-> "free"]
            BY <1>8, <1>10
        <3>. QED
            BY <1>4, <3>1 DEF Placed
    <2>. QED
        BY <1>4, <1>14, <2>1, <2>2 DEF PageOK
<1>17. Useds(c) = Useds(b) \cup {o}
    <2>1. \A h \in tail : c[h].mode = "free"
        BY <1>8
    <2>2. c[o].mode = "used"
        BY <1>8
    <2>3. ASSUME NEW h \in DOMAIN c PROVE c[h].mode = "used" <=> h = o \/ (h \in DOMAIN b /\ b[h].mode = "used")
        <3>1. CASE h \in tail
            <4>1. h \notin DOMAIN b
                BY <1>6, <1>7, <3>1
            <4>. QED
                BY <1>6, <2>1, <3>1, <4>1
        <3>2. CASE h \in DOMAIN b
            BY <1>8, <2>2, <3>2
        <3>. QED
            BY <1>8, <3>1, <3>2
    <2>. QED
        BY <1>2, <1>8, <2>3 DEF Useds
<1>18. o \notin Useds(b) /\ o \in Cells /\ c[o].size = sz
    BY <1>0, <1>2, <1>3, <1>8 DEF Useds, Cells
<1>19. \A h \in Useds(b) : c[h] = b[h]
    BY <1>8, <1>18 DEF Useds
<1>. QED
    BY <1>4, <1>16, <1>17, <1>18, <1>19

LEMMA NewPageIs ==
    LET pg == A!NewPage IN
    PageOK(pg) /\ Useds(pg.body) = {} /\ pg.size = Heap /\ pg.offs = 0
<1>. DEFINE b == [o \in {0} |-> [size |-> Heap - 1, mode |-> "free"]]
<1>0. Heap \in Nat /\ Heap # 0
    BY HeapAssumption
<1>1. A!NewPage = [size |-> Heap, offs |-> 0, body |-> b]
    BY DEF A!NewPage, A!Free
<1>2. DOMAIN b = {0} /\ b[0] = [size |-> Heap - 1, mode |-> "free"] /\ b = [h \in DOMAIN b |-> b[h]]
    OBVIOUS
<1>. HIDE DEF b
<1>3. b \in Bodies
    <2>1. Heap - 1 \in Cells /\ 0 \in Cells
        BY <1>0 DEF Cells
    <2>2. \A h \in DOMAIN b : b[h] \in Headers /\ h \in Cells
        BY <1>2, <2>1 DEF Headers
    <2>3. BodyOK(b)
        BY <1>2, <2>2 DEF BodyOK
    <2>. QED
        BY <2>3, BodyIs
<1>4. End(b, 0) = Heap
    <2>1. b[0].size = Heap - 1
        BY <1>2
    <2>. QED
        BY <1>0, <2>1 DEF End
<1>5. Tiled(b)
    BY <1>2, <1>4 DEF Tiled
<1>6. A!NewPage \in PageSet
    <2>1. Heap \in 0..Heap /\ 0 \in 0..Heap
        BY <1>0
    <2>. QED
        BY <1>1, <1>3, <2>1 DEF PageSet
<1>7. Placed(A!NewPage)
    BY <1>1, <1>2 DEF Placed
<1>8. Useds(b) = {}
    BY <1>2 DEF Useds
<1>. QED
    BY <1>1, <1>5, <1>6, <1>7, <1>8 DEF PageOK

-----------------------------------------------------------------------------
(* The pages of the heap, and the blocks that the program has.             *)

PageMaps == UNION {[D -> PageSet] : D \in SUBSET Pages}
Blocks   == [in : Pages, at : Nat, size : Nat]

PagesOK(pgs) ==
    /\ DOMAIN pgs \subseteq Pages /\ pgs = [p \in DOMAIN pgs |-> pgs[p]]
    /\ \A p \in DOMAIN pgs : PageOK(pgs[p])

\* Every page is in the order once, and the sweep is at one of them.
OrderOK(o, a, pgs) ==
    /\ o \in Seq(Pages) /\ Distinct(o)
    /\ \A p : In(o, p) <=> p \in DOMAIN pgs
    /\ a \in DOMAIN pgs \cup {Nil}

\* The blocks of the program are the headers that are used.
BlocksOK(pgs, lv) ==
    /\ lv \subseteq Blocks
    /\ \A b \in lv : /\ b.in \in DOMAIN pgs /\ b.at - 1 \in Useds(pgs[b.in].body)
                     /\ pgs[b.in].body[b.at - 1].size = b.size
    /\ \A p \in DOMAIN pgs : \A h \in Useds(pgs[p].body) :
          \E b \in lv : b.in = p /\ b.at - 1 = h

HeapOK(s, lv) ==
    /\ s = [obj |-> s.obj, act |-> s.act, page |-> s.page]
    /\ PagesOK(s.page) /\ OrderOK(s.obj, s.act, s.page) /\ BlocksOK(s.page, lv)

HeapNow == [obj |-> obj, act |-> sweep, page |-> page]

HeapInv == HeapOK(HeapNow, live)

LEMMA PageMap == \A pgs : PagesOK(pgs) => pgs \in PageMaps
<1>. SUFFICES ASSUME NEW pgs, PagesOK(pgs) PROVE pgs \in PageMaps
    OBVIOUS
<1>1. pgs \in [DOMAIN pgs -> PageSet]
    BY DEF PagesOK, PageOK
<1>. QED
    BY <1>1 DEF PagesOK, PageMaps

\* A sequence without one of its pages.
LEMMA PageLeaves ==
    ASSUME NEW q \in Seq(Pages), Distinct(q), NEW k \in 1..Len(q),
           NEW d, d = A!Without(q, k)
    PROVE  /\ d \in Seq(Pages) /\ Distinct(d)
           /\ \A n : In(d, n) <=> In(q, n) /\ n # q[k]
<1>1. Len(q) \in Nat /\ Len(q) - 1 \in Nat /\ \A j \in 1..Len(q) : q[j] \in Pages
    OBVIOUS
<1>0. d = [j \in 1..Len(q) - 1 |-> IF j < k THEN q[j] ELSE q[j + 1]]
    BY DEF A!Without
<1>2. d \in [1..Len(q) - 1 -> Pages]
    BY <1>0, <1>1
<1>3. d \in Seq(Pages) /\ Len(d) = Len(q) - 1
    BY <1>1, <1>2, SeqOfFunction
<1>4. \A j \in 1..Len(d) : d[j] = IF j < k THEN q[j] ELSE q[j + 1]
    BY <1>0, <1>1, <1>3
<1>5. Distinct(d)
    <2>. SUFFICES ASSUME NEW i \in 1..Len(d), NEW j \in 1..Len(d), d[i] = d[j] PROVE i = j
        BY DEF Distinct
    <2>1. i \in 1..Len(q) /\ j \in 1..Len(q) /\ i + 1 \in 1..Len(q) /\ j + 1 \in 1..Len(q)
        BY <1>1, <1>3
    <2>. QED
        BY <2>1, <1>1, <1>4 DEF Distinct
<1>6. ASSUME NEW n, In(d, n) PROVE In(q, n) /\ n # q[k]
    <2>1. PICK j \in 1..Len(d) : d[j] = n
        BY <1>6 DEF In
    <2>2. j \in 1..Len(q) /\ j + 1 \in 1..Len(q)
        BY <1>1, <1>3
    <2>. QED
        BY <2>1, <2>2, <1>1, <1>4 DEF In, Distinct
<1>7. ASSUME NEW n, In(q, n), n # q[k] PROVE In(d, n)
    <2>1. PICK i \in 1..Len(q) : q[i] = n
        BY <1>7 DEF In
    <2>2. CASE i < k
        <3>1. i \in 1..Len(d)
            BY <2>2, <1>1, <1>3
        <3>. QED
            BY <3>1, <2>1, <2>2, <1>4 DEF In
    <2>3. CASE i > k
        <3>1. i - 1 \in 1..Len(d) /\ ~(i - 1 < k) /\ (i - 1) + 1 = i
            BY <2>3, <1>1, <1>3
        <3>. QED
            BY <3>1, <2>1, <1>4 DEF In
    <2>. QED
        BY <2>1, <2>2, <2>3, <1>7, <1>1
<1>. QED
    BY <1>3, <1>5, <1>6, <1>7

\* ...and with one more in front.
LEMMA PageInFront ==
    ASSUME NEW q \in Seq(Pages), Distinct(q), NEW p \in Pages, ~In(q, p),
           NEW d, d = <<p>> \o q
    PROVE  /\ d \in Seq(Pages) /\ Distinct(d)
           /\ \A n : In(d, n) <=> In(q, n) \/ n = p
<1>1. Len(q) \in Nat /\ <<p>> \in Seq(Pages) /\ Len(<<p>>) = 1
    OBVIOUS
<1>2. /\ d \in Seq(Pages) /\ Len(d) = Len(q) + 1 /\ d[1] = p
      /\ \A i \in 1..Len(q) : d[i + 1] = q[i] /\ i + 1 \in 1..Len(d)
    BY <1>1
<1>3. \A i \in 1..Len(d) : i # 1 => i - 1 \in 1..Len(q) /\ d[i] = q[i - 1]
    <2>. SUFFICES ASSUME NEW i \in 1..Len(d), i # 1
                  PROVE  i - 1 \in 1..Len(q) /\ d[i] = q[i - 1]
        OBVIOUS
    <2>1. i - 1 \in 1..Len(q) /\ (i - 1) + 1 = i
        BY <1>1, <1>2
    <2>2. d[(i - 1) + 1] = q[i - 1]
        BY <1>2, <2>1
    <2>. QED
        BY <2>1, <2>2
<1>4. \A i \in 1..Len(q) : q[i] # p
    BY DEF In
<1>5. Distinct(d)
    <2>. SUFFICES ASSUME NEW i \in 1..Len(d), NEW j \in 1..Len(d), d[i] = d[j] PROVE i = j
        BY DEF Distinct
    <2>1. CASE i # 1 /\ j # 1
        <3>1. i - 1 = j - 1
            BY <1>3, <2>1 DEF Distinct
        <3>. QED
            BY <1>2, <3>1
    <2>2. CASE i = 1 \/ j = 1
        BY <1>2, <1>3, <1>4, <2>2
    <2>. QED
        BY <2>1, <2>2
<1>6. ASSUME NEW n, In(d, n) PROVE In(q, n) \/ n = p
    BY <1>2, <1>3, <1>6 DEF In
<1>7. ASSUME NEW n, In(q, n) \/ n = p PROVE In(d, n)
    <2>1. 1 \in 1..Len(d)
        BY <1>1, <1>2
    <2>. QED
        BY <1>2, <1>7, <2>1 DEF In
<1>. QED
    BY <1>2, <1>5, <1>6, <1>7

\* Where a page of the order is, and what comes after it.
LEMMA PageAt ==
    ASSUME NEW q \in Seq(Pages), Distinct(q), NEW x, In(q, x),
           NEW i, i = CHOOSE j \in DOMAIN q : q[j] = x
    PROVE  /\ i \in 1..Len(q) /\ q[i] = x
           /\ i # Len(q) => In(q, q[i + 1]) /\ q[i + 1] # x
<1>1. DOMAIN q = 1..Len(q) /\ Len(q) \in Nat
    OBVIOUS
<1>2. i \in 1..Len(q) /\ q[i] = x
    BY <1>1 DEF In
<1>3. i # Len(q) => i + 1 \in 1..Len(q) /\ i + 1 # i
    <2>1. PICK n \in Nat : n = Len(q)
        BY <1>1
    <2>2. i \in 1..n
        BY ONLY <1>2, <2>1
    <2>3. i # n => i + 1 \in 1..n /\ i + 1 # i
        BY ONLY <2>2, n \in Nat
    <2>. QED
        BY <2>1, <2>3
<1>. QED
    BY <1>2, <1>3 DEF In, Distinct

-----------------------------------------------------------------------------
(* _next_(): pages that were walked.                                       *)

LEMMA PagePut ==
    ASSUME NEW pgs, NEW lv, PagesOK(pgs), BlocksOK(pgs, lv), NEW x \in DOMAIN pgs,
           NEW pg, PageOK(pg), SameUsed(pgs[x].body, pg.body),
           NEW r, r = [pgs EXCEPT ![x] = pg]
    PROVE  PagesOK(r) /\ DOMAIN r = DOMAIN pgs /\ BlocksOK(r, lv)
<1>1. pgs = [p \in DOMAIN pgs |-> pgs[p]] /\ DOMAIN pgs \subseteq Pages
    BY DEF PagesOK
<1>2. /\ DOMAIN r = DOMAIN pgs /\ r = [p \in DOMAIN r |-> r[p]]
      /\ r[x] = pg /\ \A p \in DOMAIN pgs : p # x => r[p] = pgs[p]
    BY <1>1
<1>3. PagesOK(r)
    BY <1>1, <1>2 DEF PagesOK
<1>4. ASSUME NEW p \in DOMAIN pgs
      PROVE  /\ Useds(r[p].body) = Useds(pgs[p].body)
             /\ \A h \in Useds(pgs[p].body) : r[p].body[h] = pgs[p].body[h]
    BY <1>2 DEF SameUsed
<1>5. ASSUME NEW b \in lv
      PROVE  /\ b.in \in DOMAIN r /\ b.at - 1 \in Useds(r[b.in].body)
             /\ r[b.in].body[b.at - 1].size = b.size
    <2>1. /\ b.in \in DOMAIN pgs /\ b.at - 1 \in Useds(pgs[b.in].body)
          /\ pgs[b.in].body[b.at - 1].size = b.size
        BY DEF BlocksOK
    <2>. QED
        BY <1>2, <1>4, <2>1
<1>6. ASSUME NEW p \in DOMAIN r, NEW h \in Useds(r[p].body)
      PROVE  \E b \in lv : b.in = p /\ b.at - 1 = h
    <2>1. p \in DOMAIN pgs /\ h \in Useds(pgs[p].body)
        BY <1>2, <1>4
    <2>. QED
        BY <2>1 DEF BlocksOK
<1>7. lv \subseteq Blocks
    BY DEF BlocksOK
<1>8. BlocksOK(r, lv)
    BY <1>5, <1>6, <1>7 DEF BlocksOK
<1>. QED
    BY <1>2, <1>3, <1>8

LEMMA PageGone ==
    ASSUME NEW pgs, NEW lv, PagesOK(pgs), BlocksOK(pgs, lv), NEW x \in DOMAIN pgs,
           Useds(pgs[x].body) = {}, NEW r, r = [p \in DOMAIN pgs \ {x} |-> pgs[p]]
    PROVE  PagesOK(r) /\ DOMAIN r = DOMAIN pgs \ {x} /\ BlocksOK(r, lv)
<1>1. DOMAIN pgs \subseteq Pages
    BY DEF PagesOK
<1>2. /\ DOMAIN r = DOMAIN pgs \ {x} /\ r = [p \in DOMAIN r |-> r[p]]
      /\ \A p \in DOMAIN r : r[p] = pgs[p]
    OBVIOUS
<1>3. PagesOK(r)
    BY <1>1, <1>2 DEF PagesOK
<1>4. \A b \in lv : b.in # x
    BY DEF BlocksOK
<1>5. BlocksOK(r, lv)
    BY <1>2, <1>4 DEF BlocksOK
<1>. QED
    BY <1>2, <1>3, <1>5

LEMMA VisitKeeps ==
    ASSUME NEW s, NEW lv, HeapOK(s, lv), NEW v, v = A!Visit(s)
    PROVE  HeapOK(v, lv)
<1>. DEFINE x == s.act
            i == CHOOSE j \in DOMAIN s.obj : s.obj[j] = x
            pg == A!Sweep(s.page[x])
            left == A!Without(s.obj, i)
            after == IF i = Len(s.obj) THEN Nil ELSE s.obj[i + 1]
<1>1. PagesOK(s.page) /\ OrderOK(s.obj, x, s.page) /\ BlocksOK(s.page, lv)
    BY DEF HeapOK
<1>2. CASE x = Nil
    <2>1. v = s
        BY <1>2 DEF A!Visit
    <2>. QED
        BY <2>1
<1>3. CASE x # Nil
    <2>1. /\ x \in DOMAIN s.page /\ In(s.obj, x) /\ s.obj \in Seq(Pages) /\ Distinct(s.obj)
          /\ \A p : In(s.obj, p) <=> p \in DOMAIN s.page
        BY <1>1, <1>3 DEF OrderOK
    <2>2. /\ i \in 1..Len(s.obj) /\ s.obj[i] = x
          /\ i # Len(s.obj) => In(s.obj, s.obj[i + 1]) /\ s.obj[i + 1] # x
        BY <2>1, PageAt
    <2>3. after \in (DOMAIN s.page \ {x}) \cup {Nil}
        BY <2>1, <2>2
    <2>4. /\ left \in Seq(Pages) /\ Distinct(left)
          /\ \A p : In(left, p) <=> In(s.obj, p) /\ p # x
        BY <2>1, <2>2, PageLeaves
    <2>5. Swept(pg) /\ SameUsed(s.page[x].body, pg.body) /\ PageOK(s.page[x])
        <3>1. PageOK(s.page[x])
            BY <1>1, <2>1 DEF PagesOK
        <3>2. Swept(pg) /\ SameUsed(s.page[x].body, pg.body)
            BY <3>1, SweepIs
        <3>. QED
            BY <3>1, <3>2
    <2>6. CASE pg.size >= Heap
        <3>. DEFINE r == [p \in DOMAIN s.page \ {x} |-> s.page[p]]
        <3>1. v = [obj |-> left, act |-> after, page |-> r]
            BY <1>3, <2>6 DEF A!Visit
        <3>2. Useds(s.page[x].body) = {}
            BY <2>5, <2>6, AllRoom DEF Swept, SameUsed
        <3>3. PagesOK(r) /\ DOMAIN r = DOMAIN s.page \ {x} /\ BlocksOK(r, lv)
            BY <1>1, <2>1, <3>2, PageGone
        <3>. HIDE DEF r, left, after
        <3>4. OrderOK(left, after, r)
            BY <2>1, <2>3, <2>4, <3>3 DEF OrderOK
        <3>. QED
            BY <3>1, <3>3, <3>4 DEF HeapOK
    <2>7. CASE ~(pg.size >= Heap)
        <3>. DEFINE r == [s.page EXCEPT ![x] = pg]
                    o == IF pg.size >= s.page[s.obj[1]].size \/ i = 1 THEN <<x>> \o left ELSE s.obj
        <3>1. v = [obj |-> o, act |-> after, page |-> r]
            BY <1>3, <2>7 DEF A!Visit
        <3>2. PagesOK(r) /\ DOMAIN r = DOMAIN s.page /\ BlocksOK(r, lv)
            BY <1>1, <2>1, <2>5, PagePut DEF Swept
        <3>3. o \in Seq(Pages) /\ Distinct(o) /\ \A p : In(o, p) <=> In(s.obj, p)
            <4>1. x \in Pages /\ ~In(left, x)
                BY <1>1, <2>1, <2>4 DEF PagesOK
            <4>. HIDE DEF left
            <4>2. /\ <<x>> \o left \in Seq(Pages) /\ Distinct(<<x>> \o left)
                  /\ \A p : In(<<x>> \o left, p) <=> In(left, p) \/ p = x
                BY <2>4, <4>1, PageInFront
            <4>. QED
                BY <2>1, <2>4, <4>2
        <3>. HIDE DEF r, o, after
        <3>4. OrderOK(o, after, r)
            BY <2>1, <2>3, <3>2, <3>3 DEF OrderOK
        <3>. QED
            BY <3>1, <3>2, <3>4 DEF HeapOK
    <2>. QED
        BY <2>6, <2>7
<1>. QED
    BY <1>2, <1>3

LEMMA VisitsKeep ==
    ASSUME NEW x, NEW lv, HeapOK(x, lv), NEW v, v = A!Visits(x)
    PROVE  HeapOK(v, lv)
<1>. DEFINE S == {s \in [obj : Seq(Pages), act : Pages \cup {Nil}, page : PageMaps] : HeapOK(s, lv)}
            Def(g) == [n \in 0..Batch |-> IF n = 0 THEN x ELSE A!Visit(g[n - 1])]
            t == CHOOSE g : g = Def(g)
            G == [s \in S |-> A!Visit(s)]
<1>1. Batch \in Nat
    BY HeapAssumption
<1>2. v = t[Batch]
    BY DEF A!Visits
<1>3. \A s : s \in S <=> HeapOK(s, lv)
    <2>. SUFFICES ASSUME NEW s, HeapOK(s, lv)
                  PROVE  s \in [obj : Seq(Pages), act : Pages \cup {Nil}, page : PageMaps]
        OBVIOUS
    <2>1. /\ s = [obj |-> s.obj, act |-> s.act, page |-> s.page]
          /\ s.obj \in Seq(Pages) /\ s.act \in Pages \cup {Nil} /\ s.page \in PageMaps
        BY PageMap DEF HeapOK, OrderOK, PagesOK
    <2>. QED
        BY <2>1
<1>. HIDE DEF S
<1>4. x \in S
    BY <1>3
<1>5. G \in [S -> S]
    <2>1. \A s \in S : A!Visit(s) \in S
        BY <1>3, VisitKeeps
    <2>. QED
        BY <2>1
<1>6. PICK g \in [0..Batch -> S] : g[0] = x /\ \A i \in 1..Batch : g[i] = G[g[i - 1]]
    <2>. HIDE DEF G
    <2>1. HasPath(S, G, x, Batch)
        BY <1>1, <1>4, <1>5, Iterated
    <2>. QED
        BY <2>1 DEF HasPath
<1>7. g = Def(g)
    <2>1. \A i \in 0..Batch : i # 0 => i \in 1..Batch /\ i - 1 \in 0..Batch
        BY <1>1
    <2>2. \A i \in 0..Batch : i # 0 => g[i - 1] \in S
        BY <2>1
    <2>3. \A i \in 0..Batch : g[i] = IF i = 0 THEN x ELSE A!Visit(g[i - 1])
        BY <1>6, <2>1, <2>2
    <2>4. g = [i \in 0..Batch |-> g[i]]
        OBVIOUS
    <2>. QED
        BY <2>3, <2>4
<1>8. t = Def(t)
    <2>. HIDE DEF Def
    <2>. QED
        BY <1>7
<1>9. \A i \in 0..Batch : t[i] = IF i = 0 THEN x ELSE A!Visit(t[i - 1])
    <2>. HIDE DEF t
    <2>. QED
        BY <1>8
<1>. HIDE DEF t, Def, G
<1>10. t[0] \in S /\ \A i \in 1..Batch : t[i - 1] \in S => t[i] \in S
    <2>1. 0 \in 0..Batch /\ \A i \in 1..Batch : i \in 0..Batch /\ i # 0
        BY <1>1
    <2>2. \A i \in 1..Batch : t[i] = A!Visit(t[i - 1])
        BY <1>9, <2>1
    <2>3. t[0] = x
        BY <1>9, <2>1
    <2>. QED
        BY <1>3, <1>4, <2>2, <2>3, VisitKeeps
<1>11. \A i \in 0..Batch : t[i] \in S
    BY <1>1, <1>10, Kept
<1>12. Batch \in 0..Batch
    BY <1>1
<1>. QED
    BY <1>2, <1>3, <1>11, <1>12

-----------------------------------------------------------------------------
(* The operations.                                                         *)

LEMMA AlignedIs ==
    ASSUME NEW n \in Nat
    PROVE  A!Aligned(n) \in Nat
<1>1. Align \in Nat /\ Align # 0
    BY HeapAssumption
<1>2. PICK k \in Nat : k = n + Align - 1
    BY <1>1
<1>3. k \div Align \in Nat
    BY <1>1, <1>2
<1>4. A!Aligned(n) = (k \div Align) * Align
    BY <1>2 DEF A!Aligned
<1>. QED
    BY <1>1, <1>3, <1>4

\* A block is cut off a page there is.
LEMMA BlockCut ==
    ASSUME NEW pgs, NEW lv, PagesOK(pgs), BlocksOK(pgs, lv), NEW x \in DOMAIN pgs,
           NEW sz \in Nat, A!Fits(pgs[x], sz), NEW pg, pg = A!Cut(pgs[x], sz),
           NEW r, r = [pgs EXCEPT ![x] = pg],
           NEW c, c = [in |-> x, at |-> pgs[x].offs + 1, size |-> sz]
    PROVE  PagesOK(r) /\ DOMAIN r = DOMAIN pgs /\ BlocksOK(r, lv \cup {c})
<1>. DEFINE o == pgs[x].offs
<1>1. /\ pgs = [p \in DOMAIN pgs |-> pgs[p]] /\ DOMAIN pgs \subseteq Pages
      /\ \A p \in DOMAIN pgs : PageOK(pgs[p])
    BY DEF PagesOK
<1>2. /\ PageOK(pg) /\ o \notin Useds(pgs[x].body) /\ o \in Cells
      /\ Useds(pg.body) = Useds(pgs[x].body) \cup {o} /\ pg.body[o].size = sz
      /\ \A h \in Useds(pgs[x].body) : pg.body[h] = pgs[x].body[h]
    BY <1>1, CutIs
<1>3. /\ DOMAIN r = DOMAIN pgs /\ r = [p \in DOMAIN r |-> r[p]]
      /\ r[x] = pg /\ \A p \in DOMAIN pgs : p # x => r[p] = pgs[p]
    BY <1>1
<1>4. PagesOK(r)
    BY <1>1, <1>2, <1>3 DEF PagesOK
<1>5. c.in = x /\ c.at - 1 = o /\ c.size = sz /\ c \in Blocks
    <2>1. o \in Int /\ 0 <= o /\ o + 1 \in Nat /\ (o + 1) - 1 = o
        BY <1>2, HeapAssumption DEF Cells
    <2>2. c.in = x /\ c.at = o + 1 /\ c.size = sz
        OBVIOUS
    <2>3. x \in Pages
        BY <1>1
    <2>. HIDE DEF o
    <2>4. c = [in |-> x, at |-> o + 1, size |-> sz]
        BY DEF o
    <2>. QED
        BY <2>1, <2>2, <2>3, <2>4 DEF Blocks
<1>. HIDE DEF o
<1>6. ASSUME NEW b \in lv \cup {c}
      PROVE  /\ b.in \in DOMAIN r /\ b.at - 1 \in Useds(r[b.in].body)
             /\ r[b.in].body[b.at - 1].size = b.size
    <2>1. CASE b = c
        BY <1>2, <1>3, <1>5, <2>1
    <2>2. CASE b \in lv
        <3>1. /\ b.in \in DOMAIN pgs /\ b.at - 1 \in Useds(pgs[b.in].body)
              /\ pgs[b.in].body[b.at - 1].size = b.size
            BY <2>2 DEF BlocksOK
        <3>. QED
            BY <1>2, <1>3, <3>1
    <2>. QED
        BY <2>1, <2>2
<1>7. ASSUME NEW p \in DOMAIN r, NEW h \in Useds(r[p].body)
      PROVE  \E b \in lv \cup {c} : b.in = p /\ b.at - 1 = h
    <2>1. CASE p = x /\ h = o
        BY <1>5, <2>1
    <2>2. CASE ~(p = x /\ h = o)
        <3>1. h \in Useds(pgs[p].body) /\ p \in DOMAIN pgs
            BY <1>2, <1>3, <2>2
        <3>2. \E b \in lv : b.in = p /\ b.at - 1 = h
            BY <3>1 DEF BlocksOK
        <3>. QED
            BY <3>2
    <2>. QED
        BY <2>1, <2>2
<1>8. lv \cup {c} \subseteq Blocks
    BY <1>5 DEF BlocksOK
<1>. QED
    BY <1>3, <1>4, <1>6, <1>7, <1>8 DEF BlocksOK

\* A page more, with nothing in it.
LEMMA PageAdded ==
    ASSUME NEW pgs, NEW lv, PagesOK(pgs), BlocksOK(pgs, lv), NEW x \in Pages \ DOMAIN pgs,
           NEW pg, PageOK(pg), Useds(pg.body) = {},
           NEW r, DOMAIN r = DOMAIN pgs \cup {x}, r = [p \in DOMAIN r |-> r[p]], r[x] = pg,
           \A p \in DOMAIN pgs : r[p] = pgs[p]
    PROVE  PagesOK(r) /\ DOMAIN r = DOMAIN pgs \cup {x} /\ r[x] = pg /\ BlocksOK(r, lv)
<1>1. /\ DOMAIN r = DOMAIN pgs \cup {x} /\ r = [p \in DOMAIN r |-> r[p]]
      /\ r[x] = pg /\ \A p \in DOMAIN pgs : p # x /\ r[p] = pgs[p]
    OBVIOUS
<1>2. PagesOK(r)
    BY <1>1 DEF PagesOK
<1>3. ASSUME NEW b \in lv
      PROVE  /\ b.in \in DOMAIN r /\ b.at - 1 \in Useds(r[b.in].body)
             /\ r[b.in].body[b.at - 1].size = b.size
    BY <1>1 DEF BlocksOK
<1>4. \A p \in DOMAIN r : \A h \in Useds(r[p].body) : \E b \in lv : b.in = p /\ b.at - 1 = h
    BY <1>1 DEF BlocksOK
<1>. QED
    BY <1>1, <1>2, <1>3, <1>4 DEF BlocksOK

LEMMA MallocKeeps ==
    ASSUME HeapInv, NEW size \in Sizes, A!Malloc(size)
    PROVE  HeapInv'
<1>. DEFINE sz == A!Aligned(size)
<1>1. sz \in Nat /\ sz + 1 < Heap /\ UNCHANGED sweep
    BY AlignedIs, HeapAssumption DEF A!Malloc
<1>2. PagesOK(page) /\ OrderOK(obj, sweep, page) /\ BlocksOK(page, live)
    BY DEF HeapInv, HeapOK, HeapNow
<1>3. \/ /\ obj # <<>> /\ A!Fits(page[obj[1]], sz)
         /\ page' = [page EXCEPT ![obj[1]] = A!Cut(page[obj[1]], sz)]
         /\ live' = live \cup {[in |-> obj[1], at |-> page[obj[1]].offs + 1, size |-> sz]}
         /\ UNCHANGED obj
      \/ \E p \in Pages \ DOMAIN page :
         /\ page' = [q \in DOMAIN page \cup {p} |-> IF q = p THEN A!Cut(A!NewPage, sz) ELSE page[q]]
         /\ live' = live \cup {[in |-> p, at |-> A!NewPage.offs + 1, size |-> sz]}
         /\ obj' = <<p>> \o obj
    BY DEF A!Malloc, A!Roomy
<1>. HIDE DEF sz
<1>4. CASE /\ obj # <<>> /\ A!Fits(page[obj[1]], sz)
           /\ page' = [page EXCEPT ![obj[1]] = A!Cut(page[obj[1]], sz)]
           /\ live' = live \cup {[in |-> obj[1], at |-> page[obj[1]].offs + 1, size |-> sz]}
           /\ UNCHANGED obj
    <2>1. obj[1] \in DOMAIN page
        <3>1. Len(obj) \in Nat /\ Len(obj) # 0
            BY <1>2, <1>4, EmptySeq DEF OrderOK
        <3>2. 1 \in 1..Len(obj)
            BY <3>1
        <3>. QED
            BY <1>2, <3>2 DEF OrderOK, In
    <2>2. PagesOK(page') /\ DOMAIN page' = DOMAIN page /\ BlocksOK(page', live')
        BY <1>1, <1>2, <1>4, <2>1, BlockCut
    <2>3. OrderOK(obj', sweep', page')
        BY <1>1, <1>2, <1>4, <2>2 DEF OrderOK
    <2>. QED
        BY <2>2, <2>3 DEF HeapInv, HeapOK, HeapNow
<1>5. ASSUME NEW p \in Pages \ DOMAIN page,
             page' = [q \in DOMAIN page \cup {p} |-> IF q = p THEN A!Cut(A!NewPage, sz) ELSE page[q]],
             live' = live \cup {[in |-> p, at |-> A!NewPage.offs + 1, size |-> sz]},
             obj' = <<p>> \o obj
      PROVE  HeapInv'
    <2>1. PICK new : new = A!NewPage
        OBVIOUS
    <2>2. PICK m : m = [q \in DOMAIN page \cup {p} |-> IF q = p THEN new ELSE page[q]]
        OBVIOUS
    <2>3. PICK cut : cut = A!Cut(new, sz)
        OBVIOUS
    <2>4. PICK c : c = [in |-> p, at |-> new.offs + 1, size |-> sz]
        OBVIOUS
    <2>5. PageOK(new) /\ Useds(new.body) = {} /\ new.size = Heap /\ new.offs = 0
        BY <2>1, NewPageIs
    <2>9. p \in Pages \ DOMAIN page
        OBVIOUS
    <2>10. /\ DOMAIN m = DOMAIN page \cup {p} /\ m = [q \in DOMAIN m |-> m[q]] /\ m[p] = new
           /\ \A q \in DOMAIN page : m[q] = page[q]
        BY ONLY <2>2, <2>9
    <2>11. PagesOK(m) /\ BlocksOK(m, live)
        BY ONLY <1>2, <2>5, <2>9, <2>10, PageAdded
    <2>12. A!Fits(m[p], sz)
        BY ONLY <1>1, <2>5, <2>10, HeapAssumption DEF A!Fits
    <2>13. page' = [m EXCEPT ![p] = cut]
        <3>1. page' = [q \in DOMAIN page \cup {p} |-> IF q = p THEN cut ELSE page[q]]
            BY <1>5, <2>1, <2>3
        <3>. QED
            BY ONLY <2>2, <2>9, <2>10, <3>1
    <2>14. live' = live \cup {c}
        BY ONLY <1>5, <2>1, <2>4
    <2>6. PagesOK(page') /\ DOMAIN page' = DOMAIN m /\ BlocksOK(page', live')
        <3>1. p \in DOMAIN m /\ cut = A!Cut(m[p], sz) /\ c = [in |-> p, at |-> m[p].offs + 1, size |-> sz] /\ sz \in Nat
            BY ONLY <1>1, <2>3, <2>4, <2>10
        <3>2. PICK mm : mm = page'
            OBVIOUS
        <3>3. mm = [m EXCEPT ![p] = cut]
            BY ONLY <3>2, <2>13
        <3>4. PagesOK(mm) /\ DOMAIN mm = DOMAIN m /\ BlocksOK(mm, live \cup {c})
            BY ONLY <2>11, <2>12, <3>1, <3>3, BlockCut
        <3>. QED
            BY ONLY <3>2, <3>4, <2>14
    <2>7. OrderOK(obj', sweep', page')
        <3>1. /\ obj \in Seq(Pages) /\ Distinct(obj) /\ ~In(obj, p) /\ p \in Pages
              /\ sweep \in DOMAIN page \cup {Nil}
            BY <1>2, <1>5 DEF OrderOK
        <3>2. /\ obj' \in Seq(Pages) /\ Distinct(obj')
              /\ \A n : In(obj', n) <=> In(obj, n) \/ n = p
            BY <1>5, <3>1, PageInFront
        <3>. QED
            BY <1>1, <1>2, <2>10, <2>6, <3>1, <3>2 DEF OrderOK
    <2>. QED
        BY <2>6, <2>7 DEF HeapInv, HeapOK, HeapNow
<1>. QED
    BY <1>3, <1>4, <1>5

LEMMA ReleaseKeeps ==
    ASSUME HeapInv, NEW b \in live, A!Release(b)
    PROVE  HeapInv'
<1>. DEFINE x == b.in
            h == b.at - 1
            body == page[x].body
            c == [body EXCEPT ![h].mode = "free"]
            pg == [page[x] EXCEPT !.body = c]
<1>1. PagesOK(page) /\ OrderOK(obj, sweep, page) /\ BlocksOK(page, live)
    BY DEF HeapInv, HeapOK, HeapNow
<1>2. UNCHANGED <<obj, sweep>> /\ live' = live \ {b}
    BY DEF A!Release
<1>3. x \in DOMAIN page /\ h \in Useds(body) /\ body[h].size = b.size /\ live \subseteq Blocks
    BY <1>1 DEF BlocksOK
<1>4. PageOK(page[x]) /\ page[x] \in PageSet /\ h \in DOMAIN body /\ body[h].mode = "used"
    BY <1>1, <1>3 DEF PagesOK, PageOK, Useds
<1>5. page' = [page EXCEPT ![x] = pg]
    BY DEF A!Release, A!Freed, A!Free
<1>6. body[h] = [size |-> body[h].size, mode |-> body[h].mode] /\ body = [o \in DOMAIN body |-> body[o]]
    <2>1. body \in Bodies
        BY <1>4 DEF PageSet
    <2>2. body = [o \in DOMAIN body |-> body[o]]
        BY <2>1, BodyIs DEF BodyOK
    <2>. QED
        BY <1>4, <2>2, HeaderIs
<1>. HIDE DEF body, h, x
<1>7. /\ DOMAIN c = DOMAIN body /\ c = [o \in DOMAIN c |-> c[o]]
      /\ c[h] = [size |-> body[h].size, mode |-> "free"]
      /\ \A o \in DOMAIN body : o # h => c[o] = body[o]
    <2>1. DOMAIN c = DOMAIN body /\ c = [o \in DOMAIN c |-> c[o]] /\ \A o \in DOMAIN body : o # h => c[o] = body[o]
        BY <1>4, <1>6
    <2>2. c[h] = [body[h] EXCEPT !.mode = "free"]
        BY <1>4, <1>6
    <2>3. c[h] = [size |-> body[h].size, mode |-> "free"]
        BY <1>6, <2>2
    <2>. QED
        BY <2>1, <2>3
<1>8. pg = [size |-> page[x].size, offs |-> page[x].offs, body |-> c]
    <2>. HIDE DEF c
    <2>. QED
        BY <1>4 DEF PageSet
<1>. HIDE DEF c, pg
<1>9. pg.size = page[x].size /\ pg.offs = page[x].offs /\ pg.body = c
    BY <1>8
<1>10. BodyOK(body)
    BY <1>4, BodyIs DEF PageSet, body
<1>11. PageOK(pg)
    <2>1. \A o \in DOMAIN c : c[o] \in Headers /\ o \in Cells
        <3>1. \A o \in DOMAIN body : body[o] \in Headers /\ o \in Cells
            BY <1>10 DEF BodyOK
        <3>2. c[h] \in Headers
            BY <1>4, <1>7, <3>1 DEF Headers
        <3>. QED
            BY <1>7, <3>1, <3>2
    <2>2. c \in Bodies
        <3>1. BodyOK(c)
            BY <1>7, <2>1 DEF BodyOK
        <3>. QED
            BY <3>1, BodyIs
    <2>3. pg \in PageSet
        BY <1>4, <1>8, <2>2 DEF PageSet
    <2>4. \A o \in DOMAIN body : End(c, o) = End(body, o) /\ c[o].size = body[o].size
        <3>1. \A o \in DOMAIN body : c[o].size = body[o].size
            BY <1>7
        <3>. QED
            BY <3>1 DEF End
    <2>5. Tiled(c)
        BY <1>4, <1>7, <2>4 DEF PageOK, Tiled, body
    <2>6. Placed(pg)
        <3>1. page[x].size > 0 => /\ page[x].offs \in DOMAIN body /\ body[page[x].offs].mode = "free"
                                  /\ body[page[x].offs].size = page[x].size - 1
            BY <1>4 DEF PageOK, Placed, body
        <3>. QED
            BY <1>4, <1>7, <1>9, <3>1 DEF Placed
    <2>. QED
        BY <1>9, <2>3, <2>5, <2>6 DEF PageOK
<1>12. Useds(c) = Useds(body) \ {h} /\ \A o \in Useds(c) : c[o] = body[o]
    <2>1. c[h].mode = "free"
        BY <1>7
    <2>. QED
        BY <1>4, <1>7, <2>1 DEF Useds
<1>13. /\ DOMAIN page' = DOMAIN page /\ page' = [p \in DOMAIN page' |-> page'[p]] /\ page'[x] = pg
       /\ \A p \in DOMAIN page : p # x => page'[p] = page[p]
    <2>1. page = [p \in DOMAIN page |-> page[p]]
        BY <1>1 DEF PagesOK
    <2>. QED
        BY <1>3, <1>5, <2>1 DEF x, body, h, c, pg
<1>14. PagesOK(page')
    BY <1>1, <1>11, <1>13 DEF PagesOK
<1>15. ASSUME NEW d \in live, d # b, d.in = x PROVE d.at - 1 # h
    <2>1. d \in Blocks /\ b \in Blocks
        BY <1>3
    <2>2. d = [in |-> d.in, at |-> d.at, size |-> d.size] /\ b = [in |-> b.in, at |-> b.at, size |-> b.size]
          /\ d.at \in Nat /\ b.at \in Nat
        BY <2>1 DEF Blocks
    <2>3. body[d.at - 1].size = d.size
        BY <1>1, <1>15 DEF BlocksOK, body
    <2>4. ASSUME d.at - 1 = h PROVE FALSE
        <3>1. d.size = b.size
            BY <1>3, <2>3, <2>4
        <3>2. d.at = b.at
            BY <2>2, <2>4 DEF h
        <3>. QED
            BY <1>15, <2>2, <3>1, <3>2 DEF x
    <2>. QED
        BY <2>4
<1>16. ASSUME NEW d \in live \ {b}
       PROVE  /\ d.in \in DOMAIN page' /\ d.at - 1 \in Useds(page'[d.in].body)
              /\ page'[d.in].body[d.at - 1].size = d.size
    <2>1. /\ d.in \in DOMAIN page /\ d.at - 1 \in Useds(page[d.in].body)
          /\ page[d.in].body[d.at - 1].size = d.size
        BY <1>1 DEF BlocksOK
    <2>2. CASE d.in = x
        <3>1. d.at - 1 \in Useds(c)
            BY <1>12, <1>15, <2>1, <2>2 DEF body
        <3>. QED
            BY <1>9, <1>12, <1>13, <2>1, <2>2, <3>1 DEF body
    <2>3. CASE d.in # x
        BY <1>13, <2>1, <2>3
    <2>. QED
        BY <2>2, <2>3
<1>17. ASSUME NEW p \in DOMAIN page', NEW o \in Useds(page'[p].body)
       PROVE  \E d \in live \ {b} : d.in = p /\ d.at - 1 = o
    <2>1. p \in DOMAIN page /\ o \in Useds(page[p].body) /\ ~(p = x /\ o = h)
        BY <1>9, <1>12, <1>13 DEF body
    <2>2. PICK d \in live : d.in = p /\ d.at - 1 = o
        BY <1>1, <2>1 DEF BlocksOK
    <2>3. d # b
        BY <2>1, <2>2 DEF x, h
    <2>. QED
        BY <2>2, <2>3
<1>18. BlocksOK(page', live')
    BY <1>2, <1>3, <1>16, <1>17 DEF BlocksOK
<1>19. OrderOK(obj', sweep', page')
    BY <1>1, <1>2, <1>13 DEF OrderOK
<1>. QED
    BY <1>14, <1>18, <1>19 DEF HeapInv, HeapOK, HeapNow

LEMMA SweepingKeeps ==
    ASSUME HeapInv, A!Sweeping
    PROVE  HeapInv'
<1>. DEFINE s == [obj |-> obj, act |-> IF sweep = Nil THEN obj[1] ELSE sweep, page |-> page]
<1>1. PagesOK(page) /\ OrderOK(obj, sweep, page) /\ BlocksOK(page, live)
    BY DEF HeapInv, HeapOK, HeapNow
<1>2. /\ obj # <<>> /\ UNCHANGED live
      /\ obj' = A!Visits(s).obj /\ sweep' = A!Visits(s).act /\ page' = A!Visits(s).page
    BY DEF A!Sweeping
<1>3. obj[1] \in DOMAIN page
    <2>1. Len(obj) \in Nat /\ Len(obj) # 0
        BY <1>1, <1>2, EmptySeq DEF OrderOK
    <2>2. 1 \in 1..Len(obj)
        BY <2>1
    <2>. QED
        BY <1>1, <2>2 DEF OrderOK, In
<1>4. HeapOK(s, live)
    <2>1. s.obj = obj /\ s.page = page /\ s.act \in DOMAIN page \cup {Nil}
        BY <1>1, <1>3 DEF OrderOK
    <2>2. s = [obj |-> s.obj, act |-> s.act, page |-> s.page]
        OBVIOUS
    <2>. HIDE DEF s
    <2>3. OrderOK(s.obj, s.act, s.page)
        BY <1>1, <2>1 DEF OrderOK
    <2>. QED
        BY <1>1, <2>1, <2>2, <2>3 DEF HeapOK
<1>. HIDE DEF s
<1>5. HeapOK(A!Visits(s), live)
    BY <1>4, VisitsKeep
<1>. QED
    BY <1>2, <1>5 DEF HeapInv, HeapOK, HeapNow

LEMMA HeapNext ==
    ASSUME HeapInv, A!Next
    PROVE  HeapInv'
BY MallocKeeps, ReleaseKeeps, SweepingKeeps DEF A!Next

LEMMA HeapInit == A!Init => HeapInv
<1>. SUFFICES ASSUME A!Init PROVE HeapInv
    OBVIOUS
<1>1. obj = <<>> /\ sweep = Nil /\ page = <<>> /\ live = {}
    BY DEF A!Init
<1>2. DOMAIN page = {} /\ page = [p \in DOMAIN page |-> page[p]] /\ Len(obj) = 0
    BY <1>1
<1>3. PagesOK(page)
    BY <1>2 DEF PagesOK
<1>4. OrderOK(obj, sweep, page)
    BY <1>1, <1>2 DEF OrderOK, Distinct, In
<1>5. BlocksOK(page, live)
    BY <1>1, <1>2 DEF BlocksOK
<1>. QED
    BY <1>3, <1>4, <1>5 DEF HeapInv, HeapOK, HeapNow

LEMMA HeapRight ==
    ASSUME HeapInv
    PROVE  A!HeapExact
<1>1. PagesOK(page) /\ OrderOK(obj, sweep, page) /\ BlocksOK(page, live)
    BY DEF HeapInv, HeapOK, HeapNow
<1>2. Heap \in Nat /\ Heap # 0
    BY HeapAssumption
<1>3. ASSUME NEW b \in live
      PROVE  /\ b.in \in DOMAIN page /\ PageOK(page[b.in])
             /\ b.at - 1 \in DOMAIN page[b.in].body
             /\ page[b.in].body[b.at - 1] = [size |-> b.size, mode |-> "used"]
             /\ End(page[b.in].body, b.at - 1) = b.at + b.size
             /\ b.at - 1 >= 0 /\ b.at \in Int /\ b.size \in Int /\ b.at + b.size <= Heap
             /\ b = [in |-> b.in, at |-> b.at, size |-> b.size]
    <2>1. /\ b.in \in DOMAIN page /\ b.at - 1 \in Useds(page[b.in].body)
          /\ page[b.in].body[b.at - 1].size = b.size /\ b \in Blocks
        BY <1>1 DEF BlocksOK
    <2>2. PageOK(page[b.in])
        BY <1>1, <2>1 DEF PagesOK
    <2>3. PICK h : h = b.at - 1
        OBVIOUS
    <2>4. h \in DOMAIN page[b.in].body /\ page[b.in].body[h].mode = "used"
        BY <2>1, <2>3 DEF Useds
    <2>5. /\ h \in Int /\ 0 <= h /\ End(page[b.in].body, h) = h + page[b.in].body[h].size + 1
          /\ End(page[b.in].body, h) <= Heap
          /\ page[b.in].body[h] = [size |-> page[b.in].body[h].size, mode |-> page[b.in].body[h].mode]
        BY <2>2, <2>4, HeaderIs
    <2>6. b.at \in Int /\ b.size \in Int /\ b = [in |-> b.in, at |-> b.at, size |-> b.size]
        BY <2>1 DEF Blocks
    <2>7. h + b.size + 1 = b.at + b.size
        BY <2>3, <2>6
    <2>. QED
        BY <2>1, <2>2, <2>3, <2>4, <2>5, <2>6, <2>7
<1>4. ASSUME NEW p \in DOMAIN page
      PROVE  /\ PageOK(page[p]) /\ page[p].size \in 0..Heap /\ page[p].offs \in 0..Heap
             /\ page[p].size > 0 => /\ page[p].offs \in DOMAIN page[p].body
                                    /\ page[p].body[page[p].offs].mode = "free"
                                    /\ End(page[p].body, page[p].offs) = page[p].offs + page[p].size
                                    /\ page[p].offs + page[p].size <= Heap
    <2>1. PageOK(page[p]) /\ page[p] \in PageSet
        BY <1>1 DEF PagesOK, PageOK
    <2>2. page[p].size \in 0..Heap /\ page[p].offs \in 0..Heap
        BY <2>1 DEF PageSet
    <2>3. ASSUME page[p].size > 0
          PROVE  /\ page[p].offs \in DOMAIN page[p].body /\ page[p].body[page[p].offs].mode = "free"
                 /\ End(page[p].body, page[p].offs) = page[p].offs + page[p].size
                 /\ page[p].offs + page[p].size <= Heap
        <3>1. /\ page[p].offs \in DOMAIN page[p].body /\ page[p].body[page[p].offs].mode = "free"
              /\ page[p].body[page[p].offs].size = page[p].size - 1
            BY <2>1, <2>3 DEF PageOK, Placed
        <3>2. /\ End(page[p].body, page[p].offs) = page[p].offs + page[p].body[page[p].offs].size + 1
              /\ End(page[p].body, page[p].offs) <= Heap
            BY <2>1, <3>1, HeaderIs
        <3>3. page[p].offs + (page[p].size - 1) + 1 = page[p].offs + page[p].size
            BY <1>2, <2>2
        <3>. QED
            BY <3>1, <3>2, <3>3
    <2>. QED
        BY <2>1, <2>2, <2>3
<1>5. ASSUME NEW p \in DOMAIN page, NEW z \in A!Room(p)
      PROVE  /\ z \in Int /\ page[p].size > 0 /\ page[p].offs <= z
             /\ z < page[p].offs + page[p].size
    <2>1. z \in page[p].offs..(page[p].offs + page[p].size - 1)
        BY DEF A!Room
    <2>2. page[p].size \in Int /\ page[p].offs \in Int
        BY <1>2, <1>4
    <2>. QED
        BY <2>1, <2>2
<1>6. ASSUME NEW b \in live, NEW z \in A!Bytes(b)
      PROVE  /\ z \in Int /\ b.at - 1 <= z /\ z < b.at + b.size
             /\ 0 <= z /\ z < Heap
    <2>1. PICK at \in Int, sz \in Int : at = b.at /\ sz = b.size
        BY <1>3
    <2>2. z \in (at - 1)..(at + sz - 1)
        BY <2>1 DEF A!Bytes
    <2>3. at - 1 >= 0 /\ at + sz <= Heap
        BY <1>3, <2>1
    <2>4. z \in Int /\ at - 1 <= z /\ z < at + sz /\ 0 <= z /\ z < Heap
        BY ONLY <1>2, <2>1, <2>2, <2>3
    <2>. QED
        BY ONLY <2>1, <2>4
<1>7. A!BlocksApart
    <2>1. ASSUME NEW b \in live
          PROVE  A!Bytes(b) \subseteq 0..(Heap - 1) /\ A!Bytes(b) \cap A!Room(b.in) = {}
        <3>1. ASSUME NEW z \in A!Bytes(b) PROVE z \in 0..(Heap - 1)
            BY <1>2, <1>6
        <3>2. ASSUME NEW z \in A!Bytes(b), z \in A!Room(b.in) PROVE FALSE
            <4>. DEFINE pg == page[b.in]
                        h == b.at - 1
                        o == pg.offs
            <4>0. b.in \in DOMAIN page
                BY <1>3
            <4>1. /\ z \in Int /\ b.at - 1 <= z /\ z < b.at + b.size
                  /\ pg.size > 0 /\ o <= z /\ z < o + pg.size
                BY <1>5, <1>6, <3>2, <4>0
            <4>2. /\ h \in DOMAIN pg.body /\ pg.body[h].mode = "used" /\ PageOK(pg)
                  /\ End(pg.body, h) = b.at + b.size
                <5>1. /\ page[b.in].body[b.at - 1] = [size |-> b.size, mode |-> "used"]
                      /\ b.at - 1 \in DOMAIN page[b.in].body /\ PageOK(page[b.in])
                      /\ End(page[b.in].body, b.at - 1) = b.at + b.size
                    BY ONLY <1>3, b \in live
                <5>2. page[b.in].body[b.at - 1].mode = "used"
                    BY ONLY <5>1
                <5>. QED
                    BY ONLY <5>1, <5>2
            <4>3. /\ o \in DOMAIN pg.body /\ pg.body[o].mode = "free"
                  /\ End(pg.body, o) = o + pg.size
                BY <1>3, <1>4, <4>1
            <4>4. h # o
                BY <4>2, <4>3
            <4>. HIDE DEF h, o, pg
            <4>5. (h < o => End(pg.body, h) <= o) /\ (o < h => End(pg.body, o) <= h) /\ (h < o \/ o < h)
                BY <4>2, <4>3, <4>4, HeadersInOrder
            <4>6. h \in Int /\ o \in Int /\ End(pg.body, h) \in Int /\ End(pg.body, o) \in Int
                BY <4>2, <4>3, HeaderIs
            <4>7. h <= z /\ z < End(pg.body, h) /\ o <= z /\ z < End(pg.body, o) /\ z \in Int
                BY <4>1, <4>2, <4>3 DEF h
            <4>. QED
                BY <4>5, <4>6, <4>7
        <3>. QED
            BY <3>1, <3>2
    <2>2. ASSUME NEW b \in live, NEW d \in live, b # d, b.in = d.in,
                 NEW z \in A!Bytes(b), z \in A!Bytes(d)
          PROVE  FALSE
        <3>. DEFINE pg == page[b.in]
                    h == b.at - 1
                    k == d.at - 1
        <3>1. /\ h \in DOMAIN pg.body /\ PageOK(pg) /\ k \in DOMAIN pg.body
              /\ End(pg.body, h) = b.at + b.size /\ End(pg.body, k) = d.at + d.size
              /\ pg.body[h].size = b.size /\ pg.body[k].size = d.size
            <4>1. /\ page[b.in].body[b.at - 1] = [size |-> b.size, mode |-> "used"]
                  /\ b.at - 1 \in DOMAIN page[b.in].body /\ PageOK(page[b.in])
                  /\ End(page[b.in].body, b.at - 1) = b.at + b.size
                BY ONLY <1>3, b \in live
            <4>2. /\ page[d.in].body[d.at - 1] = [size |-> d.size, mode |-> "used"]
                  /\ d.at - 1 \in DOMAIN page[d.in].body
                  /\ End(page[d.in].body, d.at - 1) = d.at + d.size
                BY ONLY <1>3, d \in live
            <4>3. d.in = b.in
                BY <2>2
            <4>4. page[b.in].body[b.at - 1].size = b.size /\ page[d.in].body[d.at - 1].size = d.size
                BY ONLY <4>1, <4>2
            <4>. QED
                BY ONLY <4>1, <4>2, <4>3, <4>4
        <3>2. h # k
            <4>1. ASSUME h = k PROVE FALSE
                <5>1. b.size = d.size
                    BY <3>1, <4>1
                <5>2. b.at = d.at
                    <6>1. b.at \in Int /\ d.at \in Int
                        <7>1. b.at \in Int
                            BY ONLY <1>3, b \in live
                        <7>2. d.at \in Int
                            BY ONLY <1>3, d \in live
                        <7>. QED
                            BY ONLY <7>1, <7>2
                    <6>2. b.at - 1 = d.at - 1
                        BY <4>1
                    <6>. QED
                        BY ONLY <6>1, <6>2
                <5>3. b = [in |-> b.in, at |-> b.at, size |-> b.size] /\ d = [in |-> d.in, at |-> d.at, size |-> d.size]
                    BY <1>3
                <5>. QED
                    BY <2>2, <5>1, <5>2, <5>3
            <4>. QED
                BY <4>1
        <3>3. h <= z /\ z < End(pg.body, h) /\ k <= z /\ z < End(pg.body, k) /\ z \in Int
            BY <1>6, <2>2, <3>1
        <3>. HIDE DEF h, k, pg
        <3>4. (h < k => End(pg.body, h) <= k) /\ (k < h => End(pg.body, k) <= h) /\ (h < k \/ k < h)
            BY <3>1, <3>2, HeadersInOrder
        <3>5. h \in Int /\ k \in Int /\ End(pg.body, h) \in Int /\ End(pg.body, k) \in Int
            BY <3>1, HeaderIs
        <3>. QED
            BY <3>3, <3>4, <3>5
    <2>3. ASSUME NEW p \in DOMAIN page, NEW z \in A!Room(p) PROVE z \in 0..(Heap - 1)
        <3>1. /\ z \in Int /\ page[p].offs <= z /\ z < page[p].offs + page[p].size
              /\ page[p].offs + page[p].size <= Heap /\ page[p].offs \in 0..Heap /\ page[p].size \in 0..Heap
            BY <1>4, <1>5
        <3>. QED
            BY <1>2, <3>1
    <2>. QED
        BY <1>3, <2>1, <2>2, <2>3 DEF A!BlocksApart, A!Used
<1>8. A!RoomFound
    <2>1. A!ToSet(obj) = DOMAIN page /\ sweep \in DOMAIN page \cup {Nil}
        <3>1. DOMAIN obj = 1..Len(obj)
            BY <1>1, LenProperties DEF OrderOK
        <3>. QED
            BY <1>1, <3>1 DEF OrderOK, In, A!ToSet
    <2>2. ASSUME NEW p \in DOMAIN page, NEW x \in 0..(Heap - 1), NEW y \in 0..(Heap - 1), x <= y,
                 (x..y) \cap UNION {A!Bytes(b) : b \in {c \in live : c.in = p}} = {}
          PROVE  y - x + 1 <= A!Sweep(page[p]).size
        <3>. DEFINE pg == A!Sweep(page[p])
        <3>1. Swept(pg) /\ SameUsed(page[p].body, pg.body)
            BY <1>4, SweepIs
        <3>. HIDE DEF pg
        <3>2. ASSUME NEW h \in Useds(pg.body), NEW z \in x..y, h <= z, z < End(pg.body, h) PROVE FALSE
            <4>1. h \in Useds(page[p].body) /\ pg.body[h] = page[p].body[h]
                BY <3>1 DEF SameUsed
            <4>2. PICK b \in live : b.in = p /\ b.at - 1 = h
                BY <1>1, <4>1 DEF BlocksOK
            <4>3. End(pg.body, h) = End(page[p].body, h)
                BY <4>1 DEF End
            <4>4. b.at - 1 <= z /\ z < b.at + b.size /\ z \in Int /\ b.at \in Int /\ b.size \in Int
                <5>1. /\ End(page[b.in].body, b.at - 1) = b.at + b.size
                      /\ b.at \in Int /\ b.size \in Int
                    BY ONLY <1>3, b \in live
                <5>2. z \in Int
                    BY <3>2
                <5>3. End(page[p].body, h) = b.at + b.size
                    BY ONLY <4>2, <5>1
                <5>. QED
                    BY ONLY <3>2, <4>2, <4>3, <5>1, <5>2, <5>3
            <4>5. z \in A!Bytes(b)
                BY <4>4 DEF A!Bytes
            <4>. QED
                BY <2>2, <4>2, <4>5
        <3>3. x \in Cells /\ y \in Cells
            BY DEF Cells
        <3>. QED
            BY <2>2, <3>1, <3>2, <3>3, LargestFound DEF pg
    <2>. QED
        BY <2>1, <2>2 DEF A!RoomFound
<1>. QED
    BY <1>7, <1>8 DEF A!HeapExact

-----------------------------------------------------------------------------
(* The files and the calls that run on them.                               *)

Units == (Jobs \cup {Nil}) \X Nat

\* A call is a record of these fields.
Fielded(r) ==
    r = [op |-> r.op, state |-> r.state, src |-> r.src, des |-> r.des, pos |-> r.pos,
         at |-> r.at, acc |-> r.acc, data |-> r.data, done |-> r.done, held |-> r.held,
         base |-> r.base, pieces |-> r.pieces, failed |-> r.failed, calm |-> r.calm,
         rounds |-> r.rounds]

JobTyped(r) ==
    /\ Fielded(r)
    /\ r.op \in {"none", "read", "write", "append", "copy", "list", "iterate"}
    /\ r.state \in {"idle", "running", "resolved", "rejected"}
    /\ r.src \in Inodes \cup {Nil} /\ r.des \in Inodes \cup {Nil}
    /\ r.pos \in Nat /\ r.at \in Nat /\ r.data \in Nat /\ r.done \in Nat /\ r.rounds \in Nat
    /\ r.acc \in Seq(Units) /\ r.base \in Seq(Units)
    /\ r.op = "copy" /\ r.held # Nil => r.held \in Units

\* What runs on an inode has one.
Sited(r) ==
    /\ r.op \in {"read", "copy"} => r.src \in Inodes
    /\ r.op \in {"write", "append", "copy"} => r.des \in Inodes

\* Nobody else has changed its inodes.
Undisturbed(r) == r.calm /\ r.state \in {"running", "resolved"}

Whole(r) == r.state = "resolved" /\ ~r.failed

ReadAt(r, tx) ==
    /\ r.acc = SubSeq(tx[r.src], 1, r.pos) /\ r.pos <= Len(tx[r.src])
    /\ Whole(r) => r.pos = Len(tx[r.src])

\* What was written, and how that was counted.
Written(j, r) == r.base \o F!Repeated(F!Message(j), r.rounds * Length + r.data)

Tallied(r) ==
    /\ r.rounds = 0 => r.done = 0
    /\ Whole(r) => r.done >= Length
    /\ ~r.pieces => r.rounds <= 1 /\ r.done = r.rounds * Length

WriteAt(j, r, tx) ==
    /\ tx[r.des] = Written(j, r) /\ Tallied(r)
    /\ r.op = "write" => r.at = Len(tx[r.des])

CopyAt(r, tx) ==
    /\ r.src # r.des /\ r.at <= Len(tx[r.src])
    /\ tx[r.des] = SubSeq(tx[r.src], 1, r.at)
    /\ IF r.held = Nil THEN r.pos = r.at
       ELSE r.pos = r.at + 1 /\ r.pos <= Len(tx[r.src]) /\ r.held = tx[r.src][r.pos]
    /\ Whole(r) => r.at = Len(tx[r.src])

JobSound(j, r, tx) ==
    Undisturbed(r) =>
        /\ r.op = "read" => ReadAt(r, tx)
        /\ r.op \in {"write", "append"} => WriteAt(j, r, tx)
        /\ r.op = "copy" => CopyAt(r, tx)

JobOK(j, r, tx) == JobTyped(r) /\ Sited(r) /\ JobSound(j, r, tx)

FilesTyped ==
    /\ folder \in [Names -> Inodes \cup {Nil}]
    /\ text \in [Inodes -> Seq(Units)]

JobsOK ==
    /\ job = [j \in Jobs |-> job[j]]
    /\ \A j \in Jobs : JobOK(j, job[j], text)

FilesInv == FilesTyped /\ JobsOK

\* A call with these fields.
Rec(o, st, s, d, p, a, ac, da, dn, h, b, pc, fl, cm, rd) ==
    [op |-> o, state |-> st, src |-> s, des |-> d, pos |-> p, at |-> a, acc |-> ac,
     data |-> da, done |-> dn, held |-> h, base |-> b, pieces |-> pc, failed |-> fl,
     calm |-> cm, rounds |-> rd]

Is(q, o, st, s, d, p, a, ac, da, dn, h, b, pc, fl, cm, rd) ==
    /\ Fielded(q)
    /\ q.op = o /\ q.state = st /\ q.src = s /\ q.des = d /\ q.pos = p /\ q.at = a
    /\ q.acc = ac /\ q.data = da /\ q.done = dn /\ q.held = h /\ q.base = b
    /\ q.pieces = pc /\ q.failed = fl /\ q.calm = cm /\ q.rounds = rd

LEMMA RecIs ==
    ASSUME NEW o, NEW st, NEW s, NEW d, NEW p, NEW a, NEW ac, NEW da, NEW dn, NEW h, NEW b,
           NEW pc, NEW fl, NEW cm, NEW rd, NEW q,
           q = Rec(o, st, s, d, p, a, ac, da, dn, h, b, pc, fl, cm, rd)
    PROVE  Is(q, o, st, s, d, p, a, ac, da, dn, h, b, pc, fl, cm, rd)
    BY DEF Rec, Is, Fielded

LEMMA IsRec ==
    ASSUME NEW q, Fielded(q)
    PROVE  q = Rec(q.op, q.state, q.src, q.des, q.pos, q.at, q.acc, q.data, q.done, q.held,
                   q.base, q.pieces, q.failed, q.calm, q.rounds)
    BY DEF Rec, Fielded

\* A call that is over, or has just begun.
LEMMA EndedIs ==
    ASSUME NEW st, NEW q, q = F!Ended(st)
    PROVE  Is(q, "none", st, Nil, Nil, 0, 0, <<>>, 0, 0, Nil, <<>>, FALSE, FALSE, TRUE, 0)
<1>1. q = Rec("none", st, Nil, Nil, 0, 0, <<>>, 0, 0, Nil, <<>>, FALSE, FALSE, TRUE, 0)
    BY DEF F!Ended, F!Idle, Rec
<1>. QED
    BY <1>1, RecIs

LEMMA BeganIs ==
    ASSUME NEW o, NEW q, q = F!Began(o)
    PROVE  Is(q, o, "running", Nil, Nil, 0, 0, <<>>, 0, 0, Nil, <<>>, FALSE, FALSE, TRUE, 0)
<1>1. q = Rec(o, "running", Nil, Nil, 0, 0, <<>>, 0, 0, Nil, <<>>, FALSE, FALSE, TRUE, 0)
    BY DEF F!Began, F!Idle, Rec
<1>. QED
    BY <1>1, RecIs

\* One of which nothing is asked.
LEMMA OverOK ==
    ASSUME NEW k, NEW tx, NEW q, NEW st \in {"idle", "running", "resolved", "rejected"},
           Is(q, "none", st, Nil, Nil, 0, 0, <<>>, 0, 0, Nil, <<>>, FALSE, FALSE, TRUE, 0)
    PROVE  JobOK(k, q, tx)
<1>. USE DEF Is
<1>1. JobTyped(q)
    BY EmptySeq DEF JobTyped
<1>. QED
    BY <1>1 DEF JobOK, Sited, JobSound

\* What changed nothing that a call works on leaves it as it should be, and
\* if it did it is asked nothing.
LEMMA NoticedKeeps ==
    ASSUME NEW k, NEW r, NEW tx, NEW ty, NEW J, J \subseteq Inodes, JobOK(k, r, tx),
           \A i \in Inodes \ J : ty[i] = tx[i], NEW q, q = F!Noticed(r, J)
    PROVE  JobOK(k, q, ty)
<1>1. JobTyped(r) /\ Sited(r) /\ JobSound(k, r, tx)
    BY DEF JobOK
<1>2. CASE {r.src, r.des} \cap J = {}
    <2>1. q = r
        BY <1>2 DEF F!Noticed
    <2>2. /\ r.op \in {"read", "copy"} => ty[r.src] = tx[r.src]
          /\ r.op \in {"write", "append", "copy"} => ty[r.des] = tx[r.des]
        BY <1>1, <1>2 DEF Sited
    <2>3. r.op = "read" /\ ReadAt(r, tx) => ReadAt(r, ty)
        BY <2>2 DEF ReadAt
    <2>4. r.op \in {"write", "append"} /\ WriteAt(k, r, tx) => WriteAt(k, r, ty)
        BY <2>2 DEF WriteAt
    <2>5. r.op = "copy" /\ CopyAt(r, tx) => CopyAt(r, ty)
        BY <2>2 DEF CopyAt
    <2>6. JobSound(k, r, ty)
        BY <1>1, <2>3, <2>4, <2>5 DEF JobSound
    <2>. QED
        BY <1>1, <2>1, <2>6 DEF JobOK
<1>3. CASE {r.src, r.des} \cap J # {} /\ r.state = "running"
    <2>1. q = [r EXCEPT !.calm = FALSE]
        BY <1>3 DEF F!Noticed
    <2>2. Is(q, r.op, r.state, r.src, r.des, r.pos, r.at, r.acc, r.data, r.done, r.held,
                r.base, r.pieces, r.failed, FALSE, r.rounds)
        <3>1. r = Rec(r.op, r.state, r.src, r.des, r.pos, r.at, r.acc, r.data, r.done, r.held,
                      r.base, r.pieces, r.failed, r.calm, r.rounds)
            BY <1>1, IsRec DEF JobTyped
        <3>2. q = Rec(r.op, r.state, r.src, r.des, r.pos, r.at, r.acc, r.data, r.done, r.held,
                      r.base, r.pieces, r.failed, FALSE, r.rounds)
            BY <2>1, <3>1 DEF Rec
        <3>. QED
            BY <3>2, RecIs
    <2>3. JobTyped(q) /\ Sited(q)
        BY <1>1, <2>2 DEF Is, JobTyped, Sited
    <2>4. q.calm = FALSE
        BY <2>2 DEF Is
    <2>. QED
        BY <2>3, <2>4 DEF JobOK, JobSound, Undisturbed
<1>4. CASE {r.src, r.des} \cap J # {} /\ r.state # "running"
    <2>1. q = F!Ended(r.state)
        BY <1>4 DEF F!Noticed
    <2>. QED
        BY <1>1, <2>1, EndedIs, OverOK DEF JobTyped
<1>. QED
    BY <1>2, <1>3, <1>4

\* So it is enough to know the call whose step it is.
LEMMA BecomesKeeps ==
    ASSUME FilesInv, NEW j, NEW r, NEW J, J \subseteq Inodes, F!Becomes(j, r, J),
           \A i \in Inodes \ J : text'[i] = text[i],
           j \in Jobs => JobOK(j, r, text')
    PROVE  JobsOK'
<1>1. job' = [k \in Jobs |-> IF k = j THEN r ELSE F!Noticed(job[k], J)]
    BY DEF F!Becomes
<1>2. ASSUME NEW k \in Jobs PROVE JobOK(k, job'[k], text')
    <2>1. CASE k = j
        BY <1>1, <2>1
    <2>2. CASE k # j
        <3>1. job'[k] = F!Noticed(job[k], J) /\ JobOK(k, job[k], text)
            BY <1>1, <2>2 DEF FilesInv, JobsOK
        <3>. QED
            BY <3>1, NoticedKeeps
    <2>. QED
        BY <2>1, <2>2
<1>. QED
    BY <1>1, <1>2 DEF JobsOK

-----------------------------------------------------------------------------
(* Text: what is written again, and what is put behind it.                 *)

LEMMA Products ==
    ASSUME NEW L \in Nat, L # 0, NEW t \in Int, NEW e \in Int,
           L * t = e, -L < e, e < L
    PROVE  t = 0
<1>1. CASE t >= 1
    <2>1. L * t >= L
        BY <1>1, Z3
    <2>. QED
        BY <2>1
<1>2. CASE t <= -1
    <2>1. L * t <= -L
        BY <1>2, Z3
    <2>. QED
        BY <2>1
<1>. QED
    BY <1>1, <1>2

\* Behind n messages the units of a message are counted from one again.
LEMMA Again ==
    ASSUME NEW n \in Nat, NEW d \in Nat, d < Length
    PROVE  (n * Length + d) % Length = d
<1>. DEFINE x == n * Length + d
            q == x \div Length
            m == x % Length
<1>1. Length \in Nat /\ Length # 0
    BY FilesAssumption
<1>2. n * Length \in Nat /\ x \in Nat
    BY <1>1
<1>. HIDE DEF x
<1>3. q \in Int /\ m \in Int /\ 0 <= m /\ m < Length /\ x = Length * q + m
    BY <1>1, <1>2
<1>. HIDE DEF q, m
<1>4. Length * (q - n) = d - m
    <2>1. Length * (q - n) = Length * q - n * Length
        BY <1>1, <1>3, Z3
    <2>. QED
        BY <1>1, <1>2, <1>3, <2>1 DEF x
<1>5. q - n = 0
    <2>1. q - n \in Int /\ d - m \in Int /\ -Length < d - m /\ d - m < Length
        BY <1>1, <1>3
    <2>. QED
        BY ONLY <1>1, <1>4, <2>1, Products
<1>6. Length * (q - n) = 0
    BY <1>1, <1>5
<1>. QED
    BY <1>3, <1>4, <1>6 DEF x, m

LEMMA MessageIs ==
    ASSUME NEW j \in Jobs
    PROVE  /\ F!Message(j) \in Seq(Units) /\ Len(F!Message(j)) = Length
           /\ \A k \in 1..Length : F!Message(j)[k] = <<j, k>>
<1>1. Length \in Nat
    BY FilesAssumption
<1>2. \A k \in 1..Length : <<j, k>> \in Units
    BY <1>1 DEF Units
<1>3. F!Message(j) = [k \in 1..Length |-> <<j, k>>]
    BY DEF F!Message
<1>4. F!Message(j) \in Seq(Units)
    BY <1>1, <1>2, <1>3
<1>. QED
    BY <1>1, <1>3, <1>4

\* The k-th unit of messages of j, one behind the other.
UnitAt(j, k) == <<j, 1 + ((k - 1) % Length)>>

LEMMA RepeatedIs ==
    ASSUME NEW j \in Jobs, NEW n \in Nat, NEW s, s = F!Repeated(F!Message(j), n)
    PROVE  /\ s \in Seq(Units) /\ Len(s) = n
           /\ \A k \in 1..n : s[k] = UnitAt(j, k)
<1>1. Length \in Nat /\ Length # 0
    BY FilesAssumption
<1>2. s = [k \in 1..n |-> F!Message(j)[1 + ((k - 1) % Length)]]
    BY DEF F!Repeated
<1>3. ASSUME NEW k \in 1..n
      PROVE  s[k] = UnitAt(j, k) /\ s[k] \in Units
    <2>1. PICK m : m = (k - 1) % Length
        OBVIOUS
    <2>2. m \in Int /\ 0 <= m /\ m < Length
        BY <1>1, <2>1
    <2>3. 1 + m \in 1..Length
        BY <1>1, <2>2
    <2>4. s[k] = F!Message(j)[1 + m]
        BY <1>2, <2>1
    <2>5. F!Message(j)[1 + m] = <<j, 1 + m>>
        BY <2>3, MessageIs
    <2>6. <<j, 1 + m>> \in Units
        BY <2>2 DEF Units
    <2>. QED
        BY <2>1, <2>4, <2>5, <2>6 DEF UnitAt
<1>4. s \in [1..n -> Units] /\ DOMAIN s = 1..n
    BY <1>2, <1>3
<1>5. s \in Seq(Units)
    BY <1>4
<1>. QED
    BY <1>3, <1>4, <1>5, LenProperties

\* The units of n messages and d more.
Count(n, d) == n * Length + d

\* v is what comes of message j between its units d and e, behind n messages:
\* s before it, t with it.
Goes(j, n, d, e, v, s, t) ==
    /\ j \in Jobs /\ n \in Nat /\ d \in Nat /\ e \in Nat /\ d <= e /\ e <= Length
    /\ v = SubSeq(F!Message(j), d + 1, e)
    /\ s = F!Repeated(F!Message(j), Count(n, d))
    /\ t = F!Repeated(F!Message(j), Count(n, e))

\* A round goes on where it was.
LEMMA RepeatedMore ==
    ASSUME NEW j, NEW n, NEW d, NEW e, NEW v, NEW s, NEW t, Goes(j, n, d, e, v, s, t)
    PROVE  t = s \o v
<1>. SUFFICES
        ASSUME j \in Jobs, n \in Nat, d \in Nat, e \in Nat, d <= e, e <= Length,
               v = SubSeq(F!Message(j), d + 1, e)
        PROVE  F!Repeated(F!Message(j), Count(n, e)) = F!Repeated(F!Message(j), Count(n, d)) \o v
    BY DEF Goes
<1>1. Length \in Nat /\ Length # 0
    BY FilesAssumption
<1>11. PICK m \in Nat : e = d + m
    OBVIOUS
<1>2. PICK x \in Nat : x = n * Length
    BY <1>1
<1>0. PICK a \in Nat, c \in Nat : a = x + d /\ c = x + (d + m) /\ c = a + m
    BY <1>2
<1>3. PICK u : u = F!Repeated(F!Message(j), a)
    OBVIOUS
<1>4. v = SubSeq(F!Message(j), d + 1, d + m) /\ d + m <= Length
    BY <1>11
<1>5. PICK w : w = F!Repeated(F!Message(j), c)
    OBVIOUS
<1>6. /\ u \in Seq(Units) /\ Len(u) = a
      /\ \A k \in 1..a : u[k] = UnitAt(j, k)
    BY ONLY <1>3, j \in Jobs, a \in Nat, RepeatedIs
<1>7. /\ w \in Seq(Units) /\ Len(w) = c
      /\ \A k \in 1..c : w[k] = UnitAt(j, k)
    BY ONLY <1>5, j \in Jobs, c \in Nat, RepeatedIs
<1>8. v \in Seq(Units) /\ Len(v) = m /\ \A i \in 1..m : v[i] = <<j, d + i>>
    <2>1. \A i \in (d + 1)..(d + m) : i \in 1..Length
        BY <1>1, <1>4
    <2>2. \A i \in (d + 1)..(d + m) : F!Message(j)[i] \in Units /\ F!Message(j)[i] = <<j, i>>
        BY <2>1, MessageIs, ElementOfSeq
    <2>3. d + 1 \in Int /\ d + m \in Int
        OBVIOUS
    <2>4. /\ v \in Seq(Units) /\ Len(v) = IF d + 1 <= d + m THEN (d + m) - (d + 1) + 1 ELSE 0
          /\ \A i \in 1..((d + m) - (d + 1) + 1) : v[i] = F!Message(j)[(d + 1) + i - 1]
        BY ONLY <1>4, <2>2, <2>3, SubSeqProperties
    <2>5. (d + m) - (d + 1) + 1 = m /\ (d + 1 <= d + m <=> m >= 1)
        OBVIOUS
    <2>6. Len(v) = m
        BY <2>4, <2>5
    <2>7. ASSUME NEW i \in 1..m PROVE v[i] = <<j, d + i>>
        <3>1. (d + 1) + i - 1 = d + i /\ d + i \in (d + 1)..(d + m)
            OBVIOUS
        <3>2. v[i] = F!Message(j)[d + i]
            BY <2>4, <2>5, <3>1
        <3>. QED
            BY <2>2, <3>1, <3>2
    <2>. QED
        BY <2>4, <2>6, <2>7
<1>9. /\ u \o v \in Seq(Units) /\ Len(u \o v) = c
      /\ \A k \in 1..c : (u \o v)[k] = IF k <= a THEN u[k] ELSE v[k - a]
    <2>1. /\ u \o v \in Seq(Units) /\ Len(u \o v) = Len(u) + Len(v)
          /\ \A k \in 1..(Len(u) + Len(v)) : (u \o v)[k] = IF k <= Len(u) THEN u[k] ELSE v[k - Len(u)]
        BY ONLY <1>6, <1>8, ConcatProperties
    <2>2. Len(u) = a /\ Len(v) = m /\ Len(u) + Len(v) = c
        BY ONLY <1>0, <1>6, <1>8
    <2>. QED
        BY ONLY <2>1, <2>2
<1>10. ASSUME NEW k \in 1..c PROVE w[k] = (u \o v)[k]
    <2>1. CASE k <= a
        <3>1. k \in 1..a
            BY <1>0, <2>1
        <3>. QED
            BY ONLY <1>6, <1>7, <1>9, <2>1, <3>1, k \in 1..c
    <2>2. CASE ~(k <= a)
        <3>1. PICK i \in 1..m : i = k - a
            BY <1>0, <2>2
        <3>2. k - 1 = n * Length + (d + i - 1) /\ d + i - 1 \in Nat /\ d + i - 1 < Length
            BY <1>0, <1>1, <1>2, <1>4, <3>1
        <3>3. (k - 1) % Length = d + i - 1
            BY <3>2, Again
        <3>4. w[k] = <<j, 1 + (d + i - 1)>>
            BY <1>0, <1>7, <3>3 DEF UnitAt
        <3>5. (u \o v)[k] = v[i]
            BY ONLY <1>9, <2>2, <3>1, k \in 1..c
        <3>6. 1 + (d + i - 1) = d + i
            OBVIOUS
        <3>. QED
            BY <1>8, <3>4, <3>5, <3>6
    <2>. QED
        BY <2>1, <2>2
<1>12. w = u \o v
    BY ONLY <1>7, <1>9, <1>10, SeqEqual
<1>. QED
    BY <1>0, <1>2, <1>3, <1>5, <1>11, <1>12 DEF Count

LEMMA TextPut ==
    ASSUME NEW t \in Seq(Units), NEW s \in Seq(Units), NEW at \in Nat, NEW p, p = F!Put(t, at, s)
    PROVE  p \in Seq(Units) /\ (at = Len(t) => p = t \o s)
<1>. DEFINE n == F!Max({Len(t), at + Len(s)})
<1>0. PICK a \in Nat, b \in Nat : a = Len(t) /\ b = Len(s)
    BY LenProperties
<1>1. n \in {a, at + b} /\ n >= a /\ n >= at + b
    <2>1. \E x \in {a, at + b} : \A y \in {a, at + b} : x >= y
        OBVIOUS
    <2>. QED
        BY <1>0, <2>1 DEF F!Max
<1>2. n \in Nat
    BY <1>1
<1>3. p = [k \in 1..n |-> IF k \in at + 1..at + b THEN s[k - at]
                          ELSE IF k <= a THEN t[k] ELSE F!Hole]
    BY <1>0 DEF F!Put
<1>. HIDE DEF n
<1>4. ASSUME NEW k \in 1..n PROVE p[k] \in Units
    <2>1. CASE k \in at + 1..at + b
        <3>1. k - at \in 1..Len(s)
            BY <1>0, <2>1
        <3>2. p[k] = s[k - at]
            BY <1>3, <2>1
        <3>. QED
            BY <3>1, <3>2, ElementOfSeq
    <2>2. CASE k \notin at + 1..at + b /\ k <= a
        <3>1. k \in 1..Len(t) /\ p[k] = t[k]
            BY <1>0, <1>2, <1>3, <2>2
        <3>. QED
            BY <3>1, ElementOfSeq
    <2>3. CASE k \notin at + 1..at + b /\ ~(k <= a)
        BY <1>3, <2>3 DEF F!Hole, Units
    <2>. QED
        BY <2>1, <2>2, <2>3
<1>5. p \in Seq(Units) /\ Len(p) = n /\ DOMAIN p = 1..n
    <2>1. p \in [1..n -> Units]
        BY <1>3, <1>4
    <2>2. p \in Seq(Units)
        BY <1>2, <2>1
    <2>3. DOMAIN p = 1..n
        BY <2>1
    <2>. QED
        BY <1>2, <2>2, <2>3, LenProperties
<1>6. ASSUME at = Len(t) PROVE p = t \o s
    <2>1. /\ t \o s \in Seq(Units) /\ Len(t \o s) = a + b
          /\ \A i \in 1..(a + b) : (t \o s)[i] = IF i <= a THEN t[i] ELSE s[i - a]
        BY <1>0, ConcatProperties
    <2>2. n = a + b /\ at = a
        BY <1>0, <1>1, <1>6
    <2>3. ASSUME NEW k \in 1..n PROVE p[k] = (t \o s)[k]
        <3>1. k \in at + 1..at + b <=> ~(k <= a)
            BY <1>2, <2>2
        <3>. QED
            BY <1>3, <2>1, <2>2, <3>1
    <2>. QED
        BY <1>5, <2>1, <2>2, <2>3, SeqEqual
<1>. QED
    BY <1>5, <1>6

\* What is read grows by the unit that is next.
LEMMA SubSeqMore ==
    ASSUME NEW t \in Seq(Units), NEW n \in Nat, n + 1 \in 1..Len(t), NEW u, u = t[n + 1]
    PROVE  /\ SubSeq(t, 1, n) \in Seq(Units) /\ Len(SubSeq(t, 1, n)) = n
           /\ u \in Units
           /\ SubSeq(t, 1, n + 1) = Append(SubSeq(t, 1, n), u)
<1>0. u \in Units
    BY ElementOfSeq
<1>1. \A i \in 1..(n + 1) : i \in 1..Len(t) /\ t[i] \in Units
    BY ElementOfSeq, LenProperties
<1>2. /\ SubSeq(t, 1, n + 1) \in Seq(Units) /\ Len(SubSeq(t, 1, n + 1)) = n + 1
      /\ \A i \in 1..(n + 1) : SubSeq(t, 1, n + 1)[i] = t[i]
    BY <1>1, SubSeqProperties
<1>3. /\ SubSeq(t, 1, n) \in Seq(Units) /\ Len(SubSeq(t, 1, n)) = n
      /\ \A i \in 1..n : SubSeq(t, 1, n)[i] = t[i]
    BY <1>1, SubSeqProperties
<1>4. PICK a : a = SubSeq(t, 1, n)
    OBVIOUS
<1>5. /\ Append(a, u) \in Seq(Units) /\ Len(Append(a, u)) = n + 1
      /\ \A i \in 1..n : Append(a, u)[i] = t[i]
      /\ Append(a, u)[n + 1] = t[n + 1]
    BY <1>0, <1>3, <1>4, AppendProperties
<1>6. ASSUME NEW i \in 1..(n + 1) PROVE SubSeq(t, 1, n + 1)[i] = Append(a, u)[i]
    BY <1>2, <1>5
<1>7. SubSeq(t, 1, n + 1) = Append(a, u)
    BY <1>2, <1>5, <1>6, SeqEqual
<1>. QED
    BY <1>0, <1>3, <1>4, <1>7

-----------------------------------------------------------------------------
(* The steps of the files.                                                 *)

LEMMA JobNow ==
    ASSUME FilesInv, NEW j \in Jobs
    PROVE  /\ JobTyped(job[j]) /\ Fielded(job[j]) /\ Sited(job[j]) /\ JobSound(j, job[j], text)
           /\ \A i \in Inodes : text[i] \in Seq(Units) /\ Len(text[i]) \in Nat
           /\ \A p \in Names : F!Exists(p) => folder[p] \in Inodes
<1>1. JobOK(j, job[j], text) /\ FilesTyped
    BY DEF FilesInv, JobsOK
<1>2. \A i \in Inodes : text[i] \in Seq(Units) /\ Len(text[i]) \in Nat
    BY <1>1, LenProperties DEF FilesTyped
<1>3. \A p \in Names : F!Exists(p) => folder[p] \in Inodes
    BY <1>1 DEF FilesTyped, F!Exists
<1>. QED
    BY <1>1, <1>2, <1>3 DEF JobOK, JobTyped

\* Nothing of a message yet.
LEMMA NothingYet ==
    ASSUME NEW j \in Jobs, NEW b \in Seq(Units)
    PROVE  b \o F!Repeated(F!Message(j), 0 * Length + 0) = b
<1>1. 0 * Length + 0 = 0
    BY FilesAssumption
<1>2. PICK s : s = F!Repeated(F!Message(j), 0)
    OBVIOUS
<1>3. s \in Seq(Units) /\ Len(s) = 0
    BY <1>2, RepeatedIs
<1>4. s = <<>>
    BY <1>3, EmptySeq
<1>. QED
    BY <1>1, <1>2, <1>4, ConcatEmptySeq

\* A call that begins.
LEMMA BegunOK ==
    ASSUME NEW j \in Jobs, NEW o, NEW s \in Inodes \cup {Nil}, NEW d \in Inodes \cup {Nil},
           NEW b \in Seq(Units), NEW cm, NEW q, NEW tx,
           Is(q, o, "running", s, d, 0, 0, <<>>, 0, 0, Nil, b, FALSE, FALSE, cm, 0),
           \/ o \in {"list", "iterate"}
           \/ o = "read" /\ s \in Inodes /\ tx[s] \in Seq(Units)
           \/ o = "write" /\ d \in Inodes /\ tx[d] = <<>> /\ b = <<>>
           \/ o = "append" /\ d \in Inodes /\ tx[d] = b
           \/ /\ o = "copy" /\ s \in Inodes /\ d \in Inodes /\ (cm => s # d)
              /\ tx[d] = <<>> /\ tx[s] \in Seq(Units)
    PROVE  JobOK(j, q, tx)
<1>1. JobTyped(q) /\ Sited(q)
    BY EmptySeq DEF Is, JobTyped, Sited
<1>2. CASE o \in {"list", "iterate"}
    BY <1>1, <1>2 DEF Is, JobOK, JobSound
<1>3. CASE o = "read" /\ s \in Inodes /\ tx[s] \in Seq(Units)
    <2>1. SubSeq(tx[s], 1, 0) = <<>>
        BY SubSeqEmpty
    <2>2. 0 <= Len(tx[s])
        BY <1>3, LenProperties
    <2>3. ReadAt(q, tx)
        BY <2>1, <2>2 DEF ReadAt, Whole, Is
    <2>. QED
        BY <1>1, <1>3, <2>3 DEF Is, JobOK, JobSound
<1>4. CASE (o = "write" /\ d \in Inodes /\ tx[d] = <<>> /\ b = <<>>) \/ (o = "append" /\ d \in Inodes /\ tx[d] = b)
    <2>1. b = b \o F!Repeated(F!Message(j), 0 * Length + 0)
        BY NothingYet
    <2>2. Written(j, q) = tx[d]
        BY <1>4, <2>1 DEF Written, Is
    <2>3. Tallied(q)
        BY FilesAssumption DEF Tallied, Whole, Is
    <2>4. o = "write" => 0 = Len(tx[d])
        BY <1>4
    <2>5. WriteAt(j, q, tx)
        BY <2>2, <2>3, <2>4 DEF WriteAt, Is
    <2>. QED
        BY <1>1, <1>4, <2>5 DEF Is, JobOK, JobSound
<1>5. CASE /\ o = "copy" /\ s \in Inodes /\ d \in Inodes /\ (cm => s # d)
           /\ tx[d] = <<>> /\ tx[s] \in Seq(Units)
    <2>1. SubSeq(tx[s], 1, 0) = <<>>
        BY SubSeqEmpty
    <2>2. 0 <= Len(tx[s])
        BY <1>5, LenProperties
    <2>3. cm => CopyAt(q, tx)
        BY <1>5, <2>1, <2>2 DEF CopyAt, Whole, Is
    <2>. QED
        BY <1>1, <1>5, <2>3 DEF Is, JobOK, JobSound, Undisturbed
<1>. QED
    BY <1>2, <1>3, <1>4, <1>5

\* A call that begins without a change of text, or is refused.
LEMMA StartKeeps ==
    ASSUME FilesInv, UNCHANGED <<folder, text>>, NEW j \in Jobs, NEW q, F!Becomes(j, q, {}),
           JobOK(j, q, text)
    PROVE  FilesInv'
<1>1. JobsOK'
    BY BecomesKeeps
<1>. QED
    BY <1>1 DEF FilesInv, FilesTyped

LEMMA RefusedOK ==
    ASSUME NEW j, NEW tx, NEW q, q = F!Refused
    PROVE  JobOK(j, q, tx)
    BY EndedIs, OverOK DEF F!Refused

LEMMA ReadKeeps ==
    ASSUME FilesInv, NEW j \in Jobs, NEW p \in Names, F!Read(j, p)
    PROVE  FilesInv'
<1>1. /\ UNCHANGED <<folder, text>>
      /\ F!Becomes(j, IF F!Exists(p) THEN [F!Began("read") EXCEPT !.src = folder[p]] ELSE F!Refused, {})
    BY DEF F!Read
<1>2. CASE F!Exists(p)
    <2>1. PICK q : q = [F!Began("read") EXCEPT !.src = folder[p]]
        OBVIOUS
    <2>2. q = Rec("read", "running", folder[p], Nil, 0, 0, <<>>, 0, 0, Nil, <<>>, FALSE, FALSE, TRUE, 0)
        BY <2>1 DEF F!Began, F!Idle, Rec
    <2>3. folder[p] \in Inodes /\ text[folder[p]] \in Seq(Units)
        BY <1>2, JobNow
    <2>4. Is(q, "read", "running", folder[p], Nil, 0, 0, <<>>, 0, 0, Nil, <<>>, FALSE, FALSE, TRUE, 0)
        BY <2>2, RecIs
    <2>5. JobOK(j, q, text)
        BY <2>3, <2>4, BegunOK, EmptySeq
    <2>. QED
        BY <1>1, <1>2, <2>1, <2>5, StartKeeps
<1>3. CASE ~F!Exists(p)
    BY <1>1, <1>3, RefusedOK, StartKeeps
<1>. QED
    BY <1>2, <1>3

LEMMA AppendToKeeps ==
    ASSUME FilesInv, NEW j \in Jobs, NEW p \in Names, F!AppendTo(j, p)
    PROVE  FilesInv'
<1>1. /\ UNCHANGED <<folder, text>>
      /\ F!Becomes(j, IF F!Exists(p) THEN [F!Began("append") EXCEPT !.des = folder[p], !.base = text[folder[p]]]
                      ELSE F!Refused, {})
    BY DEF F!AppendTo
<1>2. CASE F!Exists(p)
    <2>1. PICK q : q = [F!Began("append") EXCEPT !.des = folder[p], !.base = text[folder[p]]]
        OBVIOUS
    <2>2. q = Rec("append", "running", Nil, folder[p], 0, 0, <<>>, 0, 0, Nil, text[folder[p]], FALSE, FALSE, TRUE, 0)
        BY <2>1 DEF F!Began, F!Idle, Rec
    <2>3. folder[p] \in Inodes /\ text[folder[p]] \in Seq(Units)
        BY <1>2, JobNow
    <2>4. JobOK(j, q, text)
        BY <2>2, <2>3, RecIs, BegunOK
    <2>. QED
        BY <1>1, <1>2, <2>1, <2>4, StartKeeps
<1>3. CASE ~F!Exists(p)
    BY <1>1, <1>3, RefusedOK, StartKeeps
<1>. QED
    BY <1>2, <1>3

LEMMA ListsKeep ==
    ASSUME FilesInv, NEW j \in Jobs, F!List(j) \/ \E there \in BOOLEAN : F!Iterate(j, there)
    PROVE  FilesInv'
<1>1. UNCHANGED <<folder, text>>
    BY DEF F!List, F!Iterate
<1>2. PICK o \in {"list", "iterate"} : F!Becomes(j, F!Began(o), {}) \/ F!Becomes(j, F!Refused, {})
    BY DEF F!List, F!Iterate
<1>3. PICK q : q = F!Began(o)
    OBVIOUS
<1>4. JobOK(j, q, text)
    <2>1. Is(q, o, "running", Nil, Nil, 0, 0, <<>>, 0, 0, Nil, <<>>, FALSE, FALSE, TRUE, 0)
        BY <1>3, BeganIs
    <2>. QED
        BY <2>1, BegunOK, EmptySeq
<1>5. JobOK(j, F!Refused, text)
    BY RefusedOK
<1>. QED
    BY <1>1, <1>2, <1>3, <1>4, <1>5, StartKeeps

\* The inode of a file that is made or emptied.
LEMMA EmptiedIs ==
    ASSUME FilesInv, NEW p \in Names, NEW i \in Inodes, F!Emptied(p, i)
    PROVE  FilesTyped' /\ text'[i] = <<>> /\ \A k \in Inodes \ {i} : text'[k] = text[k]
    BY EmptySeq DEF FilesInv, FilesTyped, F!Emptied

LEMMA ToWriteIs ==
    ASSUME FilesInv, NEW p \in Names, NEW i \in F!ToWrite(p)
    PROVE  i \in Inodes
    BY DEF FilesInv, FilesTyped, F!ToWrite, F!Exists, F!Spare

LEMMA WriteKeeps ==
    ASSUME FilesInv, NEW j \in Jobs, NEW p \in Names, F!Write(j, p)
    PROVE  FilesInv'
<1>1. PICK i \in F!ToWrite(p) : F!Emptied(p, i) /\ F!Becomes(j, [F!Began("write") EXCEPT !.des = i], {i})
    BY DEF F!Write
<1>2. i \in Inodes
    BY ToWriteIs
<1>3. FilesTyped' /\ text'[i] = <<>> /\ \A k \in Inodes \ {i} : text'[k] = text[k]
    BY <1>1, <1>2, EmptiedIs
<1>4. PICK q : q = [F!Began("write") EXCEPT !.des = i]
    OBVIOUS
<1>5. q = Rec("write", "running", Nil, i, 0, 0, <<>>, 0, 0, Nil, <<>>, FALSE, FALSE, TRUE, 0)
    BY <1>4 DEF F!Began, F!Idle, Rec
<1>6. JobOK(j, q, text')
    <2>1. Is(q, "write", "running", Nil, i, 0, 0, <<>>, 0, 0, Nil, <<>>, FALSE, FALSE, TRUE, 0)
        BY <1>5, RecIs
    <2>. QED
        BY <1>2, <1>3, <2>1, BegunOK, EmptySeq
<1>7. JobsOK'
    BY <1>1, <1>2, <1>3, <1>4, <1>6, BecomesKeeps
<1>. QED
    BY <1>3, <1>7 DEF FilesInv

LEMMA CopyKeeps ==
    ASSUME FilesInv, NEW j \in Jobs, NEW p \in Names, NEW n \in Names, F!Copy(j, p, n)
    PROVE  FilesInv'
<1>1. CASE F!Exists(p)
    <2>1. PICK i \in F!ToWrite(n) :
             /\ F!Emptied(n, i)
             /\ F!Becomes(j, [F!Began("copy") EXCEPT !.src = folder[p], !.des = i, !.calm = folder[p] # i], {i})
        BY <1>1 DEF F!Copy
    <2>2. i \in Inodes
        BY ToWriteIs
    <2>3. FilesTyped' /\ text'[i] = <<>> /\ \A k \in Inodes \ {i} : text'[k] = text[k]
        BY <2>1, <2>2, EmptiedIs
    <2>4. PICK cm : cm = (folder[p] # i)
        OBVIOUS
    <2>5. PICK q : q = [F!Began("copy") EXCEPT !.src = folder[p], !.des = i, !.calm = cm]
        OBVIOUS
    <2>6. q = Rec("copy", "running", folder[p], i, 0, 0, <<>>, 0, 0, Nil, <<>>, FALSE, FALSE, cm, 0)
        BY <2>5 DEF F!Began, F!Idle, Rec
    <2>7. folder[p] \in Inodes
        BY <1>1, JobNow
    <2>8. text'[folder[p]] \in Seq(Units)
        BY <2>3, <2>7 DEF FilesTyped
    <2>9. JobOK(j, q, text')
        <3>1. Is(q, "copy", "running", folder[p], i, 0, 0, <<>>, 0, 0, Nil, <<>>, FALSE, FALSE, cm, 0)
            BY <2>6, RecIs
        <3>. QED
            BY <2>2, <2>3, <2>4, <2>7, <2>8, <3>1, BegunOK, EmptySeq
    <2>10. F!Becomes(j, q, {i})
        BY <2>1, <2>4, <2>5
    <2>11. JobsOK'
        BY <2>2, <2>3, <2>9, <2>10, BecomesKeeps
    <2>. QED
        BY <2>3, <2>11 DEF FilesInv
<1>2. CASE ~F!Exists(p)
    BY <1>2, RefusedOK, StartKeeps DEF F!Copy
<1>. QED
    BY <1>1, <1>2

\* The calls that are done at once.
LEMMA AtOnceKeeps ==
    ASSUME FilesInv, NEW p \in Names,
           F!Create(p) \/ F!Remove(p) \/ \E n \in Names : F!Rename(p, n)
    PROVE  FilesInv'
<1>1. CASE F!Create(p)
    <2>1. PICK i \in F!Spare : F!Emptied(p, i) /\ F!Becomes(Nil, F!Idle, {i})
        BY <1>1 DEF F!Create, F!Disturbs
    <2>2. i \in Inodes
        BY DEF F!Spare
    <2>3. FilesTyped' /\ text'[i] = <<>> /\ \A k \in Inodes \ {i} : text'[k] = text[k]
        BY <2>1, <2>2, EmptiedIs
    <2>4. Nil \notin Jobs
        BY FilesAssumption
    <2>5. JobsOK'
        BY <2>1, <2>2, <2>3, <2>4, BecomesKeeps
    <2>. QED
        BY <2>3, <2>5 DEF FilesInv
<1>2. CASE F!Remove(p) \/ \E n \in Names : F!Rename(p, n)
    <2>1. UNCHANGED <<text, job>>
        BY <1>2 DEF F!Remove, F!Rename
    <2>2. folder' \in [Names -> Inodes \cup {Nil}]
        BY <1>2 DEF FilesInv, FilesTyped, F!Remove, F!Rename
    <2>. QED
        BY <2>1, <2>2 DEF FilesInv, FilesTyped, JobsOK
<1>. QED
    BY <1>1, <1>2

\* What a call has come to when it is over.
AllOfIt(r, tx) ==
    /\ r.op = "read" => r.pos = Len(tx[r.src])
    /\ r.op \in {"write", "append"} => r.done >= Length
    /\ r.op = "copy" => r.at = Len(tx[r.src])

LEMMA ResolvedKeeps ==
    ASSUME FilesInv, NEW j \in Jobs, NEW failed \in BOOLEAN, F!Resolved(j, failed),
           job[j].state = "running", job[j].calm /\ ~failed => AllOfIt(job[j], text)
    PROVE  FilesInv'
<1>1. PICK r : r = job[j]
    OBVIOUS
<1>2. JobTyped(r) /\ Fielded(r) /\ Sited(r) /\ JobSound(j, r, text)
    BY <1>1, JobNow
<1>3. PICK q : q = [r EXCEPT !.state = "resolved", !.failed = failed]
    OBVIOUS
<1>4. Is(q, r.op, "resolved", r.src, r.des, r.pos, r.at, r.acc, r.data, r.done, r.held,
         r.base, r.pieces, failed, r.calm, r.rounds)
    <2>1. r = Rec(r.op, r.state, r.src, r.des, r.pos, r.at, r.acc, r.data, r.done, r.held,
                  r.base, r.pieces, r.failed, r.calm, r.rounds)
        BY <1>2, IsRec
    <2>2. q = Rec(r.op, "resolved", r.src, r.des, r.pos, r.at, r.acc, r.data, r.done, r.held,
                  r.base, r.pieces, failed, r.calm, r.rounds)
        BY <1>3, <2>1 DEF Rec
    <2>. QED
        BY <2>2, RecIs
<1>5. JobTyped(q) /\ Sited(q)
    BY <1>2, <1>4 DEF Is, JobTyped, Sited
<1>6. ASSUME Undisturbed(q) PROVE Undisturbed(r) /\ (Whole(q) => AllOfIt(r, text))
    BY <1>1, <1>4, <1>6 DEF Is, Undisturbed, Whole
<1>7. ~Whole(r)
    BY <1>1 DEF Whole
<1>8. ASSUME Undisturbed(q), q.op = "read" PROVE ReadAt(q, text)
    <2>1. ReadAt(r, text) /\ (Whole(q) => r.pos = Len(text[r.src]))
        BY <1>2, <1>4, <1>6, <1>8 DEF Is, JobSound, AllOfIt
    <2>. QED
        BY <1>4, <2>1 DEF Is, ReadAt
<1>9. ASSUME Undisturbed(q), q.op \in {"write", "append"} PROVE WriteAt(j, q, text)
    <2>1. WriteAt(j, r, text) /\ (Whole(q) => r.done >= Length)
        BY <1>2, <1>4, <1>6, <1>9 DEF Is, JobSound, AllOfIt
    <2>2. Tallied(q)
        BY <1>4, <2>1 DEF Is, WriteAt, Tallied
    <2>3. Written(j, q) = Written(j, r)
        BY <1>4 DEF Is, Written
    <2>. QED
        BY <1>4, <2>1, <2>2, <2>3 DEF Is, WriteAt
<1>10. ASSUME Undisturbed(q), q.op = "copy" PROVE CopyAt(q, text)
    <2>1. CopyAt(r, text) /\ (Whole(q) => r.at = Len(text[r.src]))
        BY <1>2, <1>4, <1>6, <1>10 DEF Is, JobSound, AllOfIt
    <2>. QED
        BY <1>4, <2>1 DEF Is, CopyAt
<1>11. JobOK(j, q, text)
    BY <1>5, <1>8, <1>9, <1>10 DEF JobOK, JobSound
<1>. QED
    BY <1>1, <1>3, <1>11, StartKeeps DEF F!Resolved

LEMMA ReadTurnKeeps ==
    ASSUME FilesInv, NEW j \in Jobs, F!ReadTurn(j)
    PROVE  FilesInv'
<1>1. PICK r : r = job[j]
    OBVIOUS
<1>2. JobTyped(r) /\ Fielded(r) /\ Sited(r) /\ JobSound(j, r, text)
    BY <1>1, JobNow
<1>3. r.op = "read" /\ r.state = "running" /\ r.src \in Inodes /\ r.pos \in Nat
    BY <1>1, <1>2 DEF F!ReadTurn, F!Running, Sited, JobTyped
<1>4. PICK t : t = text[r.src]
    OBVIOUS
<1>5. t \in Seq(Units) /\ Len(t) \in Nat
    BY <1>3, <1>4, JobNow
<1>6. CASE /\ r.pos < Len(t) /\ UNCHANGED <<folder, text>>
           /\ F!Becomes(j, [r EXCEPT !.acc = Append(r.acc, t[r.pos + 1]), !.pos = r.pos + 1], {})
    <2>1. PICK u : u = t[r.pos + 1]
        OBVIOUS
    <2>2. PICK n \in Nat : n = r.pos
        BY <1>3
    <2>3. n + 1 \in 1..Len(t)
        BY <1>5, <1>6, <2>2
    <2>4. u \in Units
        BY <1>5, <2>1, <2>2, <2>3, ElementOfSeq
    <2>5. PICK q : q = [r EXCEPT !.acc = Append(r.acc, u), !.pos = n + 1]
        OBVIOUS
    <2>6. Is(q, r.op, r.state, r.src, r.des, n + 1, r.at, Append(r.acc, u), r.data, r.done, r.held,
             r.base, r.pieces, r.failed, r.calm, r.rounds)
        <3>1. r = Rec(r.op, r.state, r.src, r.des, r.pos, r.at, r.acc, r.data, r.done, r.held,
                      r.base, r.pieces, r.failed, r.calm, r.rounds)
            BY <1>2, IsRec
        <3>2. q = Rec(r.op, r.state, r.src, r.des, n + 1, r.at, Append(r.acc, u), r.data, r.done, r.held,
                      r.base, r.pieces, r.failed, r.calm, r.rounds)
            BY <2>5, <3>1 DEF Rec
        <3>. QED
            BY <3>2, RecIs
    <2>7. r.acc \in Seq(Units) /\ Append(r.acc, u) \in Seq(Units)
        BY <1>2, <2>4, AppendProperties DEF JobTyped
    <2>8. JobTyped(q) /\ Sited(q)
        BY <1>2, <2>6, <2>7 DEF Is, JobTyped, Sited
    <2>9. ASSUME Undisturbed(q) PROVE ReadAt(q, text)
        <3>1. r.acc = SubSeq(t, 1, n)
            BY <1>2, <1>3, <1>4, <2>2, <2>6, <2>9 DEF Is, Undisturbed, JobSound, ReadAt
        <3>2. SubSeq(t, 1, n + 1) = Append(SubSeq(t, 1, n), u)
            BY ONLY <1>5, <2>1, <2>2, <2>3, n \in Nat, SubSeqMore
        <3>3. n + 1 <= Len(t)
            BY <2>3
        <3>4. ~Whole(q)
            BY <1>3, <2>6 DEF Is, Whole
        <3>. QED
            BY <1>4, <2>6, <3>1, <3>2, <3>3, <3>4 DEF Is, ReadAt
    <2>10. JobOK(j, q, text)
        BY <1>3, <2>6, <2>8, <2>9 DEF Is, JobOK, JobSound
    <2>. QED
        BY <1>6, <2>1, <2>2, <2>5, <2>10, StartKeeps
<1>7. CASE r.pos >= Len(t) /\ F!Resolved(j, FALSE)
    <2>1. r.calm => r.pos = Len(t)
        BY <1>2, <1>3, <1>4, <1>5, <1>7 DEF JobSound, Undisturbed, ReadAt
    <2>2. r.calm => AllOfIt(r, text)
        BY <1>3, <1>4, <2>1 DEF AllOfIt
    <2>. QED
        BY <1>1, <1>3, <1>7, <2>2, ResolvedKeeps
<1>8. CASE F!Resolved(j, TRUE)
    BY <1>1, <1>3, <1>8, ResolvedKeeps
<1>9. \/ /\ r.pos < Len(t) /\ UNCHANGED <<folder, text>>
         /\ F!Becomes(j, [r EXCEPT !.acc = Append(r.acc, t[r.pos + 1]), !.pos = r.pos + 1], {})
      \/ ~(r.pos < Len(t)) /\ F!Resolved(j, FALSE)
      \/ F!Resolved(j, TRUE)
    BY ONLY F!ReadTurn(j), <1>1, <1>4 DEF F!ReadTurn, F!Left, F!Unit
<1>10. ~(r.pos < Len(t)) => r.pos >= Len(t)
    BY <1>3, <1>5
<1>. QED
    BY ONLY <1>6, <1>7, <1>8, <1>9, <1>10

\* s, written by a call to its inode.
LEMMA WritesIs ==
    ASSUME FilesInv, NEW j \in Jobs, NEW s \in Seq(Units), NEW q, JobTyped(q), q.des \in Inodes,
           F!Writes(j, s, q)
    PROVE  /\ FilesTyped' /\ \A k \in Inodes \ {q.des} : text'[k] = text[k]
           /\ q.op = "append" \/ q.at = Len(text[q.des]) => text'[q.des] = text[q.des] \o s
           /\ \E z : /\ F!Becomes(j, z, {q.des})
                     /\ Is(z, q.op, q.state, q.src, q.des, q.pos, q.at + Len(s), q.acc, q.data, q.done,
                           q.held, q.base, q.pieces, q.failed, q.calm, q.rounds)
<1>1. PICK i : i = q.des
    OBVIOUS
<1>2. PICK t : t = text[i]
    OBVIOUS
<1>3. i \in Inodes /\ t \in Seq(Units) /\ Len(t) \in Nat
    BY <1>1, <1>2, JobNow
<1>4. PICK at : at = IF q.op = "append" THEN Len(t) ELSE q.at
    OBVIOUS
<1>5. at \in Nat
    BY <1>3, <1>4 DEF JobTyped
<1>6. PICK p : p = F!Put(t, at, s)
    OBVIOUS
<1>7. p \in Seq(Units) /\ (at = Len(t) => p = t \o s)
    BY <1>3, <1>5, <1>6, TextPut
<1>8. /\ text' = [text EXCEPT ![i] = p] /\ UNCHANGED folder
      /\ F!Becomes(j, [q EXCEPT !.at = q.at + Len(s)], {i})
    BY <1>1, <1>2, <1>4, <1>6 DEF F!Writes
<1>9. text' \in [Inodes -> Seq(Units)] /\ text'[i] = p /\ \A k \in Inodes \ {i} : text'[k] = text[k]
    BY <1>3, <1>7, <1>8 DEF FilesInv, FilesTyped
<1>10. PICK z : z = [q EXCEPT !.at = q.at + Len(s)]
    OBVIOUS
<1>11. Is(z, q.op, q.state, q.src, q.des, q.pos, q.at + Len(s), q.acc, q.data, q.done,
          q.held, q.base, q.pieces, q.failed, q.calm, q.rounds)
    <2>1. q = Rec(q.op, q.state, q.src, q.des, q.pos, q.at, q.acc, q.data, q.done, q.held,
                  q.base, q.pieces, q.failed, q.calm, q.rounds)
        BY IsRec DEF JobTyped
    <2>2. PICK n : n = q.at + Len(s)
        OBVIOUS
    <2>3. z = Rec(q.op, q.state, q.src, q.des, q.pos, n, q.acc, q.data, q.done, q.held,
                  q.base, q.pieces, q.failed, q.calm, q.rounds)
        BY <1>10, <2>1, <2>2 DEF Rec
    <2>4. Is(z, q.op, q.state, q.src, q.des, q.pos, n, q.acc, q.data, q.done, q.held,
             q.base, q.pieces, q.failed, q.calm, q.rounds)
        BY <2>3, RecIs
    <2>. QED
        BY <2>2, <2>4
<1>12. FilesTyped'
    BY <1>8, <1>9 DEF FilesInv, FilesTyped
<1>. QED
    BY <1>1, <1>2, <1>4, <1>7, <1>8, <1>9, <1>10, <1>11, <1>12

\* A round of write().
Round(j, r, n, da, dn, rd, pc, q, s) ==
    /\ r.op \in {"write", "append"} /\ r.state = "running" /\ r.done < Length
    /\ n \in 1..Length - r.data
    /\ da = (IF r.data + n = Length THEN 0 ELSE r.data + n)
    /\ dn = (IF r.data + n = Length THEN r.done + n ELSE r.done)
    /\ rd = (IF r.data + n = Length THEN r.rounds + 1 ELSE r.rounds)
    /\ pc = (r.pieces \/ n < Length)
    /\ q = [r EXCEPT !.data = da, !.done = dn, !.rounds = rd, !.pieces = pc]
    /\ s = SubSeq(F!Message(j), r.data + 1, r.data + n)

LEMMA RoundKeeps ==
    ASSUME FilesInv, NEW j \in Jobs, NEW r, r = job[j],
           NEW n, NEW da, NEW dn, NEW rd, NEW pc, NEW q, NEW s,
           Round(j, r, n, da, dn, rd, pc, q, s), F!Writes(j, s, q)
    PROVE  FilesInv'
<1>0. /\ r.op \in {"write", "append"} /\ r.state = "running" /\ r.done < Length
      /\ n \in 1..Length - r.data
      /\ da = (IF r.data + n = Length THEN 0 ELSE r.data + n)
      /\ dn = (IF r.data + n = Length THEN r.done + n ELSE r.done)
      /\ rd = (IF r.data + n = Length THEN r.rounds + 1 ELSE r.rounds)
      /\ pc = (r.pieces \/ n < Length)
      /\ q = [r EXCEPT !.data = da, !.done = dn, !.rounds = rd, !.pieces = pc]
      /\ s = SubSeq(F!Message(j), r.data + 1, r.data + n)
    BY DEF Round
<1>1. JobTyped(r) /\ Fielded(r) /\ Sited(r) /\ JobSound(j, r, text)
    BY JobNow
<1>2. PICK L \in Nat \ {0} : L = Length
    BY FilesAssumption
<1>3. PICK d \in Nat, m \in Nat, o \in Nat : d = r.data /\ m = r.rounds /\ o = r.done
    BY <1>1 DEF JobTyped
<1>4. n \in Nat /\ n >= 1 /\ d + n <= L
    BY <1>0, <1>2, <1>3
<1>21. PICK e \in Nat : e = d + n
    BY <1>4
<1>22. /\ da = (IF e = L THEN 0 ELSE e) /\ dn = (IF e = L THEN o + n ELSE o)
       /\ rd = (IF e = L THEN m + 1 ELSE m) /\ (~pc => ~r.pieces /\ ~(n < L))
    BY <1>0, <1>2, <1>3, <1>21
<1>5. da \in Nat /\ dn \in Nat /\ rd \in Nat
    BY ONLY d \in Nat, m \in Nat, o \in Nat, <1>4, <1>21, <1>22
<1>6. s = SubSeq(F!Message(j), d + 1, e)
    BY <1>0, <1>3, <1>21
<1>7. s \in Seq(Units) /\ Len(s) = n
    <2>1. \A k \in (d + 1)..e : F!Message(j)[k] \in Units
        <3>1. \A k \in (d + 1)..e : k \in 1..Length
            BY <1>2, <1>4, <1>21
        <3>. QED
            BY <3>1, MessageIs, ElementOfSeq
    <2>2. d + 1 \in Int /\ e \in Int
        OBVIOUS
    <2>3. s \in Seq(Units) /\ Len(s) = IF d + 1 <= e THEN e - (d + 1) + 1 ELSE 0
        BY ONLY <1>6, <2>1, <2>2, SubSeqProperties
    <2>4. d + 1 <= e /\ e - (d + 1) + 1 = n
        BY ONLY d \in Nat, <1>4, <1>21
    <2>. QED
        BY ONLY <2>3, <2>4
<1>9. Is(q, r.op, r.state, r.src, r.des, r.pos, r.at, r.acc, da, dn, r.held,
         r.base, pc, r.failed, r.calm, rd)
    <2>1. r = Rec(r.op, r.state, r.src, r.des, r.pos, r.at, r.acc, r.data, r.done, r.held,
                  r.base, r.pieces, r.failed, r.calm, r.rounds)
        BY <1>1, IsRec
    <2>2. q = Rec(r.op, r.state, r.src, r.des, r.pos, r.at, r.acc, da, dn, r.held,
                  r.base, pc, r.failed, r.calm, rd)
        BY <1>0, <2>1 DEF Rec
    <2>. QED
        BY <2>2, RecIs
<1>10. JobTyped(q) /\ q.des = r.des /\ r.des \in Inodes /\ q.op = r.op /\ q.at = r.at
    BY <1>0, <1>1, <1>5, <1>9 DEF Is, JobTyped, Sited
<1>11. F!Writes(j, s, q)
    OBVIOUS
<1>12. PICK i \in Inodes : i = r.des
    BY <1>10
<1>13. PICK z : /\ F!Becomes(j, z, {i})
                /\ Is(z, q.op, q.state, q.src, q.des, q.pos, q.at + Len(s), q.acc, q.data, q.done,
                      q.held, q.base, q.pieces, q.failed, q.calm, q.rounds)
    BY <1>7, <1>10, <1>11, <1>12, WritesIs
<1>14. /\ FilesTyped' /\ \A k \in Inodes \ {i} : text'[k] = text[k]
       /\ r.op = "append" \/ r.at = Len(text[i]) => text'[i] = text[i] \o s
    <2>1. /\ FilesTyped' /\ \A k \in Inodes \ {q.des} : text'[k] = text[k]
          /\ q.op = "append" \/ q.at = Len(text[q.des]) => text'[q.des] = text[q.des] \o s
        <3>1. q.des \in Inodes
            BY ONLY <1>10
        <3>. QED
            BY ONLY FilesInv, j \in Jobs, <1>7, <1>10, <1>11, <3>1, WritesIs
    <2>. QED
        BY ONLY <1>10, <1>12, <2>1
<1>15. Is(z, r.op, r.state, r.src, r.des, r.pos, r.at + n, r.acc, da, dn, r.held,
          r.base, pc, r.failed, r.calm, rd)
    BY <1>7, <1>9, <1>13 DEF Is
<1>16. r.at + n \in Nat
    <2>1. r.at \in Nat
        BY <1>1 DEF JobTyped
    <2>. QED
        BY ONLY <1>4, <2>1
<1>17. JobTyped(z) /\ Sited(z)
    BY <1>0, <1>1, <1>5, <1>15, <1>16 DEF Is, JobTyped, Sited
<1>18. ASSUME Undisturbed(z) PROVE WriteAt(j, z, text')
    <2>1. WriteAt(j, r, text)
        BY <1>0, <1>1, <1>15, <1>18 DEF Is, Undisturbed, JobSound
    <2>2. text[i] = Written(j, r) /\ Tallied(r) /\ (r.op = "write" => r.at = Len(text[i]))
        BY <1>12, <2>1 DEF WriteAt
    <2>3. text'[i] = text[i] \o s
        BY <1>0, <1>14, <2>2
    <2>4. text[i] \in Seq(Units) /\ r.base \in Seq(Units)
        BY <1>1, JobNow DEF JobTyped
    <2>5. PICK u : u = F!Repeated(F!Message(j), Count(m, d))
        OBVIOUS
    <2>6. PICK w : w = F!Repeated(F!Message(j), Count(m, e))
        OBVIOUS
    <2>7. Count(m, d) \in Nat
        BY <1>2 DEF Count
    <2>8. u \in Seq(Units)
        BY <2>5, <2>7, RepeatedIs
    <2>9. w = u \o s
        <3>1. d <= e /\ e <= Length
            BY <1>2, <1>4, <1>21
        <3>. QED
            BY ONLY <1>6, <2>5, <2>6, <3>1, j \in Jobs, d \in Nat, e \in Nat, m \in Nat, RepeatedMore DEF Goes
    <2>10. text[i] = r.base \o u
        BY <1>3, <2>2, <2>5 DEF Written, Count
    <2>11. text'[i] = r.base \o w
        <3>1. text'[i] = (r.base \o u) \o s
            BY ONLY <2>3, <2>10
        <3>2. (r.base \o u) \o s = r.base \o (u \o s)
            <4>1. PICK b \in Seq(Units) : b = r.base
                BY <2>4
            <4>2. (b \o u) \o s = b \o (u \o s)
                BY ONLY b \in Seq(Units), <1>7, <2>8, ConcatAssociative
            <4>. QED
                BY ONLY <4>1, <4>2
        <3>. QED
            BY ONLY <2>9, <3>1, <3>2
    <2>12. rd * Length + da = m * Length + e
        <3>1. CASE e = L
            <4>1. rd = m + 1 /\ da = 0
                BY <1>22, <3>1
            <4>2. (m + 1) * L = m * L + L
                BY Z3
            <4>3. m * L \in Nat
                OBVIOUS
            <4>. QED
                BY ONLY <1>2, <3>1, <4>1, <4>2, <4>3
        <3>2. CASE e # L
            BY <1>2, <1>22, <3>2
        <3>. QED
            BY <3>1, <3>2
    <2>13. z.des = i /\ z.base = r.base /\ z.rounds = rd /\ z.data = da
        BY <1>12, <1>15 DEF Is
    <2>14. text'[z.des] = Written(j, z)
        BY <2>6, <2>11, <2>12, <2>13 DEF Written, Count
    <2>15. Tallied(z)
        <3>1. z.rounds = rd /\ z.done = dn /\ z.pieces = pc /\ ~Whole(z)
            BY <1>0, <1>15 DEF Is, Whole
        <3>2. rd = 0 => dn = 0
            BY <1>3, <1>22, <2>2 DEF Tallied
        <3>3. ASSUME ~pc PROVE rd <= 1 /\ dn = rd * L
            <4>1. ~r.pieces /\ n = L /\ d = 0
                <5>1. ~r.pieces /\ ~(n < L)
                    BY <1>22, <3>3
                <5>2. n = L /\ d = 0
                    BY ONLY L \in Nat, d \in Nat, <1>4, <5>1
                <5>. QED
                    BY ONLY <5>1, <5>2
            <4>2. m <= 1 /\ o = m * L
                BY <1>2, <1>3, <2>2, <4>1 DEF Tallied
            <4>3. m = 0 /\ o = 0
                <5>1. o < L
                    BY <1>0, <1>2, <1>3
                <5>2. m # 1
                    BY <4>2, <5>1
                <5>3. m = 0
                    BY ONLY m \in Nat, <4>2, <5>2
                <5>. QED
                    BY <4>2, <5>3
            <4>4. rd = 1 /\ dn = L
                BY <1>21, <1>22, <4>1, <4>3
            <4>. QED
                BY <4>4
        <3>. QED
            BY <1>2, <3>1, <3>2, <3>3 DEF Tallied
    <2>16. z.op = "write" => z.at = Len(text'[z.des])
        <3>1. Len(text'[i]) = Len(text[i]) + n
            BY <1>7, <2>3, <2>4, ConcatProperties
        <3>. QED
            BY <1>15, <2>2, <2>13, <3>1 DEF Is
    <2>. QED
        BY <2>14, <2>15, <2>16 DEF WriteAt
<1>19. JobOK(j, z, text')
    <2>1. z.op # "read" /\ z.op # "copy"
        BY <1>0, <1>15 DEF Is
    <2>. QED
        BY <1>17, <1>18, <2>1 DEF JobOK, JobSound
<1>20. JobsOK'
    BY <1>13, <1>14, <1>19, BecomesKeeps
<1>. QED
    BY <1>14, <1>20 DEF FilesInv

LEMMA WriteTurnKeeps ==
    ASSUME FilesInv, NEW j \in Jobs, F!WriteTurn(j)
    PROVE  FilesInv'
<1>1. PICK r : r = job[j]
    OBVIOUS
<1>2. r.op \in {"write", "append"} /\ r.state = "running"
    BY <1>1 DEF F!WriteTurn
<1>3. CASE r.done >= Length /\ F!Resolved(j, FALSE)
    <2>1. AllOfIt(r, text)
        BY <1>2, <1>3 DEF AllOfIt
    <2>. QED
        BY <1>1, <1>2, <1>3, <2>1, ResolvedKeeps
<1>4. CASE F!Resolved(j, TRUE)
    BY <1>1, <1>2, <1>4, ResolvedKeeps
<1>5. ASSUME r.done < Length, NEW n \in 1..Length - r.data,
             F!Writes(j, SubSeq(F!Message(j), r.data + 1, r.data + n),
                 [r EXCEPT !.data   = IF r.data + n = Length THEN 0 ELSE r.data + n,
                           !.done   = IF r.data + n = Length THEN r.done + n ELSE r.done,
                           !.rounds = IF r.data + n = Length THEN r.rounds + 1 ELSE r.rounds,
                           !.pieces = r.pieces \/ n < Length])
      PROVE  FilesInv'
    <2>1. PICK da : da = IF r.data + n = Length THEN 0 ELSE r.data + n
        OBVIOUS
    <2>2. PICK dn : dn = IF r.data + n = Length THEN r.done + n ELSE r.done
        OBVIOUS
    <2>3. PICK rd : rd = IF r.data + n = Length THEN r.rounds + 1 ELSE r.rounds
        OBVIOUS
    <2>4. PICK pc : pc = (r.pieces \/ n < Length)
        OBVIOUS
    <2>6. PICK q : q = [r EXCEPT !.data = da, !.done = dn, !.rounds = rd, !.pieces = pc]
        OBVIOUS
    <2>7. PICK s : s = SubSeq(F!Message(j), r.data + 1, r.data + n)
        OBVIOUS
    <2>5. F!Writes(j, s, q)
        BY ONLY <1>5, <2>1, <2>2, <2>3, <2>4, <2>6, <2>7
    <2>8. Round(j, r, n, da, dn, rd, pc, q, s)
        BY ONLY <1>2, <1>5, <2>1, <2>2, <2>3, <2>4, <2>6, <2>7, n \in 1..Length - r.data DEF Round
    <2>. QED
        BY ONLY <1>1, <2>5, <2>8, FilesInv, j \in Jobs, RoundKeeps
<1>6. \/ r.done >= Length /\ F!Resolved(j, FALSE)
      \/ F!Resolved(j, TRUE)
      \/ /\ r.done < Length
         /\ \E n \in 1..Length - r.data :
             F!Writes(j, SubSeq(F!Message(j), r.data + 1, r.data + n),
                 [r EXCEPT !.data   = IF r.data + n = Length THEN 0 ELSE r.data + n,
                           !.done   = IF r.data + n = Length THEN r.done + n ELSE r.done,
                           !.rounds = IF r.data + n = Length THEN r.rounds + 1 ELSE r.rounds,
                           !.pieces = r.pieces \/ n < Length])
    BY ONLY F!WriteTurn(j), <1>1 DEF F!WriteTurn
<1>. QED
    BY <1>3, <1>4, <1>5, <1>6

\* A unit in hand: q is r with it.
LEMMA TakenKeeps ==
    ASSUME FilesInv, UNCHANGED <<folder, text>>, NEW j \in Jobs, NEW r, r = job[j],
           r.op = "copy", r.state = "running", r.held = Nil,
           NEW n \in Nat, n = r.pos, n < Len(text[r.src]),
           NEW u, u = text[r.src][n + 1],
           NEW q, q = [r EXCEPT !.held = u, !.pos = n + 1], F!Becomes(j, q, {})
    PROVE  FilesInv'
<1>1. JobTyped(r) /\ Fielded(r) /\ Sited(r) /\ JobSound(j, r, text)
    BY JobNow
<1>2. PICK t : t = text[r.src]
    OBVIOUS
<1>3. r.src \in Inodes /\ t \in Seq(Units) /\ Len(t) \in Nat
    BY <1>1, <1>2, JobNow DEF Sited
<1>4. n + 1 \in 1..Len(t)
    BY <1>2, <1>3
<1>5. u \in Units
    BY <1>2, <1>3, <1>4, ElementOfSeq
<1>6. Is(q, r.op, r.state, r.src, r.des, n + 1, r.at, r.acc, r.data, r.done, u,
         r.base, r.pieces, r.failed, r.calm, r.rounds)
    <2>1. r = Rec(r.op, r.state, r.src, r.des, r.pos, r.at, r.acc, r.data, r.done, r.held,
                  r.base, r.pieces, r.failed, r.calm, r.rounds)
        BY <1>1, IsRec
    <2>2. q = Rec(r.op, r.state, r.src, r.des, n + 1, r.at, r.acc, r.data, r.done, u,
                  r.base, r.pieces, r.failed, r.calm, r.rounds)
        BY <2>1 DEF Rec
    <2>. QED
        BY <2>2, RecIs
<1>7. JobTyped(q) /\ Sited(q)
    BY <1>1, <1>5, <1>6 DEF Is, JobTyped, Sited
<1>8. u # Nil
    <2>1. Nil \notin Units
        BY FilesAssumption DEF Units
    <2>. QED
        BY <1>5, <2>1
<1>9. ASSUME Undisturbed(q) PROVE CopyAt(q, text)
    <2>1. CopyAt(r, text)
        BY <1>1, <1>6, <1>9 DEF Is, Undisturbed, JobSound
    <2>2. n = r.at /\ r.src # r.des /\ r.at <= Len(t) /\ text[r.des] = SubSeq(t, 1, r.at)
        BY <1>2, <2>1 DEF CopyAt
    <2>3. ~Whole(q) /\ n + 1 <= Len(t)
        BY <1>4, <1>6 DEF Is, Whole
    <2>. QED
        BY <1>2, <1>6, <1>8, <2>2, <2>3 DEF Is, CopyAt
<1>10. JobOK(j, q, text)
    BY <1>6, <1>7, <1>9 DEF Is, JobOK, JobSound
<1>. QED
    BY <1>10, StartKeeps

\* The unit in hand is written behind the others.
LEMMA GivenKeeps ==
    ASSUME FilesInv, NEW j \in Jobs, NEW r, r = job[j],
           r.op = "copy", r.state = "running", r.held # Nil,
           NEW s, s = <<r.held>>, NEW q, q = [r EXCEPT !.held = Nil], F!Writes(j, s, q)
    PROVE  FilesInv'
<1>1. JobTyped(r) /\ Fielded(r) /\ Sited(r) /\ JobSound(j, r, text)
    BY JobNow
<1>2. Is(q, r.op, r.state, r.src, r.des, r.pos, r.at, r.acc, r.data, r.done, Nil,
         r.base, r.pieces, r.failed, r.calm, r.rounds)
    <2>1. r = Rec(r.op, r.state, r.src, r.des, r.pos, r.at, r.acc, r.data, r.done, r.held,
                  r.base, r.pieces, r.failed, r.calm, r.rounds)
        BY <1>1, IsRec
    <2>2. q = Rec(r.op, r.state, r.src, r.des, r.pos, r.at, r.acc, r.data, r.done, Nil,
                  r.base, r.pieces, r.failed, r.calm, r.rounds)
        BY <2>1 DEF Rec
    <2>. QED
        BY <2>2, RecIs
<1>3. JobTyped(q) /\ q.des \in Inodes
    BY <1>1, <1>2 DEF Is, JobTyped, Sited
<1>4. PICK h \in Units : h = r.held
    BY <1>1 DEF JobTyped
<1>5. s \in Seq(Units) /\ Len(s) = 1 /\ s = <<h>>
    BY <1>4
<1>6. PICK i \in Inodes, k \in Inodes : i = r.des /\ k = r.src
    BY <1>1 DEF Sited
<1>7. PICK a \in Nat, n \in Nat : a = r.at /\ n = r.pos
    BY <1>1 DEF JobTyped
<1>8. PICK z : /\ F!Becomes(j, z, {q.des})
               /\ Is(z, q.op, q.state, q.src, q.des, q.pos, q.at + Len(s), q.acc, q.data, q.done,
                     q.held, q.base, q.pieces, q.failed, q.calm, q.rounds)
    BY ONLY FilesInv, j \in Jobs, <1>3, <1>5, F!Writes(j, s, q), WritesIs
<1>9. /\ FilesTyped' /\ \A o \in Inodes \ {q.des} : text'[o] = text[o]
      /\ q.op = "append" \/ q.at = Len(text[q.des]) => text'[q.des] = text[q.des] \o s
    BY ONLY FilesInv, j \in Jobs, <1>3, <1>5, F!Writes(j, s, q), WritesIs
<1>10. q.des = i /\ q.at = a
    BY <1>2, <1>6, <1>7 DEF Is
<1>11. Is(z, "copy", "running", k, i, n, a + 1, r.acc, r.data, r.done, Nil,
          r.base, r.pieces, r.failed, r.calm, r.rounds)
    BY <1>2, <1>5, <1>6, <1>7, <1>8, <1>10 DEF Is
<1>12. JobTyped(z) /\ Sited(z)
    BY <1>1, <1>11 DEF Is, JobTyped, Sited
<1>13. ASSUME Undisturbed(z) PROVE CopyAt(z, text')
    <2>1. CopyAt(r, text)
        BY <1>1, <1>11, <1>13 DEF Is, Undisturbed, JobSound
    <2>2. PICK t : t = text[k]
        OBVIOUS
    <2>3. t \in Seq(Units) /\ Len(t) \in Nat
        BY <2>2, JobNow
    <2>4. /\ k # i /\ text[i] = SubSeq(t, 1, a) /\ n = a + 1 /\ n <= Len(t) /\ h = t[a + 1]
        BY <1>4, <1>6, <1>7, <2>1, <2>2 DEF CopyAt
    <2>5. a + 1 \in 1..Len(t)
        BY <2>3, <2>4
    <2>6. /\ text[i] \in Seq(Units) /\ Len(text[i]) = a
          /\ SubSeq(t, 1, a + 1) = Append(text[i], h)
        BY ONLY <2>3, <2>4, <2>5, a \in Nat, SubSeqMore
    <2>7. Append(text[i], h) = text[i] \o <<h>>
        BY ONLY <2>6, h \in Units, AppendIsConcat
    <2>8. text'[i] = SubSeq(t, 1, a + 1)
        BY ONLY <1>5, <1>9, <1>10, <2>6, <2>7
    <2>9. text'[k] = t
        BY <1>9, <1>10, <2>2, <2>4
    <2>10. ~Whole(z)
        BY <1>11 DEF Is, Whole
    <2>. QED
        BY <1>11, <2>4, <2>8, <2>9, <2>10 DEF Is, CopyAt
<1>14. JobOK(j, z, text')
    BY <1>11, <1>12, <1>13 DEF Is, JobOK, JobSound
<1>15. JobsOK'
    BY <1>3, <1>8, <1>9, <1>14, BecomesKeeps
<1>. QED
    BY <1>9, <1>15 DEF FilesInv

LEMMA CopyTurnKeeps ==
    ASSUME FilesInv, NEW j \in Jobs, F!CopyTurn(j)
    PROVE  FilesInv'
<1>1. PICK r : r = job[j]
    OBVIOUS
<1>2. JobTyped(r) /\ Sited(r) /\ JobSound(j, r, text)
    BY <1>1, JobNow
<1>3. r.op = "copy" /\ r.state = "running"
    BY <1>1 DEF F!CopyTurn, F!Running
<1>0. PICK t : t = text[r.src]
    OBVIOUS
<1>4. PICK n \in Nat : n = r.pos
    BY <1>2 DEF JobTyped
<1>5. Len(t) \in Nat
    BY <1>2, <1>3, <1>0, JobNow DEF Sited
<1>6. CASE /\ r.held = Nil /\ n < Len(t) /\ UNCHANGED <<folder, text>>
           /\ F!Becomes(j, [r EXCEPT !.held = t[n + 1], !.pos = n + 1], {})
    <2>1. PICK u : u = t[n + 1]
        OBVIOUS
    <2>2. PICK q : q = [r EXCEPT !.held = u, !.pos = n + 1]
        OBVIOUS
    <2>. QED
        BY <1>0, <1>1, <1>3, <1>4, <1>6, <2>1, <2>2, TakenKeeps
<1>7. CASE r.held # Nil /\ F!Writes(j, <<r.held>>, [r EXCEPT !.held = Nil])
    BY <1>1, <1>3, <1>7, GivenKeeps
<1>8. CASE r.held = Nil /\ ~(n < Len(t)) /\ F!Resolved(j, FALSE)
    <2>1. ASSUME r.calm PROVE r.at = Len(t)
        <3>1. CopyAt(r, text)
            BY <1>2, <1>3, <2>1 DEF JobSound, Undisturbed
        <3>2. n = r.at /\ n <= Len(t)
            BY <1>0, <1>4, <1>8, <3>1 DEF CopyAt
        <3>. QED
            BY <1>5, <1>8, <3>2
    <2>2. r.calm => AllOfIt(r, text)
        BY <1>0, <1>3, <2>1 DEF AllOfIt
    <2>. QED
        BY <1>1, <1>3, <1>8, <2>2, ResolvedKeeps
<1>9. CASE F!Resolved(j, TRUE)
    BY <1>1, <1>3, <1>9, ResolvedKeeps
<1>10. \/ /\ r.held = Nil /\ n < Len(t) /\ UNCHANGED <<folder, text>>
          /\ F!Becomes(j, [r EXCEPT !.held = t[n + 1], !.pos = n + 1], {})
       \/ r.held # Nil /\ F!Writes(j, <<r.held>>, [r EXCEPT !.held = Nil])
       \/ r.held = Nil /\ ~(n < Len(t)) /\ F!Resolved(j, FALSE)
       \/ F!Resolved(j, TRUE)
    BY ONLY F!CopyTurn(j), <1>0, <1>1, <1>4 DEF F!CopyTurn, F!Left, F!Unit
<1>. QED
    BY ONLY <1>6, <1>7, <1>8, <1>9, <1>10

\* The names of a folder.
LEMMA ListTurnsKeep ==
    ASSUME FilesInv, NEW j \in Jobs, F!IterateTurn(j) \/ \E there \in BOOLEAN : F!ListTurn(j, there)
    PROVE  FilesInv'
<1>1. PICK r : r = job[j]
    OBVIOUS
<1>2. JobTyped(r) /\ Fielded(r) /\ Sited(r)
    BY <1>1, JobNow
<1>3. UNCHANGED <<folder, text>>
    BY DEF F!IterateTurn, F!ListTurn
<1>4. CASE \E st \in {"resolved", "rejected"} : F!Becomes(j, F!Ended(st), {})
    <2>1. PICK st \in {"resolved", "rejected"} : F!Becomes(j, F!Ended(st), {})
        BY <1>4
    <2>2. JobOK(j, F!Ended(st), text)
        BY EndedIs, OverOK
    <2>. QED
        BY <1>3, <2>1, <2>2, StartKeeps
<1>5. CASE r.op = "iterate" /\ \E h : F!Becomes(j, [r EXCEPT !.held = h], {})
    <2>1. PICK h : F!Becomes(j, [r EXCEPT !.held = h], {})
        BY <1>5
    <2>2. PICK q : q = [r EXCEPT !.held = h]
        OBVIOUS
    <2>3. r = Rec(r.op, r.state, r.src, r.des, r.pos, r.at, r.acc, r.data, r.done, r.held,
                  r.base, r.pieces, r.failed, r.calm, r.rounds)
        BY <1>2, IsRec
    <2>4. q = Rec(r.op, r.state, r.src, r.des, r.pos, r.at, r.acc, r.data, r.done, h,
                  r.base, r.pieces, r.failed, r.calm, r.rounds)
        BY <2>2, <2>3 DEF Rec
    <2>5. Is(q, r.op, r.state, r.src, r.des, r.pos, r.at, r.acc, r.data, r.done, h,
             r.base, r.pieces, r.failed, r.calm, r.rounds)
        BY <2>4, RecIs
    <2>6. JobOK(j, q, text)
        BY <1>2, <1>5, <2>5 DEF Is, JobOK, JobTyped, Sited, JobSound
    <2>. QED
        BY <1>3, <2>1, <2>2, <2>6, StartKeeps
<1>6. \/ \E st \in {"resolved", "rejected"} : F!Becomes(j, F!Ended(st), {})
      \/ r.op = "iterate" /\ \E h : F!Becomes(j, [r EXCEPT !.held = h], {})
    <2>1. CASE F!IterateTurn(j)
        BY ONLY <1>1, <2>1 DEF F!IterateTurn, F!Running
    <2>2. CASE \E there \in BOOLEAN : F!ListTurn(j, there)
        BY ONLY <2>2 DEF F!ListTurn
    <2>. QED
        BY <2>1, <2>2
<1>. QED
    BY <1>4, <1>5, <1>6

LEMMA FilesNext ==
    ASSUME FilesInv, F!Next
    PROVE  FilesInv'
<1>1. ASSUME NEW j \in Jobs, F!Turn(j) PROVE FilesInv'
    BY <1>1, ReadTurnKeeps, WriteTurnKeeps, CopyTurnKeeps, ListTurnsKeep DEF F!Turn
<1>2. ASSUME NEW j \in Jobs, NEW p \in Names, F!Read(j, p) \/ F!Write(j, p) \/ F!AppendTo(j, p)
      PROVE  FilesInv'
    BY <1>2, ReadKeeps, WriteKeeps, AppendToKeeps
<1>3. ASSUME NEW j \in Jobs, F!List(j) \/ \E there \in BOOLEAN : F!Iterate(j, there)
      PROVE  FilesInv'
    BY <1>3, ListsKeep
<1>4. ASSUME NEW j \in Jobs, NEW p \in Names, NEW n \in Names, F!Copy(j, p, n) PROVE FilesInv'
    BY <1>4, CopyKeeps
<1>5. ASSUME NEW p \in Names, F!Create(p) \/ F!Remove(p) \/ \E n \in Names : F!Rename(p, n)
      PROVE  FilesInv'
    BY <1>5, AtOnceKeeps
<1>. QED
    BY ONLY F!Next, <1>1, <1>2, <1>3, <1>4, <1>5 DEF F!Next

LEMMA FilesInit ==
    ASSUME MemoryInit
    PROVE  FilesInv
<1>1. job = [j \in Jobs |-> F!Idle]
    BY DEF MemoryInit, F!Init
<1>2. /\ folder \in [Names -> Inodes \cup {Nil}]
      /\ \A i \in Inodes : text[i] \in Seq(Units)
      /\ text = [i \in Inodes |-> text[i]]
    <2>1. CASE topic = "files"
        <3>1. PICK p \in Names, i \in Inodes :
                 /\ folder = [m \in Names |-> IF m = p THEN i ELSE Nil]
                 /\ text = [k \in Inodes |-> IF k = i THEN F!Old ELSE <<>>]
            BY <2>1 DEF MemoryInit, F!Init
        <3>2. F!Old \in Seq(Units)
            <4>1. Length \in Nat /\ \A k \in 1..Length : <<Nil, k>> \in Units
                BY FilesAssumption DEF Units
            <4>. QED
                BY <4>1 DEF F!Old
        <3>. QED
            BY <3>1, <3>2, EmptySeq
    <2>2. CASE topic # "files"
        BY <2>2, EmptySeq DEF MemoryInit
    <2>. QED
        BY <2>1, <2>2
<1>3. FilesTyped
    BY <1>2 DEF FilesTyped
<1>4. ASSUME NEW j \in Jobs PROVE JobOK(j, job[j], text)
    <2>1. job[j] = Rec("none", "idle", Nil, Nil, 0, 0, <<>>, 0, 0, Nil, <<>>, FALSE, FALSE, TRUE, 0)
        BY <1>1 DEF F!Idle, Rec
    <2>. QED
        BY <2>1, RecIs, OverOK
<1>. QED
    BY <1>1, <1>3, <1>4 DEF FilesInv, JobsOK

LEMMA FilesRight ==
    ASSUME FilesInv
    PROVE  F!FilesKept
<1>1. SUFFICES ASSUME NEW j \in Jobs, Undisturbed(job[j])
               PROVE  /\ job[j].op = "read" => F!ReadSound(job[j])
                      /\ job[j].op \in {"write", "append"} => F!WriteSound(j, job[j])
                      /\ job[j].op = "copy" => F!CopySound(job[j])
    BY DEF F!FilesKept, Undisturbed
<1>2. PICK r : r = job[j]
    OBVIOUS
<1>3. JobTyped(r) /\ Sited(r) /\ JobSound(j, r, text)
    BY <1>2, JobNow
<1>4. r.op = "read" => F!ReadSound(r)
    BY <1>1, <1>2, <1>3 DEF JobSound, ReadAt, Whole, F!ReadSound
<1>5. ASSUME r.op \in {"write", "append"} PROVE F!WriteSound(j, r)
    <2>1. text[r.des] = Written(j, r) /\ Tallied(r)
        BY <1>1, <1>2, <1>3, <1>5 DEF JobSound, WriteAt
    <2>2. Whole(r) => r.rounds >= 1
        <3>1. r.rounds \in Nat /\ Length \in Nat /\ Length # 0
            BY <1>3, FilesAssumption DEF JobTyped
        <3>2. Whole(r) => r.rounds # 0
            BY <2>1, <3>1 DEF Tallied
        <3>. QED
            BY <3>1, <3>2
    <2>. QED
        BY <2>1, <2>2 DEF Written, Tallied, Whole, F!WriteSound
<1>6. ASSUME r.op = "copy" PROVE F!CopySound(r)
    <2>1. CopyAt(r, text)
        BY <1>1, <1>2, <1>3, <1>6 DEF JobSound
    <2>2. PICK t : t = text[r.src]
        OBVIOUS
    <2>3. t \in Seq(Units)
        BY <1>3, <1>6, <2>2, JobNow DEF Sited
    <2>4. SubSeq(t, 1, Len(t)) = t
        BY <2>3, SubSeqFull
    <2>. QED
        BY <2>1, <2>2, <2>4 DEF CopyAt, Whole, F!CopySound
<1>. QED
    BY <1>2, <1>4, <1>5, <1>6

-----------------------------------------------------------------------------
(* The parts together.                                                     *)

\* While the others rest.
LEMMA PtrRest ==
    ASSUME PtrInv, UNCHANGED ptrs
    PROVE  PtrInv'
<1>1. /\ PtrTyped' /\ \A t \in Threads : PlanOK(t)'
      /\ \A h \in Handles : Inside(h)'
    BY DEF ptrs, PtrInv, PtrTyped, PlanOK, Owns, Loose, Inside
<1>2. ASSUME NEW n \in Held
      PROVE  NodeOK(n)'
    <2>1. NodeOK(n) /\ On(n)' = On(n) /\ Untouched(n) /\ owner' = owner /\ Unmoved(n)
        BY DEF ptrs, PtrInv, On, Untouched, Unmoved, Destroyers, Deleters, Adders, P!Pending
    <2>. QED
        BY <2>1, NodeKept
<1>. QED
    BY <1>1, <1>2 DEF PtrInv

LEMMA InvokerRest ==
    ASSUME InvokerInv, UNCHANGED calls
    PROVE  InvokerInv'
    BY DEF calls, InvokerInv, CallsOK, FramesOK, Listed, Gone, FrameOK, I!Made

LEMMA HeapRest ==
    ASSUME HeapInv, UNCHANGED heap
    PROVE  HeapInv'
<1>1. UNCHANGED <<obj, sweep, page, live>>
    BY DEF heap
<1>. QED
    BY <1>1 DEF HeapInv, HeapNow

LEMMA FilesRest ==
    ASSUME FilesInv, UNCHANGED files
    PROVE  FilesInv'
    BY DEF files, FilesInv, FilesTyped, JobsOK

\* Whatever threads do with their handles on shared nodes, a node lives for as
\* long as somebody is on it, its value is destroyed once, and no handle sees
\* beyond its array (ptr_t); and an invoker calls nobody twice at a time and
\* nobody but the owner of the address or who has its node after it.
THEOREM HandlesRight == MemorySpec => []HandlesExact
<1>1. MemoryInit => PtrInv /\ InvokerInv
    BY PtrInit, InvokerInit DEF MemoryInit
<1>2. PtrInv /\ InvokerInv /\ [MemoryNext]_<<topic, vars, ptrs, heap, calls, files>>
        => (PtrInv /\ InvokerInv)'
    <2>1. ASSUME PtrInv, InvokerInv, MemoryNext
          PROVE  (PtrInv /\ InvokerInv)'
        <3>1. P!Next \/ UNCHANGED ptrs
            BY <2>1 DEF MemoryNext
        <3>2. I!Next \/ UNCHANGED calls
            BY <2>1 DEF MemoryNext
        <3>. QED
            BY <2>1, <3>1, <3>2, PtrNext, InvokerNext, PtrRest, InvokerRest
    <2>. QED
        BY <2>1, PtrRest, InvokerRest
<1>3. PtrInv /\ InvokerInv => HandlesExact
    BY PtrRight, InvokerRight DEF HandlesExact
<1>. QED
    BY <1>1, <1>2, <1>3, PTL DEF MemorySpec

\* Whatever is asked for and given back, and wherever the sweep is, a block
\* shares no byte with another or with the place that the next one is cut from,
\* and the next sweep over a page finds the largest place in it (allocator_t);
\* and a file that only one call works on is, at every turn of it, what was
\* read or written so far, and all of it when its promise is resolved (fs.h).
THEOREM StoredRight == MemorySpec => []StoredExact
<1>1. MemoryInit => HeapInv /\ FilesInv
    BY HeapInit, FilesInit DEF MemoryInit
<1>2. HeapInv /\ FilesInv /\ [MemoryNext]_<<topic, vars, ptrs, heap, calls, files>>
        => (HeapInv /\ FilesInv)'
    <2>1. ASSUME HeapInv, FilesInv, MemoryNext
          PROVE  (HeapInv /\ FilesInv)'
        <3>1. A!Next \/ UNCHANGED heap
            BY <2>1 DEF MemoryNext
        <3>2. F!Next \/ UNCHANGED files
            BY <2>1 DEF MemoryNext
        <3>. QED
            BY <2>1, <3>1, <3>2, HeapNext, FilesNext, HeapRest, FilesRest
    <2>. QED
        BY <2>1, HeapRest, FilesRest
<1>3. HeapInv /\ FilesInv => StoredExact
    BY HeapRight, FilesRight DEF StoredExact
<1>. QED
    BY <1>1, <1>2, <1>3, PTL DEF MemorySpec
=============================================================================
