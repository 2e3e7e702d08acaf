----------------------------- MODULE KernelProofs -----------------------------
(***************************************************************************)
(* Proofs about the kernel of Kernel.tla, for any sockets, relays between  *)
(* them, addresses, kinds of listeners and sizes of buffers.               *)
(***************************************************************************)
EXTENDS Kernel, SequenceTheorems, TLAPS

\* One listener for an entry; what a relay writes to is not itself the source
\* of one, whose WAITING bit it would share; and malloc() gives no address out
\* again that something still remembers.
Plainly ==
    /\ MaxEars = 1 /\ ~Reuse
    /\ \A f, g \in Fds : "relay" \in Kinds[f] /\ "relay" \in Kinds[g] => Out[f] # g

-----------------------------------------------------------------------------
(* The inductive invariant.                                                *)

Typed ==
    /\ sock \in [Fds -> Socket]
    /\ order \in Seq(Addrs)
    /\ fdOf \in [Addrs -> Fds \cup {Nil}]
    /\ ears \in [Addrs -> Seq(Listener)]
    /\ jobs \in [Addrs -> Nat]
    /\ used \subseteq Live /\ armed \subseteq Live
    /\ batch \subseteq Addrs \cup {Bell}
    /\ phase \in {"loop", "wait", "deliver"}
    /\ pd \in [Fds -> Addrs \cup {Nil}]

\* kv_queue holds the live entries, each once, and its cursor is on one.
Listed ==
    /\ \A a \in Live : \E i \in 1..Len(order) : order[i] = a
    /\ \A i \in 1..Len(order) : order[i] \in Live
    /\ \A i, j \in 1..Len(order) : order[i] = order[j] => i = j
    /\ act \in Live \cup {Nil}

\* Listeners b of descriptor f: at most one, and then f is not stopped.  One
\* that holds a chunk is a relay, and the last read of f did not block.
EarsFor(b, s, f) ==
    /\ Len(b) <= 1
    /\ b # <<>> =>
         /\ b[1].fd = f /\ b[1].kind \in Kinds[f]
         /\ b[1].at = "write" => b[1].kind = "relay" /\ ~s[f].waiting
         /\ s[f].status # "stopped"

EarOK(a) == EarsFor(ears[a], sock, fdOf[a]) /\ (ears[a] # <<>> => a \in Live)

\* The address of a live entry is remembered by its socket, and no other.
Known(a) == \A g \in Fds : pd[g] = a <=> g = fdOf[a]

\* A live entry is marked USED exactly as long as one coroutine serves it.
ServedOK(a) == jobs[a] = IF a \in used THEN 1 ELSE 0

\* What arrived for a listener is about to be told to it.
Told(a) ==
    ears[a] # <<>> /\ Available(sock[fdOf[a]]) /\ Unread(sock[fdOf[a]]) =>
        a \in armed \/ a \in batch \/ a \in used

Core ==
    /\ Typed /\ Listed
    /\ \A a \in Addrs : EarOK(a)
    /\ \A a \in Live : Known(a) /\ ServedOK(a) /\ Told(a)

IInv == Core /\ (phase # "deliver" => batch = {})

-----------------------------------------------------------------------------
(* The list of entries.                                                    *)

\* What Remove does to the list.
LEMMA Dropped ==
    ASSUME order \in Seq(Addrs), NEW a \in Addrs,
           \E i \in 1..Len(order) : order[i] = a,
           \A i, j \in 1..Len(order) : order[i] = order[j] => i = j
    PROVE  /\ KvQueue!Drop(a) \in Seq(Addrs)
           /\ \A x : (\E j \in 1..Len(KvQueue!Drop(a)) : KvQueue!Drop(a)[j] = x)
                     <=> x # a /\ \E i \in 1..Len(order) : order[i] = x
           /\ \A i, j \in 1..Len(KvQueue!Drop(a)) :
                 KvQueue!Drop(a)[i] = KvQueue!Drop(a)[j] => i = j
<1>. DEFINE n == Len(order)
            k == KvQueue!At(a)
            d == KvQueue!Drop(a)
<1>1. n \in Nat /\ DOMAIN order = 1..n /\ \A i \in 1..n : order[i] \in Addrs
    BY LenProperties
<1>2. k \in 1..n /\ order[k] = a
    BY <1>1 DEF KvQueue!At
<1>. DEFINE p == SubSeq(order, 1, k - 1)
            q == SubSeq(order, k + 1, n)
<1>3. d = p \o q
    BY DEF KvQueue!Drop
<1>. HIDE DEF k, n
<1>4. /\ p \in Seq(Addrs) /\ Len(p) = k - 1
      /\ \A i \in 1..(k - 1) : p[i] = order[i]
    BY <1>1, <1>2, SubSeqProperties
<1>5. /\ q \in Seq(Addrs) /\ Len(q) = n - k
      /\ \A i \in 1..(n - k) : q[i] = order[k + i]
    <2>1. k + 1 \in Int /\ n \in Int /\ \A i \in (k + 1)..n : order[i] \in Addrs
        BY <1>1, <1>2
    <2>2. /\ q \in Seq(Addrs) /\ Len(q) = (IF k + 1 <= n THEN n - (k + 1) + 1 ELSE 0)
          /\ \A i \in 1..(n - (k + 1) + 1) : q[i] = order[(k + 1) + i - 1]
        BY <2>1, SubSeqProperties
    <2>3. n - (k + 1) + 1 = n - k /\ (~(k + 1 <= n) => n - k = 0)
        BY <1>1, <1>2
    <2>4. \A i \in 1..(n - k) : (k + 1) + i - 1 = k + i
        BY <1>1, <1>2
    <2>. QED
        BY <2>2, <2>3, <2>4
<1>. HIDE DEF p, q, d
<1>6. /\ d \in Seq(Addrs) /\ Len(d) = n - 1
      /\ \A i \in 1..(n - 1) : d[i] = IF i <= k - 1 THEN p[i] ELSE q[i - (k - 1)]
    <2>1. Len(p) + Len(q) = n - 1
        BY <1>1, <1>2, <1>4, <1>5
    <2>2. /\ d \in Seq(Addrs) /\ Len(d) = Len(p) + Len(q)
          /\ \A i \in 1..(Len(p) + Len(q)) : d[i] = IF i <= Len(p) THEN p[i] ELSE q[i - Len(p)]
        BY <1>3, <1>4, <1>5, ConcatProperties
    <2>. QED
        BY <1>4, <2>1, <2>2
<1>7. \A i \in 1..(n - 1) : d[i] = IF i < k THEN order[i] ELSE order[i + 1]
    <2>. SUFFICES ASSUME NEW i \in 1..(n - 1)
                  PROVE  d[i] = IF i < k THEN order[i] ELSE order[i + 1]
        OBVIOUS
    <2>1. CASE i < k
        <3>1. i \in 1..(k - 1)
            BY <1>1, <1>2, <2>1
        <3>. QED
            BY <1>4, <1>6, <2>1, <3>1
    <2>2. CASE ~(i < k)
        <3>1. i - (k - 1) \in 1..(n - k) /\ ~(i <= k - 1) /\ k + (i - (k - 1)) = i + 1
            BY <1>1, <1>2, <2>2
        <3>. QED
            BY <1>5, <1>6, <2>2, <3>1
    <2>. QED
        BY <2>1, <2>2
<1>8. \A x : (\E j \in 1..(n - 1) : d[j] = x) <=> x # a /\ \E i \in 1..n : order[i] = x
    <2>1. ASSUME NEW j \in 1..(n - 1)
          PROVE  d[j] # a /\ \E i \in 1..n : order[i] = d[j]
        <3>1. j \in 1..n /\ j + 1 \in 1..n /\ (j < k => j # k) /\ (~(j < k) => j + 1 # k)
            BY <1>1, <1>2
        <3>. QED
            BY <1>2, <1>7, <3>1 DEF n
    <2>2. ASSUME NEW i \in 1..n, order[i] # a
          PROVE  \E j \in 1..(n - 1) : d[j] = order[i]
        <3>1. CASE i < k
            <4>1. i \in 1..(n - 1)
                BY <1>1, <1>2, <3>1
            <4>. QED
                BY <1>7, <3>1, <4>1
        <3>2. CASE i > k
            <4>1. i - 1 \in 1..(n - 1) /\ ~(i - 1 < k) /\ (i - 1) + 1 = i
                BY <1>1, <1>2, <3>2
            <4>. QED
                BY <1>7, <4>1
        <3>3. i # k
            BY <1>2, <2>2
        <3>. QED
            BY <1>1, <1>2, <3>1, <3>2, <3>3
    <2>. QED
        BY <2>1, <2>2
<1>9. \A i, j \in 1..(n - 1) : d[i] = d[j] => i = j
    <2>. SUFFICES ASSUME NEW i \in 1..(n - 1), NEW j \in 1..(n - 1), d[i] = d[j]
                  PROVE  i = j
        OBVIOUS
    <2>. DEFINE x == IF i < k THEN i ELSE i + 1
                y == IF j < k THEN j ELSE j + 1
    <2>1. x \in 1..n /\ y \in 1..n
        BY <1>1, <1>2
    <2>2. order[x] = order[y]
        BY <1>7
    <2>3. x = y
        BY <2>1, <2>2 DEF n
    <2>. QED
        BY <1>1, <1>2, <2>3
<1>. QED
    BY <1>6, <1>8, <1>9 DEF d, n

\* Where the cursor goes from an entry: to another one, if there is one.
LEMMA Following ==
    ASSUME order \in Seq(Addrs), NEW a \in Addrs,
           \E i \in 1..Len(order) : order[i] = a,
           \A i, j \in 1..Len(order) : order[i] = order[j] => i = j
    PROVE  /\ \E i \in 1..Len(order) : order[i] = KvQueue!After(a)
           /\ Len(order) # 1 => KvQueue!After(a) # a
<1>. DEFINE n == Len(order)
            k == KvQueue!At(a)
<1>1. n \in Nat /\ DOMAIN order = 1..n
    BY LenProperties
<1>2. k \in 1..n /\ order[k] = a
    BY <1>1 DEF KvQueue!At
<1>. HIDE DEF n, k
<1>3. k % n = IF k = n THEN 0 ELSE k
    <2>1. k \in Int /\ n \in Int /\ n > 0 /\ 0 <= k /\ k <= n
        BY <1>1, <1>2
    <2>. QED
        BY <2>1
<1>4. (k % n) + 1 \in 1..n /\ (n # 1 => (k % n) + 1 # k)
    BY <1>1, <1>2, <1>3
<1>5. KvQueue!After(a) = order[(k % n) + 1]
    BY DEF KvQueue!After, k, n
<1>. QED
    BY <1>2, <1>4, <1>5 DEF n

-----------------------------------------------------------------------------
(* What a listener of f does to the sockets.                               *)

Sockets == [Fds -> Socket]

LEMMA MaxOfTwo ==
    ASSUME NEW a \in Int, NEW b \in Int
    PROVE  Max({a, b}) = IF a >= b THEN a ELSE b
<1>1. \E x \in {a, b} : \A y \in {a, b} : x >= y
    <2>1. CASE a >= b
        BY <2>1
    <2>2. CASE b >= a
        BY <2>2
    <2>. QED
        BY <2>1, <2>2
<1>2. Max({a, b}) \in {a, b} /\ \A y \in {a, b} : Max({a, b}) >= y
    BY <1>1 DEF Max
<1>. QED
    BY <1>2

LEMMA MinOfTwo ==
    ASSUME NEW a \in Int, NEW b \in Int
    PROVE  Min({a, b}) = IF a <= b THEN a ELSE b
<1>1. \E x \in {a, b} : \A y \in {a, b} : x <= y
    <2>1. CASE a >= b
        BY <2>1
    <2>2. CASE b >= a
        BY <2>2
    <2>. QED
        BY <2>1, <2>2
<1>2. Min({a, b}) \in {a, b} /\ \A y \in {a, b} : Min({a, b}) <= y
    BY <1>1 DEF Min
<1>. QED
    BY <1>2

\* Sockets s have become z, and f is the one whose listener is called: nothing
\* more arrives, who is closed stays closed, only f is stopped, and the WAITING
\* bits of other sources of relays are left alone.
Onward(s, z, f) ==
    /\ z \in Sockets
    /\ \A g \in Fds :
          /\ z[g].eof = s[g].eof /\ z[g].in <= s[g].in
          /\ s[g].status = "closed" => z[g].status = "closed"
          /\ z[g].status = "stopped" => s[g].status = "stopped" \/ g = f
          /\ g # f /\ "relay" \in Kinds[g] => z[g].waiting = s[g].waiting

LEMMA OnwardTwice ==
    ASSUME NEW s \in Sockets, NEW y, NEW z, NEW f, Onward(s, y, f), Onward(y, z, f)
    PROVE  Onward(s, z, f)
<1>1. \A g \in Fds : s[g].in \in Int /\ y[g].in \in Int /\ z[g].in \in Int
    BY SocketsAssumption DEF Onward, Sockets, Socket
<1>2. ASSUME NEW g \in Fds
      PROVE  /\ z[g].eof = s[g].eof /\ z[g].in <= s[g].in
             /\ s[g].status = "closed" => z[g].status = "closed"
             /\ z[g].status = "stopped" => s[g].status = "stopped" \/ g = f
             /\ g # f /\ "relay" \in Kinds[g] => z[g].waiting = s[g].waiting
    <2>1. z[g].eof = s[g].eof /\ z[g].in <= s[g].in
        BY <1>1 DEF Onward
    <2>2. s[g].status = "closed" => z[g].status = "closed"
        BY DEF Onward
    <2>3. z[g].status = "stopped" => s[g].status = "stopped" \/ g = f
        BY DEF Onward
    <2>4. g # f /\ "relay" \in Kinds[g] => z[g].waiting = s[g].waiting
        BY DEF Onward
    <2>. QED
        BY <2>1, <2>2, <2>3, <2>4
<1>. QED
    BY <1>2 DEF Onward

LEMMA OnwardSame ==
    ASSUME NEW s \in Sockets, NEW f
    PROVE  Onward(s, s, f)
<1>1. \A g \in Fds : s[g].in \in Int
    BY SocketsAssumption DEF Sockets, Socket
<1>. QED
    BY <1>1 DEF Onward

\* One socket becomes r.
LEMMA OnwardOne ==
    ASSUME NEW s \in Sockets, NEW f \in Fds, NEW g \in Fds, NEW r \in Socket,
           r.eof = s[g].eof, r.in <= s[g].in, r.status = s[g].status,
           g = f \/ "relay" \notin Kinds[g]
    PROVE  /\ Onward(s, [s EXCEPT ![g] = r], f)
           /\ [s EXCEPT ![g] = r][g] = r
           /\ \A x \in Fds \ {g} : [s EXCEPT ![g] = r][x] = s[x]
<1>1. \A x \in Fds : s[x].in \in Int
    BY SocketsAssumption DEF Sockets, Socket
<1>2. /\ [s EXCEPT ![g] = r] \in Sockets
      /\ [s EXCEPT ![g] = r][g] = r
      /\ \A x \in Fds \ {g} : [s EXCEPT ![g] = r][x] = s[x]
    BY DEF Sockets
<1>. DEFINE z == [s EXCEPT ![g] = r]
<1>. HIDE DEF z
<1>3. ASSUME NEW x \in Fds
      PROVE  /\ z[x].eof = s[x].eof /\ z[x].in <= s[x].in /\ z[x].status = s[x].status
             /\ x # f /\ "relay" \in Kinds[x] => z[x].waiting = s[x].waiting
    <2>1. CASE x = g
        BY <1>2, <2>1 DEF z
    <2>2. CASE x # g
        BY <1>1, <1>2, <2>2 DEF z
    <2>. QED
        BY <2>1, <2>2
<1>. QED
    BY <1>2, <1>3 DEF Onward, z

LEMMA TurnedRight ==
    ASSUME NEW s \in Sockets, NEW fs, NEW from, NEW to \in {"open", "stopped", "closed"}
    PROVE  /\ Turned(s, fs, from, to) \in Sockets
           /\ \A g \in Fds :
                 /\ Turned(s, fs, from, to)[g].eof = s[g].eof
                 /\ Turned(s, fs, from, to)[g].in = s[g].in
                 /\ Turned(s, fs, from, to)[g].room = s[g].room
                 /\ Turned(s, fs, from, to)[g].borrow = s[g].borrow
                 /\ Turned(s, fs, from, to)[g].waiting = s[g].waiting
                 /\ Turned(s, fs, from, to)[g].status =
                       IF g \in fs /\ s[g].status = from THEN to ELSE s[g].status
<1>. DEFINE z == Turned(s, fs, from, to)
<1>1. \A g \in Fds : s[g] \in Socket
    BY DEF Sockets
<1>2. ASSUME NEW g \in Fds
      PROVE  /\ z[g] = IF g \in fs /\ s[g].status = from THEN [s[g] EXCEPT !.status = to] ELSE s[g]
             /\ z[g] \in Socket
    BY <1>1 DEF Turned, Socket
<1>3. z \in Sockets
    BY <1>2 DEF Turned, Sockets
<1>. HIDE DEF z
<1>4. ASSUME NEW g \in Fds
      PROVE  /\ z[g].eof = s[g].eof /\ z[g].in = s[g].in /\ z[g].room = s[g].room
             /\ z[g].borrow = s[g].borrow /\ z[g].waiting = s[g].waiting
             /\ z[g].status = IF g \in fs /\ s[g].status = from THEN to ELSE s[g].status
    BY <1>1, <1>2 DEF Socket
<1>. QED
    BY <1>3, <1>4 DEF z

LEMMA OnwardTurned ==
    ASSUME NEW s \in Sockets, NEW f \in Fds, NEW fs
    PROVE  /\ Onward(s, Shut(s, fs), f) /\ Onward(s, Resumed(s, fs), f) /\ Onward(s, Stop(s, f), f)
           /\ \A g \in Fds :
                 /\ Resumed(s, fs)[g].status = "stopped" => s[g].status = "stopped"
                 /\ Resumed(s, fs)[g].eof = s[g].eof /\ Resumed(s, fs)[g].in = s[g].in
                 /\ Resumed(s, fs)[g].waiting = s[g].waiting
<1>1. \A g \in Fds : s[g].in \in Int
    BY SocketsAssumption DEF Sockets, Socket
<1>2. Onward(s, Shut(s, fs), f)
    BY <1>1, TurnedRight DEF Shut, Onward
<1>3. Onward(s, Resumed(s, fs), f)
    BY <1>1, TurnedRight DEF Resumed, Onward
<1>4. Onward(s, Stop(s, f), f)
    BY <1>1, TurnedRight DEF Stop, Onward
<1>5. ASSUME NEW g \in Fds
      PROVE  /\ Resumed(s, fs)[g].status = "stopped" => s[g].status = "stopped"
             /\ Resumed(s, fs)[g].eof = s[g].eof /\ Resumed(s, fs)[g].in = s[g].in
             /\ Resumed(s, fs)[g].waiting = s[g].waiting
    BY TurnedRight DEF Resumed
<1>. QED
    BY <1>2, <1>3, <1>4, <1>5

\* What the call of listener l leaves, h, with sockets s before it.
HeardRight(s, l, h) ==
    /\ h.at \in {"read", "write", "end"} /\ Onward(s, h.s, l.fd)
    /\ h.at # "end" /\ h.s[l.fd].status = "stopped" => s[l.fd].status = "stopped"
    /\ h.at = "read" => ~Unread(h.s[l.fd])
    /\ h.at = "write" => l.kind = "relay" /\ ~h.s[l.fd].waiting

\* A read that blocks.
LEMMA BlockedRight ==
    ASSUME NEW s \in Sockets, NEW l \in Listener, NEW z, Onward(s, z, l.fd),
           z[l.fd].status = "stopped" => s[l.fd].status = "stopped", ~Unread(z[l.fd])
    PROVE  HeardRight(s, l, Blocked(z, l.fd))
<1>. DEFINE f == l.fd
            r == [z[f] EXCEPT !.waiting = TRUE]
            h == Blocked(z, f)
<1>1. f \in Fds /\ z \in Sockets /\ z[f] \in Socket /\ z[f].in \in Int
    BY SocketsAssumption DEF Onward, Sockets, Socket, Listener
<1>2. /\ r \in Socket /\ r.eof = z[f].eof /\ r.in = z[f].in /\ r.status = z[f].status
    BY <1>1 DEF Socket
<1>3. h.at = "read" /\ h.s = [z EXCEPT ![f] = r]
    BY DEF Blocked, Goes
<1>. HIDE DEF f, r, h
<1>4. Onward(z, h.s, f) /\ h.s[f] = r
    BY <1>1, <1>2, <1>3, OnwardOne
<1>5. Onward(s, h.s, f)
    BY <1>4, OnwardTwice DEF f
<1>. QED
    BY <1>2, <1>3, <1>4, <1>5 DEF HeardRight, Unread, f, h

LEMMA LeavesRight ==
    ASSUME NEW s \in Sockets, NEW l \in Listener, NEW z, Onward(s, z, l.fd)
    PROVE  HeardRight(s, l, Leaves(z))
    BY DEF HeardRight, Leaves, Goes

LEMMA OnceRight ==
    ASSUME NEW s \in Sockets, NEW l \in Listener
    PROVE  HeardRight(s, l, Once(s, l))
<1>. DEFINE f == l.fd
            d == s[f]
<1>1. f \in Fds /\ d \in Socket /\ d.in \in 0..MaxIn
    BY DEF Sockets, Socket, Listener
<1>2. CASE d.borrow = 1 \/ ~Available(d)
    BY <1>2, OnwardSame, LeavesRight DEF Once
<1>3. CASE ~(d.borrow = 1 \/ ~Available(d)) /\ ~Unread(d)
    BY <1>3, OnwardSame, BlockedRight DEF Once
<1>4. CASE ~(d.borrow = 1 \/ ~Available(d)) /\ Unread(d)
    <2>1. PICK i \in 0..MaxIn, b \in 0..1 : i = Max({0, d.in - 1}) /\ b = Min({1, d.in}) /\ i <= d.in
        <3>1. d.in \in Int /\ MaxIn \in Int /\ 0 \in Int /\ 1 \in Int /\ d.in - 1 \in Int
            BY <1>1, SocketsAssumption
        <3>2. Max({0, d.in - 1}) = (IF 0 >= d.in - 1 THEN 0 ELSE d.in - 1)
            BY <3>1, MaxOfTwo
        <3>3. Min({1, d.in}) = (IF 1 <= d.in THEN 1 ELSE d.in)
            BY <3>1, MinOfTwo
        <3>. QED
            BY <1>1, <3>1, <3>2, <3>3
    <2>. DEFINE r == [d EXCEPT !.in = i, !.borrow = b, !.waiting = FALSE]
    <2>2. r \in Socket /\ r.eof = d.eof /\ r.in = i /\ r.status = d.status
        BY <1>1 DEF Socket
    <2>3. Once(s, l) = Leaves([s EXCEPT ![f] = r])
        BY <1>1, <1>4, <2>1 DEF Once, Sockets
    <2>. HIDE DEF r, f
    <2>4. Onward(s, [s EXCEPT ![f] = r], f)
        BY <1>1, <2>1, <2>2, OnwardOne
    <2>. QED
        BY <2>3, <2>4, LeavesRight DEF f
<1>. QED
    BY <1>2, <1>3, <1>4

LEMMA BegunRight ==
    ASSUME NEW s \in Sockets, NEW l, NEW fs, NEW f \in Fds
    PROVE  Onward(s, Begun(s, l, fs), f) /\ Begun(s, l, fs) \in Sockets
<1>1. CASE l.at = "start"
    BY <1>1, OnwardTurned DEF Begun, Onward
<1>2. CASE l.at # "start"
    BY <1>2, OnwardSame DEF Begun
<1>. QED
    BY <1>1, <1>2

LEMMA BegunSame ==
    ASSUME NEW s \in Sockets, NEW l, NEW fs, NEW f \in Fds
    PROVE  /\ Begun(s, l, fs)[f].waiting = s[f].waiting
           /\ Begun(s, l, fs)[f].status = "stopped" => s[f].status = "stopped"
<1>1. CASE l.at = "start"
    BY <1>1, OnwardTurned DEF Begun
<1>2. CASE l.at # "start"
    BY <1>2 DEF Begun
<1>. QED
    BY <1>1, <1>2

LEMMA PipeRight ==
    ASSUME NEW s \in Sockets, NEW l \in Listener
    PROVE  HeardRight(s, l, Pipe(s, l))
<1>. DEFINE f == l.fd
            t == Begun(s, l, {f})
            d == t[f]
<1>1. f \in Fds
    BY DEF Listener
<1>2. Onward(s, t, f) /\ t \in Sockets
    BY <1>1, BegunRight
<1>3. d \in Socket /\ d.in \in 0..MaxIn /\ 0 \in 0..MaxIn /\ d.borrow \in 0..1
    <2>1. d \in Socket
        BY <1>1, <1>2 DEF Sockets
    <2>. HIDE DEF d
    <2>2. d.in \in 0..MaxIn /\ d.borrow \in 0..1
        BY <2>1 DEF Socket
    <2>3. 0 \in 0..MaxIn
        BY SocketsAssumption
    <2>. QED
        BY <2>1, <2>2, <2>3
<1>4. CASE ~Available(d)
    BY <1>2, <1>4, LeavesRight DEF Pipe
<1>5. CASE Available(d) /\ d.eof
    <2>. DEFINE r == [d EXCEPT !.in = 0, !.waiting = FALSE]
                y == [t EXCEPT ![f] = r]
    <2>1. r \in Socket /\ r.eof = d.eof /\ r.in <= d.in /\ r.status = d.status
        <3>. HIDE DEF d
        <3>1. r \in Socket /\ r.eof = d.eof /\ r.in = 0 /\ r.status = d.status
            BY <1>3 DEF Socket
        <3>2. 0 <= d.in
            BY <1>3
        <3>. QED
            BY <3>1, <3>2
    <2>2. Pipe(s, l) = Leaves(Stop(y, f))
        BY <1>1, <1>2, <1>5 DEF Pipe, Sockets
    <2>. HIDE DEF t, f, r
    <2>3. Onward(t, y, f) /\ y \in Sockets
        BY <1>1, <1>2, <2>1, OnwardOne DEF Onward
    <2>. HIDE DEF y
    <2>4. Onward(y, Stop(y, f), f)
        BY <1>1, <2>3, OnwardTurned
    <2>5. Onward(s, Stop(y, f), f)
        BY <1>2, <2>3, <2>4, OnwardTwice
    <2>. QED
        BY <2>2, <2>5, LeavesRight DEF f
<1>6. CASE Available(d) /\ ~d.eof
    <2>. DEFINE b == IF l.at = "read" /\ d.in = 0 THEN d.borrow ELSE 0
                r == [d EXCEPT !.in = 0, !.borrow = b]
                y == [t EXCEPT ![f] = r]
    <2>1. b \in 0..1
        BY <1>3
    <2>2. r \in Socket /\ r.eof = d.eof /\ r.in = 0 /\ r.in <= d.in /\ r.status = d.status
        <3>. HIDE DEF d, b
        <3>1. r \in Socket /\ r.eof = d.eof /\ r.in = 0 /\ r.status = d.status
            BY <1>3, <2>1 DEF Socket
        <3>2. 0 <= d.in
            BY <1>3
        <3>. QED
            BY <3>1, <3>2
    <2>3. Pipe(s, l) = Blocked(y, f)
        BY <1>1, <1>2, <1>6 DEF Pipe, Sockets
    <2>. HIDE DEF t, f, r, b
    <2>4. Onward(t, y, f) /\ y[f] = r
        BY <1>1, <1>2, <2>2, OnwardOne
    <2>. HIDE DEF y
    <2>5. Onward(s, y, f)
        BY <1>2, <2>4, OnwardTwice
    <2>6. ~Unread(y[f]) /\ y[f].status = "open"
        BY <1>6, <2>2, <2>4 DEF Unread, Available
    <2>. QED
        BY <2>3, <2>5, <2>6, BlockedRight DEF f
<1>. QED
    BY <1>4, <1>5, <1>6

LEMMA EndsRight ==
    ASSUME NEW s \in Sockets, NEW z, NEW f \in Fds, NEW fs, NEW c \in BOOLEAN, Onward(s, z, f)
    PROVE  Onward(s, Shut(IF c THEN Stop(z, f) ELSE z, fs), f)
<1>1. z \in Sockets
    BY DEF Onward
<1>2. PICK y : y = IF c THEN Stop(z, f) ELSE z
    OBVIOUS
<1>3. Onward(z, y, f) /\ y \in Sockets
    BY <1>1, <1>2, OnwardTurned, OnwardSame DEF Onward
<1>4. Onward(s, y, f)
    BY <1>3, OnwardTwice
<1>5. Onward(y, Shut(y, fs), f)
    BY <1>3, OnwardTurned
<1>6. Onward(s, Shut(y, fs), f)
    BY <1>4, <1>5, OnwardTwice
<1>. QED
    BY <1>2, <1>6

LEMMA RelayRight ==
    ASSUME Plainly, NEW s \in Sockets, NEW l \in Listener, l.kind = "relay",
           "relay" \in Kinds[l.fd], l.at = "write" => ~s[l.fd].waiting
    PROVE  HeardRight(s, l, Relay(s, l))
<1>0. ASSUME NEW fs
      PROVE  /\ Begun(s, l, fs)[l.fd].waiting = s[l.fd].waiting
             /\ Begun(s, l, fs)[l.fd].status = "stopped" => s[l.fd].status = "stopped"
    BY BegunSame DEF Listener
<1>. DEFINE f     == l.fd
            g     == Out[f]
            t     == Begun(s, l, {f, g})
            d     == t[f]
            up    == Available(d)
            held  == IF l.at = "write" THEN 1 ELSE 0
            todo  == held + (IF up THEN d.in ELSE 0)
            moved == Min({todo, t[g].room})
            left  == d.in + held - moved - 1
            sent  == [t EXCEPT ![g].room = @ - moved, ![g].waiting = @ /\ moved = 0]
            dry   == IF up THEN [sent EXCEPT ![f].in = 0] ELSE sent
            Ends(z) == Leaves(Shut(IF z[f].eof /\ z[f].in = 0 THEN Stop(z, f) ELSE z, {f, g}))
<1>1. f \in Fds /\ g \in Fds /\ g # f /\ "relay" \notin Kinds[g]
    BY SocketsAssumption, KernelAssumption DEF Plainly, Listener
<1>2. /\ Relay(s, l) =
            IF Available(t[g])
            THEN IF moved < todo THEN Hold(sent, f, g, left)
                 ELSE IF up /\ ~d.eof THEN Blocked(dry, f)
                 ELSE Ends(dry)
            ELSE IF l.at # "read" THEN Leaves(Shut(t, {f, g}))
            ELSE IF up /\ ~Unread(d) THEN Blocked(t, f)
            ELSE Ends(t)
    BY DEF Relay
<1>3. /\ Onward(s, t, f) /\ t \in Sockets /\ d.waiting = s[f].waiting
      /\ d.status = "stopped" => s[f].status = "stopped"
    <2>1. Onward(s, t, f) /\ t \in Sockets
        BY <1>1, BegunRight
    <2>2. d.waiting = s[f].waiting /\ (d.status = "stopped" => s[f].status = "stopped")
        BY <1>0
    <2>. QED
        BY <2>1, <2>2
<1>. HIDE DEF t
<1>4. /\ d \in Socket /\ d.in \in 0..MaxIn /\ t[g] \in Socket /\ t[g].room \in 0..MaxRoom
      /\ MaxIn \in Nat /\ MaxRoom \in Nat
    BY <1>1, <1>3, SocketsAssumption DEF Sockets, Socket
<1>5. held \in 0..1 /\ todo \in Nat /\ todo <= held + d.in
    BY <1>4
<1>6. moved \in Nat /\ moved <= todo /\ moved <= t[g].room
    <2>1. moved = IF todo <= t[g].room THEN todo ELSE t[g].room
        BY <1>4, <1>5, MinOfTwo
    <2>. QED
        BY <1>4, <1>5, <2>1
<1>7. Onward(t, sent, f) /\ sent \in Sockets /\ sent[f] = d
    <2>1. PICK x \in 0..MaxRoom, w \in BOOLEAN :
              x = t[g].room - moved /\ w = (t[g].waiting /\ moved = 0)
        <3>1. t[g].room - moved \in 0..MaxRoom
            BY <1>4, <1>6
        <3>. QED
            BY <3>1
    <2>. DEFINE r == [t[g] EXCEPT !.room = x, !.waiting = w]
    <2>2. r \in Socket /\ r.eof = t[g].eof /\ r.in = t[g].in /\ r.status = t[g].status
        BY <1>4 DEF Socket
    <2>3. r.in <= t[g].in
        BY <1>4, <2>2 DEF Socket
    <2>4. sent = [t EXCEPT ![g] = r]
        BY <1>1, <1>3, <2>1 DEF Sockets
    <2>. HIDE DEF r, sent, f, g
    <2>5. Onward(t, [t EXCEPT ![g] = r], f) /\ [t EXCEPT ![g] = r][f] = t[f]
        BY <1>1, <1>3, <2>2, <2>3, OnwardOne
    <2>. QED
        BY <2>4, <2>5 DEF Onward, f
<1>8. Onward(s, sent, f)
    BY <1>3, <1>7, OnwardTwice
<1>9. Onward(s, dry, f) /\ (up => dry[f].in = 0 /\ dry[f].eof = d.eof /\ dry[f].status = d.status)
    <2>1. CASE up
        <3>. DEFINE r == [d EXCEPT !.in = 0]
        <3>1. r \in Socket /\ r.eof = d.eof /\ r.in = 0 /\ r.in <= d.in /\ r.status = d.status
            <4>. HIDE DEF d
            <4>1. r \in Socket /\ r.eof = d.eof /\ r.in = 0 /\ r.status = d.status
                BY <1>4 DEF Socket
            <4>2. 0 <= d.in
                BY <1>4
            <4>. QED
                BY <4>1, <4>2
        <3>2. dry = [sent EXCEPT ![f] = r]
            <4>. HIDE DEF sent, d, f
            <4>. QED
                BY <1>1, <1>7, <2>1 DEF Sockets
        <3>. HIDE DEF r, sent, f, d, dry
        <3>3. Onward(sent, [sent EXCEPT ![f] = r], f) /\ [sent EXCEPT ![f] = r][f] = r
            BY SMTT(60), <1>1, <1>7, <3>1, OnwardOne
        <3>. QED
            BY <1>8, <3>1, <3>2, <3>3, OnwardTwice
    <2>2. CASE ~up
        BY <1>8, <2>2
    <2>. QED
        BY ZenonT(30), <2>1, <2>2
<1>10. CASE Available(t[g]) /\ moved < todo
    <2>1. left \in 0..MaxIn /\ left <= d.in /\ (left = d.in => l.at = "write")
        <3>1. CASE up
            BY <1>4, <1>5, <1>6, <1>10, <3>1
        <3>2. CASE ~up
            BY <1>4, <1>5, <1>6, <1>10, <3>2
        <3>. QED
            BY <3>1, <3>2
    <2>2. PICK k \in 0..MaxIn, w \in BOOLEAN : k = left /\ w = (d.waiting /\ d.in = left)
        BY <2>1
    <2>3. ~w
        BY <1>3, <2>1, <2>2
    <2>. DEFINE r == [d EXCEPT !.in = k, !.waiting = w]
                y == [sent EXCEPT ![f] = r]
                q == [y[g] EXCEPT !.waiting = TRUE]
    <2>4. /\ r \in Socket /\ r.eof = d.eof /\ r.in = k /\ r.status = d.status /\ r.waiting = w
          /\ r.in <= d.in
        <3>. HIDE DEF d
        <3>1. /\ r \in Socket /\ r.eof = d.eof /\ r.in = k /\ r.status = d.status
              /\ r.waiting = w
            BY <1>4 DEF Socket
        <3>. QED
            BY <2>1, <2>2, <3>1
    <2>5. Relay(s, l) = Goes([y EXCEPT ![g] = q], "write")
        <3>1. Relay(s, l) = Hold(sent, f, g, left)
            BY <1>2, <1>10
        <3>2. [sent EXCEPT ![f].in = left, ![f].waiting = @ /\ sent[f].in = left,
                           ![g].waiting = TRUE] =
              [sent EXCEPT ![f].in = k, ![f].waiting = w, ![g].waiting = TRUE]
            <4>1. k = left /\ w = (sent[f].waiting /\ sent[f].in = left)
                BY <1>7, <2>2
            <4>. HIDE DEF f, g, sent, left
            <4>. QED
                BY SMTT(60), <4>1
        <3>3. [sent EXCEPT ![f].in = k, ![f].waiting = w, ![g].waiting = TRUE] = [y EXCEPT ![g] = q]
            <4>. HIDE DEF f, g, sent, d
            <4>1. y = [sent EXCEPT ![f].in = k, ![f].waiting = w]
                BY <1>1, <1>7 DEF Sockets
            <4>. QED
                BY <1>1, <1>7, <4>1 DEF Sockets
        <3>4. Hold(sent, f, g, left) =
                 Goes([sent EXCEPT ![f].in = left, ![f].waiting = @ /\ sent[f].in = left,
                                   ![g].waiting = TRUE], "write")
            <4>. HIDE DEF f, g, sent, left
            <4>. QED
                BY DEF Hold
        <3>. HIDE DEF f, g, sent, left, y, q
        <3>. QED
            BY <3>1, <3>2, <3>3, <3>4
    <2>. HIDE DEF r, f, g, sent, d
    <2>6. Onward(sent, y, f) /\ y \in Sockets /\ y[f] = r
        BY <1>1, <1>7, <2>4, OnwardOne DEF Onward
    <2>. HIDE DEF y
    <2>7. y[g] \in Socket /\ y[g].in \in Int
        BY <1>1, <2>6, SocketsAssumption DEF Sockets, Socket
    <2>8. q \in Socket /\ q.eof = y[g].eof /\ q.in = y[g].in /\ q.in <= y[g].in /\ q.status = y[g].status
        <3>1. q \in Socket /\ q.eof = y[g].eof /\ q.in = y[g].in /\ q.status = y[g].status
            BY <2>7 DEF Socket
        <3>. QED
            BY <2>7, <3>1
    <2>. HIDE DEF q
    <2>9. Onward(y, [y EXCEPT ![g] = q], f) /\ [y EXCEPT ![g] = q][f] = r
        BY <1>1, <2>6, <2>8, OnwardOne
    <2>10. Onward(s, [y EXCEPT ![g] = q], f)
        BY <1>8, <2>6, <2>9, OnwardTwice
    <2>. QED
        BY <1>3, <2>3, <2>4, <2>5, <2>9, <2>10 DEF HeardRight, Goes, f
<1>11. CASE Available(t[g]) /\ ~(moved < todo) /\ up /\ ~d.eof
    <2>1. Relay(s, l) = Blocked(dry, f)
        BY ZenonT(30), <1>2, <1>11
    <2>. HIDE DEF dry
    <2>2. ~Unread(dry[f]) /\ dry[f].status = "open"
        <3>1. dry[f].in = 0 /\ dry[f].eof = d.eof /\ dry[f].status = d.status
            BY <1>9, <1>11
        <3>2. d.status = "open" /\ ~d.eof
            BY <1>11 DEF Available
        <3>. QED
            BY <3>1, <3>2 DEF Unread
    <2>3. dry[f].status = "stopped" => s[f].status = "stopped"
        BY <2>2
    <2>4. Onward(s, dry, f)
        BY <1>9
    <2>. QED
        BY ZenonT(30), <2>1, <2>2, <2>3, <2>4, BlockedRight
<1>12. CASE Available(t[g]) /\ ~(moved < todo) /\ ~(up /\ ~d.eof)
    <2>1. Relay(s, l) = Ends(dry)
        BY ZenonT(30), <1>2, <1>12
    <2>. HIDE DEF dry
    <2>2. Onward(s, Shut(IF dry[f].eof /\ dry[f].in = 0 THEN Stop(dry, f) ELSE dry, {f, g}), f)
        <3>1. PICK c \in BOOLEAN : c = (dry[f].eof /\ dry[f].in = 0)
            OBVIOUS
        <3>2. Onward(s, Shut(IF c THEN Stop(dry, f) ELSE dry, {f, g}), f)
            BY <1>1, <1>9, EndsRight
        <3>. HIDE DEF f, g
        <3>. QED
            BY ZenonT(30), <3>1, <3>2
    <2>. QED
        BY ZenonT(60), <2>1, <2>2, LeavesRight
<1>13. CASE ~Available(t[g]) /\ l.at # "read"
    <2>1. Onward(t, Shut(t, {f, g}), f)
        BY <1>1, <1>3, OnwardTurned
    <2>2. Onward(s, Shut(t, {f, g}), f)
        BY <1>3, <2>1, OnwardTwice
    <2>. QED
        BY <1>2, <1>13, <2>2, LeavesRight
<1>14. CASE ~Available(t[g]) /\ l.at = "read" /\ up /\ ~Unread(d)
    BY <1>2, <1>3, <1>14, BlockedRight
<1>15. CASE ~Available(t[g]) /\ l.at = "read" /\ ~(up /\ ~Unread(d))
    <2>1. Onward(s, Shut(IF t[f].eof /\ t[f].in = 0 THEN Stop(t, f) ELSE t, {f, g}), f)
        BY <1>1, <1>3, EndsRight
    <2>. QED
        BY <1>2, <1>15, <2>1, LeavesRight
<1>. QED
    BY <1>10, <1>11, <1>12, <1>13, <1>14, <1>15

\* What every call of a listener does.
LEMMA HeardIsRight ==
    ASSUME Plainly, NEW s \in Sockets, NEW l \in Listener, l.kind \in Kinds[l.fd],
           l.at = "write" => ~s[l.fd].waiting
    PROVE  HeardRight(s, l, Heard(s, l))
<1>1. l.kind \in KINDS
    BY DEF Listener
<1>2. CASE l.kind = "once"
    BY <1>2, OnceRight DEF Heard
<1>3. CASE l.kind = "pipe"
    BY <1>3, PipeRight DEF Heard
<1>4. CASE l.kind = "relay"
    BY <1>4, RelayRight DEF Heard
<1>. QED
    BY <1>1, <1>2, <1>3, <1>4 DEF KINDS

-----------------------------------------------------------------------------
(* An emission on an entry without listeners, and with one.                *)

LEMMA EmissionNone ==
    ASSUME NEW s, NEW b, Len(b) = 0
    PROVE  Emission(s, b) = [s |-> s, ears |-> <<>>]
<1>. DEFINE Step(g, i) ==
                IF i = 0 THEN [s |-> s, ears |-> <<>>]
                ELSE [s    |-> Heard(g[i - 1].s, b[i]).s,
                      ears |-> IF Heard(g[i - 1].s, b[i]).at = "end" THEN g[i - 1].ears
                               ELSE Append(g[i - 1].ears,
                                           [b[i] EXCEPT !.at = Heard(g[i - 1].s, b[i]).at])]
            e == CHOOSE g : g = [i \in 0..Len(b) |-> Step(g, i)]
<1>1. Emission(s, b) = e[Len(b)]
    BY DEF Emission
<1>. DEFINE z == [i \in 0..Len(b) |-> [s |-> s, ears |-> <<>>]]
<1>2. z = [i \in 0..Len(b) |-> Step(z, i)]
    <2>1. \A i \in 0..Len(b) : i = 0
        OBVIOUS
    <2>. QED
        BY <2>1
<1>3. e = [i \in 0..Len(b) |-> Step(e, i)]
    <2>. HIDE DEF Step, z
    <2>. QED
        BY <1>2
<1>. HIDE DEF e
<1>4. e[0] = [s |-> s, ears |-> <<>>]
    <2>1. 0 \in 0..Len(b)
        OBVIOUS
    <2>2. e[0] = Step(e, 0)
        <3>. HIDE DEF Step
        <3>. QED
            BY <1>3, <2>1
    <2>. QED
        BY <2>2
<1>. QED
    BY <1>1, <1>4

LEMMA EmissionOne ==
    ASSUME NEW s, NEW b, Len(b) = 1
    PROVE  Emission(s, b) =
              [s    |-> Heard(s, b[1]).s,
               ears |-> IF Heard(s, b[1]).at = "end" THEN <<>>
                        ELSE Append(<<>>, [b[1] EXCEPT !.at = Heard(s, b[1]).at])]
<1>. DEFINE Step(g, i) ==
                IF i = 0 THEN [s |-> s, ears |-> <<>>]
                ELSE [s    |-> Heard(g[i - 1].s, b[i]).s,
                      ears |-> IF Heard(g[i - 1].s, b[i]).at = "end" THEN g[i - 1].ears
                               ELSE Append(g[i - 1].ears,
                                           [b[i] EXCEPT !.at = Heard(g[i - 1].s, b[i]).at])]
            e == CHOOSE g : g = [i \in 0..Len(b) |-> Step(g, i)]
            none == [s |-> s, ears |-> <<>>]
            one == [s    |-> Heard(s, b[1]).s,
                    ears |-> IF Heard(s, b[1]).at = "end" THEN <<>>
                             ELSE Append(<<>>, [b[1] EXCEPT !.at = Heard(s, b[1]).at])]
<1>1. Emission(s, b) = e[Len(b)]
    BY SMTT(60) DEF Emission
<1>. DEFINE z == [i \in 0..Len(b) |-> IF i = 0 THEN none ELSE one]
<1>2. z = [i \in 0..Len(b) |-> Step(z, i)]
    <2>1. z[0] = none
        <3>. HIDE DEF none, one
        <3>. QED
            OBVIOUS
    <2>2. Step(z, 0) = none
        OBVIOUS
    <2>3. Step(z, 1) = one
        <3>1. 1 - 1 = 0 /\ 1 # 0
            OBVIOUS
        <3>2. z[0].s = s /\ z[0].ears = <<>>
            BY <2>1
        <3>. HIDE DEF z
        <3>. QED
            BY <3>1, <3>2
    <2>4. \A i \in 0..Len(b) : (i = 0 \/ i = 1)
        OBVIOUS
    <2>5. \A i \in 0..Len(b) : (IF i = 0 THEN none ELSE one) = Step(z, i)
        <3>. HIDE DEF Step, none, one, z
        <3>. QED
            BY <2>2, <2>3, <2>4
    <2>6. z = [i \in 0..Len(b) |-> IF i = 0 THEN none ELSE one]
        OBVIOUS
    <2>. HIDE DEF Step, none, one, z
    <2>. QED
        BY ZenonT(30), <2>5, <2>6
<1>3. e = [i \in 0..Len(b) |-> Step(e, i)]
    <2>. HIDE DEF Step, z
    <2>. QED
        BY <1>2
<1>. HIDE DEF e
<1>4. e[0] = Step(e, 0) /\ e[1] = Step(e, 1)
    <2>1. 0 \in 0..Len(b) /\ 1 \in 0..Len(b)
        OBVIOUS
    <2>. HIDE DEF Step
    <2>. QED
        BY <1>3, <2>1
<1>5. e[0].s = s /\ e[0].ears = <<>>
    BY <1>4
<1>6. 1 - 1 = 0 /\ 1 # 0
    OBVIOUS
<1>7. e[1] = one
    BY <1>4, <1>5, <1>6
<1>. QED
    BY <1>1, <1>7

\* What an emission does to the sockets and leaves of the listeners of f: who
\* did not block in a write has read everything.
LEMMA EmissionRight ==
    ASSUME Plainly, NEW s \in Sockets, NEW f \in Fds, NEW b \in Seq(Listener), EarsFor(b, s, f),
           NEW e, e = Emission(s, b)
    PROVE  /\ Onward(s, e.s, f) /\ e.ears \in Seq(Listener) /\ EarsFor(e.ears, e.s, f)
           /\ e.ears # <<>> => b # <<>>
           /\ e.ears # <<>> /\ e.ears[1].at # "write" => ~Unread(e.s[f])
<1>1. CASE Len(b) = 0
    <2>1. e.s = s /\ e.ears = <<>>
        BY <1>1, EmissionNone
    <2>2. Onward(s, s, f)
        BY OnwardSame
    <2>3. <<>> \in Seq(Listener) /\ EarsFor(<<>>, s, f)
        BY DEF EarsFor
    <2>. QED
        BY <2>1, <2>2, <2>3
<1>2. CASE Len(b) = 1
    <2>1. PICK l : l = b[1]
        OBVIOUS
    <2>2. l \in Listener /\ b # <<>>
        BY SMTT(30), <1>2, <2>1, ElementOfSeq, EmptySeq
    <2>3. /\ l.fd = f /\ l.kind \in Kinds[f] /\ s[f].status # "stopped"
          /\ l.at = "write" => ~s[f].waiting
        BY <2>1, <2>2 DEF EarsFor
    <2>4. PICK h : h = Heard(s, l)
        OBVIOUS
    <2>5. HeardRight(s, l, h)
        BY <2>2, <2>3, <2>4, HeardIsRight
    <2>6. Onward(s, h.s, f)
        BY <2>3, <2>5 DEF HeardRight
    <2>7. e = [s |-> h.s, ears |-> IF h.at = "end" THEN <<>> ELSE Append(<<>>, [l EXCEPT !.at = h.at])]
        BY <1>2, <2>1, <2>4, EmissionOne
    <2>8. CASE h.at = "end"
        <3>1. e.s = h.s /\ e.ears = <<>>
            BY <2>7, <2>8
        <3>2. <<>> \in Seq(Listener) /\ EarsFor(<<>>, h.s, f)
            BY DEF EarsFor
        <3>. QED
            BY <2>6, <3>1, <3>2
    <2>9. CASE h.at # "end"
        <3>1. PICK m : m = [l EXCEPT !.at = h.at]
            OBVIOUS
        <3>2. h.at \in {"read", "write"}
            BY <2>5, <2>9 DEF HeardRight
        <3>3. m \in Listener /\ m.fd = l.fd /\ m.kind = l.kind /\ m.at = h.at
            BY <2>2, <3>1, <3>2 DEF Listener
        <3>4. e.s = h.s /\ e.ears = Append(<<>>, m)
            BY <2>7, <2>9, <3>1
        <3>5. e.ears \in Seq(Listener) /\ Len(e.ears) = 1 /\ e.ears[1] = m
            BY <3>3, <3>4
        <3>6. h.at = "read" => ~Unread(h.s[f])
            BY <2>3, <2>5 DEF HeardRight
        <3>7. h.at = "write" => l.kind = "relay" /\ ~h.s[f].waiting
            BY <2>3, <2>5 DEF HeardRight
        <3>8. h.s[f].status # "stopped"
            BY <2>3, <2>5, <2>9 DEF HeardRight
        <3>9. EarsFor(e.ears, e.s, f)
            BY <2>3, <3>3, <3>4, <3>5, <3>7, <3>8 DEF EarsFor
        <3>10. e.ears # <<>> /\ e.ears[1].at # "write" => ~Unread(e.s[f])
            BY <3>2, <3>3, <3>4, <3>5, <3>6
        <3>. QED
            BY <2>2, <2>6, <3>4, <3>5, <3>9, <3>10
    <2>. QED
        BY <2>8, <2>9
<1>3. PICK n \in Nat : n = Len(b)
    BY LenProperties
<1>4. n = 0 \/ n = 1
    <2>1. n <= 1
        BY <1>3 DEF EarsFor
    <2>. QED
        BY <2>1
<1>. QED
    BY <1>1, <1>2, <1>3, <1>4

-----------------------------------------------------------------------------
(* What the steps keep.                                                    *)

\* What is there to be read was there before.
LEMMA UnreadBefore ==
    ASSUME NEW s \in Sockets, NEW f, NEW z, Onward(s, z, f), NEW g \in Fds
    PROVE  /\ Unread(z[g]) => Unread(s[g])
           /\ s[g].status # "stopped" /\ Available(z[g]) => Available(s[g])
<1>1. z[g].in \in Nat /\ s[g].in \in Nat /\ z[g].eof = s[g].eof /\ z[g].in <= s[g].in
    <2>1. z[g] \in Socket /\ s[g] \in Socket
        BY DEF Onward, Sockets
    <2>2. z[g].in \in Nat /\ s[g].in \in Nat
        BY <2>1, SocketsAssumption DEF Socket
    <2>. QED
        BY <2>2 DEF Onward
<1>2. Unread(z[g]) => Unread(s[g])
    BY <1>1 DEF Unread
<1>3. s[g].status \in {"open", "stopped", "closed"} /\ (s[g].status = "closed" => z[g].status = "closed")
    BY DEF Onward, Sockets, Socket
<1>. QED
    BY <1>2, <1>3 DEF Available

\* The other entries when listeners of a were called.
LEMMA OthersKeep ==
    ASSUME Core, NEW a \in Live, NEW z, Onward(sock, z, fdOf[a]), NEW b \in Live, b # a
    PROVE  /\ EarsFor(ears[b], z, fdOf[b])
           /\ ears[b] # <<>> /\ Available(z[fdOf[b]]) /\ Unread(z[fdOf[b]]) =>
                 b \in armed \/ b \in batch \/ b \in used
<1>1. /\ fdOf[a] \in Fds /\ fdOf[b] \in Fds /\ sock \in Sockets
      /\ EarsFor(ears[b], sock, fdOf[b]) /\ Told(b)
    BY DEF Core, Typed, Live, EarOK, Sockets
<1>2. fdOf[b] # fdOf[a]
    BY <1>1 DEF Core, Known
<1>3. PICK f : f = fdOf[b]
    OBVIOUS
<1>4. /\ z[f].status = "stopped" => sock[f].status = "stopped"
      /\ "relay" \in Kinds[f] => z[f].waiting = sock[f].waiting
    BY <1>1, <1>2, <1>3 DEF Onward
<1>5. EarsFor(ears[b], z, f)
    BY <1>1, <1>3, <1>4 DEF EarsFor
<1>6. ASSUME ears[b] # <<>>, Available(z[f]), Unread(z[f])
      PROVE  b \in armed \/ b \in batch \/ b \in used
    <2>1. sock[f].status # "stopped"
        BY <1>1, <1>3, <1>6 DEF EarsFor
    <2>2. Available(sock[f]) /\ Unread(sock[f])
        BY <1>1, <1>3, <1>6, <2>1, UnreadBefore
    <2>. QED
        BY <1>1, <1>3, <1>6, <2>2 DEF Told
<1>. QED
    BY <1>3, <1>5, <1>6

\* Nothing forgets what epoll said of an entry.
Forwards ==
    /\ batch' \subseteq Addrs \cup {Bell} /\ (\A b \in Addrs : b \in batch => b \in batch')
    /\ phase' \in {"loop", "wait", "deliver"}
    /\ UNCHANGED pd

\* An entry goes.
LEMMA Removed ==
    ASSUME Core, NEW a \in Live, NEW c \in Live \cup {Nil}, Remove(a, c),
           Onward(sock, sock', fdOf[a]), Forwards,
           jobs' \in [Addrs -> Nat], \A b \in Addrs \ {a} : jobs'[b] = jobs[b]
    PROVE  Core'
<1>. USE DEF Forwards
<1>1. a \in Addrs /\ Live' = Live \ {a} /\ \A b \in Live' : b \in Addrs /\ b # a /\ fdOf'[b] = fdOf[b]
    BY DEF Remove, Live, Core, Typed
<1>2. /\ order \in Seq(Addrs) /\ (\E i \in 1..Len(order) : order[i] = a)
      /\ \A i, j \in 1..Len(order) : order[i] = order[j] => i = j
    BY DEF Core, Typed, Listed
<1>3. PICK d : d = KvQueue!Drop(a)
    OBVIOUS
<1>4. /\ d \in Seq(Addrs) /\ \A i, j \in 1..Len(d) : d[i] = d[j] => i = j
      /\ \A x : (\E j \in 1..Len(d) : d[j] = x) <=> x # a /\ \E i \in 1..Len(order) : order[i] = x
    <2>1. /\ KvQueue!Drop(a) \in Seq(Addrs)
          /\ \A i, j \in 1..Len(KvQueue!Drop(a)) :
                KvQueue!Drop(a)[i] = KvQueue!Drop(a)[j] => i = j
        BY <1>1, <1>2, Dropped
    <2>2. \A x : (\E j \in 1..Len(KvQueue!Drop(a)) : KvQueue!Drop(a)[j] = x)
                 <=> x # a /\ \E i \in 1..Len(order) : order[i] = x
        BY <1>1, <1>2, Dropped
    <2>. QED
        BY <1>3, <2>1, <2>2
<1>5. Typed'
    <2>1. sock' \in [Fds -> Socket]
        BY DEF Onward, Sockets
    <2>2. order' \in Seq(Addrs)
        BY <1>3, <1>4 DEF Remove
    <2>3. fdOf' \in [Addrs -> Fds \cup {Nil}]
        BY DEF Remove, Core, Typed
    <2>4. ears' \in [Addrs -> Seq(Listener)]
        <3>1. <<>> \in Seq(Listener)
            OBVIOUS
        <3>. QED
            BY <3>1 DEF Remove, Core, Typed
    <2>5. used' \subseteq Live' /\ armed' \subseteq Live'
        BY <1>1 DEF Remove, Core, Typed
    <2>. QED
        BY <2>1, <2>2, <2>3, <2>4, <2>5 DEF Core, Typed
<1>6. Listed'
    <2>1. order' = d
        BY <1>3 DEF Remove
    <2>2. \A x \in Live' : \E i \in 1..Len(d) : d[i] = x
        BY <1>1, <1>4 DEF Core, Listed
    <2>3. \A i \in 1..Len(d) : d[i] \in Live'
        BY <1>1, <1>4 DEF Core, Listed
    <2>4. act' \in Live' \cup {Nil}
        <3>1. CASE c # a
            BY <1>1, <3>1 DEF Remove
        <3>2. CASE c = a /\ Len(order) = 1
            BY <3>2 DEF Remove
        <3>3. CASE c = a /\ Len(order) # 1
            <4>1. act' = KvQueue!After(a)
                BY <3>3 DEF Remove
            <4>2. (\E i \in 1..Len(order) : order[i] = KvQueue!After(a)) /\ KvQueue!After(a) # a
                BY <1>1, <1>2, <3>3, Following
            <4>. QED
                BY <1>1, <4>1, <4>2 DEF Core, Listed
        <3>. QED
            BY <3>1, <3>2, <3>3
    <2>. QED
        BY <1>4, <2>1, <2>2, <2>3, <2>4 DEF Listed
<1>7. ASSUME NEW b \in Live'
      PROVE  /\ b \in Live /\ b # a /\ ears'[b] = ears[b] /\ fdOf'[b] = fdOf[b]
             /\ (b \in used' <=> b \in used) /\ (b \in armed' <=> b \in armed)
    BY <1>1 DEF Remove, Core, Typed
<1>8. ASSUME NEW b \in Live'
      PROVE  Known(b)' /\ ServedOK(b)' /\ Told(b)'
    <2>1. b \in Addrs /\ b \in Live /\ b # a /\ Known(b) /\ ServedOK(b)
        BY <1>1, <1>7 DEF Core
    <2>2. Known(b)'
        BY <1>7, <2>1 DEF Known
    <2>3. ServedOK(b)'
        BY <1>7, <2>1 DEF ServedOK
    <2>4. Told(b)'
        BY <1>7, <2>1, OthersKeep DEF Told
    <2>. QED
        BY <2>2, <2>3, <2>4
<1>9. ASSUME NEW b \in Addrs
      PROVE  EarOK(b)'
    <2>1. CASE b \in Live'
        BY <1>7, <2>1, OthersKeep DEF EarOK
    <2>2. CASE b \notin Live'
        <3>1. ears'[b] = <<>>
            BY <1>1, <2>2 DEF Remove, Core, Typed, EarOK
        <3>2. Len(<<>>) <= 1
            OBVIOUS
        <3>. QED
            BY <3>1, <3>2 DEF EarOK, EarsFor
    <2>. QED
        BY <2>1, <2>2
<1>. QED
    BY <1>5, <1>6, <1>8, <1>9 DEF Core

\* The listeners of an entry are called.
LEMMA Emitted ==
    ASSUME Plainly, Core, NEW a \in Live, NEW e, e = Emission(sock, ears[a]), Forwards,
           sock' = e.s, ears' = [ears EXCEPT ![a] = e.ears],
           UNCHANGED <<order, fdOf, armed>>, act' \in Live \cup {Nil},
           used' \subseteq used, \A b \in Addrs \ {a} : b \in used' <=> b \in used,
           jobs' \in [Addrs -> Nat], \A b \in Addrs \ {a} : jobs'[b] = jobs[b],
           jobs'[a] = (IF a \in used' THEN 1 ELSE 0),
           a \in used' \/ a \notin used \/ sock'[fdOf[a]].waiting
    PROVE  Core'
<1>. USE DEF Forwards
<1>1. a \in Addrs /\ fdOf[a] \in Fds /\ sock \in Sockets /\ ears[a] \in Seq(Listener)
      /\ EarsFor(ears[a], sock, fdOf[a]) /\ Live' = Live
    BY DEF Live, Core, Typed, EarOK, Sockets
<1>2. /\ Onward(sock, sock', fdOf[a]) /\ e.ears \in Seq(Listener) /\ EarsFor(e.ears, sock', fdOf[a])
      /\ e.ears # <<>> => ears[a] # <<>>
      /\ e.ears # <<>> /\ e.ears[1].at # "write" => ~Unread(sock'[fdOf[a]])
    <2>1. PICK f, b : f = fdOf[a] /\ b = ears[a]
        OBVIOUS
    <2>. QED
        BY <1>1, <2>1, EmissionRight
<1>3. ears'[a] = e.ears /\ \A b \in Addrs \ {a} : ears'[b] = ears[b]
    BY <1>1 DEF Core, Typed
<1>4. Typed'
    <2>1. sock' \in [Fds -> Socket]
        BY <1>2 DEF Onward, Sockets
    <2>2. ears' \in [Addrs -> Seq(Listener)]
        BY <1>2 DEF Core, Typed
    <2>3. used' \subseteq Live' /\ armed' \subseteq Live'
        BY <1>1 DEF Core, Typed
    <2>. QED
        BY <2>1, <2>2, <2>3 DEF Core, Typed
<1>5. Listed'
    BY <1>1 DEF Core, Listed
<1>6. EarOK(a)' /\ Known(a)' /\ ServedOK(a)'
    <2>1. EarOK(a)'
        BY <1>1, <1>2, <1>3 DEF EarOK
    <2>2. Known(a)'
        BY DEF Core, Known
    <2>3. ServedOK(a)'
        BY DEF ServedOK
    <2>. QED
        BY <2>1, <2>2, <2>3
<1>7. Told(a)'
    <2>. SUFFICES ASSUME e.ears # <<>>, Available(sock'[fdOf[a]]), Unread(sock'[fdOf[a]]), a \notin used'
                  PROVE  a \in armed' \/ a \in batch'
        BY <1>3 DEF Told
    <2>1. e.ears[1].at = "write"
        BY <1>2
    <2>2. ~sock'[fdOf[a]].waiting
        BY <1>2, <2>1 DEF EarsFor
    <2>3. a \notin used
        BY <2>2
    <2>4. ears[a] # <<>> /\ sock[fdOf[a]].status # "stopped"
        BY <1>1, <1>2 DEF EarsFor
    <2>5. Available(sock[fdOf[a]]) /\ Unread(sock[fdOf[a]])
        BY <1>1, <1>2, <2>4, UnreadBefore
    <2>. QED
        BY <1>1, <2>3, <2>4, <2>5 DEF Core, Told
<1>8. ASSUME NEW b \in Addrs, b # a
      PROVE  EarOK(b)' /\ (b \in Live => Known(b)' /\ ServedOK(b)' /\ Told(b)')
    <2>1. CASE b \in Live
        <3>1. /\ EarsFor(ears[b], sock', fdOf[b])
              /\ ears[b] # <<>> /\ Available(sock'[fdOf[b]]) /\ Unread(sock'[fdOf[b]]) =>
                    b \in armed \/ b \in batch \/ b \in used
            BY <1>2, <1>8, <2>1, OthersKeep
        <3>2. EarOK(b)'
            BY <1>1, <1>3, <1>8, <2>1, <3>1 DEF EarOK
        <3>3. Known(b)'
            BY <2>1 DEF Core, Known
        <3>4. ServedOK(b)'
            BY <1>8, <2>1 DEF Core, ServedOK
        <3>5. Told(b)'
            BY <1>3, <1>8, <3>1 DEF Told
        <3>. QED
            BY <3>2, <3>3, <3>4, <3>5
    <2>2. CASE b \notin Live
        <3>1. ears'[b] = <<>> /\ Len(<<>>) <= 1
            BY <1>3, <1>8, <2>2 DEF Core, EarOK
        <3>. QED
            BY <2>2, <3>1 DEF EarOK, EarsFor
    <2>. QED
        BY <2>1, <2>2
<1>9. \A b \in Addrs : EarOK(b)'
    BY <1>6, <1>8
<1>10. \A b \in Live' : Known(b)' /\ ServedOK(b)' /\ Told(b)'
    <2>1. \A b \in Live : b \in Addrs
        BY DEF Live
    <2>. QED
        BY <1>1, <1>6, <1>7, <1>8, <2>1
<1>. QED
    BY <1>4, <1>5, <1>9, <1>10 DEF Core

\* Sockets and entries stay; the cursor may go on, and coroutines of entries
\* that are gone may end.
LEMMA Same ==
    ASSUME Core, Forwards, UNCHANGED <<sock, order, fdOf, ears, used, armed>>,
           act' \in Live \cup {Nil},
           jobs' \in [Addrs -> Nat], \A b \in Live : jobs'[b] = jobs[b]
    PROVE  Core'
<1>. USE DEF Forwards
<1>1. Live' = Live /\ \A b \in Live : b \in Addrs
    BY DEF Live
<1>2. Typed' /\ Listed'
    BY <1>1 DEF Core, Typed, Listed
<1>3. ASSUME NEW b \in Addrs PROVE EarOK(b)'
    BY <1>1 DEF Core, EarOK
<1>4. ASSUME NEW b \in Live PROVE Known(b)' /\ ServedOK(b)' /\ Told(b)'
    BY <1>1 DEF Core, Known, ServedOK, Told
<1>. QED
    BY <1>1, <1>2, <1>3, <1>4 DEF Core

\* Something happens to the sockets that no listener did.
LEMMA Stirred ==
    ASSUME Core, UNCHANGED <<order, act, fdOf, ears, used, jobs>>, Forwards,
           sock' \in Sockets, armed' \subseteq Live, armed \subseteq armed',
           \A g \in Fds :
              /\ sock'[g].waiting = sock[g].waiting
              /\ sock'[g].status = "stopped" => sock[g].status = "stopped"
              /\ Available(sock'[g]) /\ Unread(sock'[g]) =>
                    \/ Available(sock[g]) /\ Unread(sock[g])
                    \/ \A b \in Live : fdOf[b] = g => b \in armed'
    PROVE  Core'
<1>. USE DEF Forwards
<1>1. Live' = Live /\ \A b \in Live : b \in Addrs /\ fdOf[b] \in Fds
    BY DEF Live, Core, Typed
<1>2. Typed' /\ Listed'
    BY <1>1 DEF Core, Typed, Listed, Sockets
<1>3. ASSUME NEW b \in Addrs PROVE EarOK(b)'
    BY <1>1 DEF Core, EarOK, EarsFor
<1>4. ASSUME NEW b \in Live PROVE Known(b)' /\ ServedOK(b)' /\ Told(b)'
    <2>1. Known(b)' /\ ServedOK(b)'
        BY <1>1 DEF Core, Known, ServedOK
    <2>2. Told(b)'
        BY <1>1 DEF Core, Told
    <2>. QED
        BY <2>1, <2>2
<1>. QED
    BY <1>1, <1>2, <1>3, <1>4 DEF Core

-----------------------------------------------------------------------------
(* The network.                                                            *)

LEMMA NetworkRight ==
    ASSUME Core, Network
    PROVE  Core'
<1>0. PICK f \in Fds : Arrive(f) \/ PeerEnds(f) \/ PeerReads(f)
    BY DEF Network
<1>. DEFINE d == sock[f]
<1>1. /\ sock \in Sockets /\ d \in Socket /\ d.in \in 0..MaxIn /\ d.room \in 0..MaxRoom
      /\ MaxIn \in Nat /\ MaxRoom \in Nat /\ Entries(f) \subseteq Live /\ armed \subseteq Live
      /\ \A b \in Live : fdOf[b] = f => b \in Entries(f)
    <2>1. d \in Socket /\ sock \in Sockets
        BY DEF Core, Typed, Sockets
    <2>. HIDE DEF d
    <2>2. d.in \in 0..MaxIn /\ d.room \in 0..MaxRoom
        BY <2>1 DEF Socket
    <2>. QED
        BY <2>1, <2>2, SocketsAssumption DEF Core, Typed, Entries
<1>2. batch \subseteq Addrs \cup {Bell} /\ phase \in {"loop", "wait", "deliver"}
    BY DEF Core, Typed
<1>3. CASE Arrive(f)
    <2>1. PICK n \in 0..MaxIn : n = d.in + 1
        BY <1>1, <1>3 DEF Arrive
    <2>. DEFINE r == [d EXCEPT !.in = n]
    <2>2. r \in Socket /\ r.waiting = d.waiting /\ r.status = d.status
        BY <1>1 DEF Socket
    <2>3. sock' = [sock EXCEPT ![f] = r]
        BY <1>1, <1>3, <2>1 DEF Arrive
    <2>. HIDE DEF r
    <2>4. sock' \in Sockets /\ sock'[f] = r /\ \A g \in Fds \ {f} : sock'[g] = sock[g]
        BY <1>1, <2>2, <2>3 DEF Sockets
    <2>5. /\ armed' = armed \cup Entries(f)
          /\ UNCHANGED <<order, act, fdOf, ears, used, jobs, batch, phase, pd>>
        BY <1>3 DEF Arrive, loopVars
    <2>6. ASSUME NEW g \in Fds
          PROVE  /\ sock'[g].waiting = sock[g].waiting
                 /\ sock'[g].status = "stopped" => sock[g].status = "stopped"
                 /\ Available(sock'[g]) /\ Unread(sock'[g]) =>
                       \/ Available(sock[g]) /\ Unread(sock[g])
                       \/ \A b \in Live : fdOf[b] = g => b \in armed'
        BY <1>1, <2>2, <2>4, <2>5
    <2>. QED
        BY <1>1, <1>2, <2>4, <2>5, <2>6, Stirred DEF Forwards
<1>4. CASE PeerEnds(f)
    <2>. DEFINE r == [d EXCEPT !.eof = TRUE]
    <2>2. r \in Socket /\ r.waiting = d.waiting /\ r.status = d.status
        BY <1>1 DEF Socket
    <2>3. sock' = [sock EXCEPT ![f] = r]
        BY <1>1, <1>4 DEF PeerEnds
    <2>. HIDE DEF r
    <2>4. sock' \in Sockets /\ sock'[f] = r /\ \A g \in Fds \ {f} : sock'[g] = sock[g]
        BY <1>1, <2>2, <2>3 DEF Sockets
    <2>5. /\ armed' = armed \cup Entries(f)
          /\ UNCHANGED <<order, act, fdOf, ears, used, jobs, batch, phase, pd>>
        BY <1>4 DEF PeerEnds, loopVars
    <2>6. ASSUME NEW g \in Fds
          PROVE  /\ sock'[g].waiting = sock[g].waiting
                 /\ sock'[g].status = "stopped" => sock[g].status = "stopped"
                 /\ Available(sock'[g]) /\ Unread(sock'[g]) =>
                       \/ Available(sock[g]) /\ Unread(sock[g])
                       \/ \A b \in Live : fdOf[b] = g => b \in armed'
        BY <1>1, <2>2, <2>4, <2>5
    <2>. QED
        BY <1>1, <1>2, <2>4, <2>5, <2>6, Stirred DEF Forwards
<1>5. CASE PeerReads(f)
    <2>1. PICK n \in 0..MaxRoom : n = d.room + 1
        BY <1>1, <1>5 DEF PeerReads
    <2>. DEFINE r == [d EXCEPT !.room = n]
    <2>2. /\ r \in Socket /\ r.waiting = d.waiting /\ r.status = d.status
          /\ r.in = d.in /\ r.eof = d.eof
        BY <1>1 DEF Socket
    <2>3. sock' = [sock EXCEPT ![f] = r]
        BY <1>1, <1>5, <2>1 DEF PeerReads
    <2>. HIDE DEF r
    <2>4. sock' \in Sockets /\ sock'[f] = r /\ \A g \in Fds \ {f} : sock'[g] = sock[g]
        BY <1>1, <2>2, <2>3 DEF Sockets
    <2>5. UNCHANGED <<order, act, fdOf, ears, used, armed, jobs, batch, phase, pd>>
        BY <1>5 DEF PeerReads, loopVars, kvVars
    <2>6. ASSUME NEW g \in Fds
          PROVE  /\ sock'[g].waiting = sock[g].waiting
                 /\ sock'[g].status = "stopped" => sock[g].status = "stopped"
                 /\ Available(sock'[g]) /\ Unread(sock'[g]) =>
                       Available(sock[g]) /\ Unread(sock[g])
        BY <1>1, <2>2, <2>4 DEF Available, Unread
    <2>. QED
        BY <1>1, <1>2, <2>4, <2>5, <2>6, Stirred DEF Forwards
<1>. QED
    BY <1>0, <1>3, <1>4, <1>5

-----------------------------------------------------------------------------
(* A look, and a coroutine.                                                *)

LEMMA LookRight ==
    ASSUME Plainly, Core, Look, UNCHANGED jobs, Forwards
    PROVE  Core'
<1>. USE DEF Forwards
<1>1. PICK k : k = Cursor
    OBVIOUS
<1>2. ASSUME order # <<>>
      PROVE  k \in Live /\ KvQueue!After(k) \in Live
    <2>1. order \in Seq(Addrs) /\ 1 \in 1..Len(order)
        BY <1>2 DEF Core, Typed
    <2>2. k \in Live
        BY <1>1, <2>1 DEF Cursor, Core, Listed
    <2>3. \E i \in 1..Len(order) : order[i] = k
        BY <2>2 DEF Core, Listed
    <2>4. \E i \in 1..Len(order) : order[i] = KvQueue!After(k)
        <3>1. k \in Addrs /\ \A i, j \in 1..Len(order) : order[i] = order[j] => i = j
            BY <2>2 DEF Live, Core, Listed
        <3>. QED
            BY <2>1, <2>3, <3>1, Following
    <2>. QED
        BY <2>2, <2>4 DEF Core, Listed
<1>3. act \in Live \cup {Nil} /\ jobs' \in [Addrs -> Nat] /\ Live \subseteq Addrs
    BY DEF Core, Typed, Listed, Live
<1>4. CASE LookNone
    BY <1>3, <1>4, Same DEF LookNone, kvVars
<1>5. CASE LookDrop
    <2>1. order # <<>> /\ Remove(k, k) /\ sock' = sock
        BY <1>1, <1>5 DEF LookDrop
    <2>2. Onward(sock, sock', fdOf[k])
        BY <2>1, OnwardSame DEF Core, Typed, Sockets
    <2>. QED
        BY <1>2, <1>3, <2>1, <2>2, Removed
<1>6. CASE LookSkip
    BY <1>1, <1>2, <1>3, <1>6, Same DEF LookSkip
<1>7. CASE LookEmit
    <2>1. PICK e : e = Emission(sock, ears[k])
        OBVIOUS
    <2>2. /\ order # <<>> /\ k \notin used /\ sock' = e.s /\ ears' = [ears EXCEPT ![k] = e.ears]
          /\ act' = KvQueue!After(k) /\ UNCHANGED <<order, fdOf, used, armed>>
        BY <1>1, <1>7, <2>1 DEF LookEmit
    <2>3. k \in Live /\ act' \in Live \cup {Nil}
        BY <1>2, <2>2
    <2>4. jobs'[k] = IF k \in used' THEN 1 ELSE 0
        BY <2>2, <2>3 DEF Core, ServedOK
    <2>. QED
        BY <1>3, <2>1, <2>2, <2>3, <2>4, Emitted
<1>. QED
    BY <1>4, <1>5, <1>6, <1>7 DEF Look

LEMMA JobRight ==
    ASSUME Plainly, Core, NEW a \in Addrs, RunJob(a)
    PROVE  Core'
<1>1. /\ jobs[a] > 0 /\ phase' \in {"deliver", "wait"} /\ UNCHANGED <<batch, pd>>
    BY DEF RunJob, AfterLoop
<1>2. Forwards
    BY <1>1 DEF Forwards, Core, Typed
<1>3. /\ act \in Live \cup {Nil} /\ jobs \in [Addrs -> Nat] /\ Live \subseteq Addrs
      /\ used \subseteq Live
    BY DEF Core, Typed, Listed, Live
<1>4. ASSUME EndJob(a)
      PROVE  /\ jobs' \in [Addrs -> Nat] /\ jobs'[a] = jobs[a] - 1
             /\ \A b \in Addrs \ {a} : jobs'[b] = jobs[b]
    <2>1. jobs' = [jobs EXCEPT ![a] = jobs[a] - 1]
        BY <1>4 DEF EndJob
    <2>2. jobs[a] - 1 \in Nat
        BY <1>1, <1>3
    <2>. QED
        BY <1>3, <2>1, <2>2
<1>5. CASE JobOrphan(a)
    <2>1. \A b \in Live : jobs'[b] = jobs[b]
        BY <1>3, <1>4, <1>5 DEF JobOrphan
    <2>. QED
        BY <1>2, <1>3, <1>4, <1>5, <2>1, Same DEF JobOrphan, kvVars
<1>6. CASE JobEmit(a)
    <2>1. PICK e : e = Emission(sock, ears[a])
        OBVIOUS
    <2>2. a \in Live /\ sock' = e.s
        BY <1>6, <2>1 DEF JobEmit
    <2>3. jobs[a] = 1 /\ a \in used
        BY <1>1, <2>2 DEF Core, ServedOK
    <2>4. CASE Remove(a, act) /\ EndJob(a)
        <3>1. PICK f, b : f = fdOf[a] /\ b = ears[a]
            OBVIOUS
        <3>2. f \in Fds /\ b \in Seq(Listener) /\ EarsFor(b, sock, f) /\ sock \in Sockets
            BY <2>2, <3>1 DEF Live, Core, Typed, EarOK, Sockets
        <3>3. Onward(sock, e.s, f)
            BY <2>1, <3>1, <3>2, EmissionRight
        <3>4. PICK c : c = act
            OBVIOUS
        <3>. QED
            BY <1>2, <1>3, <1>4, <2>2, <2>4, <3>1, <3>3, <3>4, Removed
    <2>5. CASE JobRest(a, e)
        <3>1. /\ used' = used \ {a} /\ ears' = [ears EXCEPT ![a] = e.ears] /\ EndJob(a)
              /\ UNCHANGED <<order, act, fdOf, armed>> /\ Verdict(e.s[fdOf[a]]) = 0
            BY <2>5 DEF JobRest
        <3>2. e.s[fdOf[a]].waiting
            BY <3>1 DEF Verdict
        <3>3. jobs'[a] = IF a \in used' THEN 1 ELSE 0
            BY <1>4, <2>3, <3>1
        <3>. QED
            BY <1>2, <1>3, <1>4, <2>1, <2>2, <3>1, <3>2, <3>3, Emitted
    <2>6. CASE ears' = [ears EXCEPT ![a] = e.ears] /\ UNCHANGED <<order, act, fdOf, used, armed, jobs>>
        <3>1. jobs'[a] = (IF a \in used' THEN 1 ELSE 0) /\ a \in used'
            BY <2>3, <2>6
        <3>. QED
            BY <1>2, <1>3, <2>1, <2>2, <2>6, <3>1, Emitted
    <2>. QED
        BY <1>6, <2>1, <2>4, <2>5, <2>6 DEF JobEmit
<1>. QED
    BY <1>5, <1>6 DEF RunJob

-----------------------------------------------------------------------------
(* The program.                                                            *)

LEMMA HungRight ==
    ASSUME NEW f \in Fds, NEW k \in Kinds[f]
    PROVE  /\ Hung(f, k) \in Listener
           /\ Hung(f, k).fd = f /\ Hung(f, k).kind = k /\ Hung(f, k).at = "start"
<1>1. k \in KINDS
    BY KernelAssumption
<1>2. "start" \in {"start", "read", "write"}
    OBVIOUS
<1>. QED
    BY <1>1, <1>2 DEF Hung, Listener

\* A poll gives an entry its listener and, if it has none, its coroutine.
LEMMA PollNewRight ==
    ASSUME Plainly, Core, NEW f \in Fds, NEW k \in Kinds[f],
           Available(sock[f]), PollNew(f, k), UNCHANGED <<sock, batch>>,
           phase' \in {"loop", "wait", "deliver"}
    PROVE  Core'
<1>1. PICK a \in Addrs \ Live :
         /\ Remembered(a, f) => Reuse
         /\ order' = Append(order, a)
         /\ fdOf' = [fdOf EXCEPT ![a] = f]
         /\ ears' = [ears EXCEPT ![a] = <<Hung(f, k)>>]
         /\ armed' = IF Unread(sock[f]) THEN armed \cup {a} ELSE armed
         /\ used' = Invoked(a).used /\ jobs' = Invoked(a).jobs
         /\ pd' = [pd EXCEPT ![f] = a]
    BY DEF PollNew
<1>2. /\ jobs[a] = 0 /\ a \notin batch /\ a \notin used
      /\ \A g \in Fds \ {f} : pd[g] # a
    BY <1>1 DEF Remembered, Plainly, Core, Typed
<1>3. pd[f] \notin Live /\ UNCHANGED act
    BY DEF PollNew
<1>4. /\ Live' = Live \cup {a} /\ Live \subseteq Addrs
      /\ fdOf'[a] = f /\ \A b \in Addrs \ {a} : fdOf'[b] = fdOf[b]
    BY <1>1, SocketsAssumption DEF Live, Core, Typed
<1>5. /\ used' = used \cup {a} /\ jobs' \in [Addrs -> Nat]
      /\ jobs'[a] = 1 /\ \A b \in Addrs \ {a} : jobs'[b] = jobs[b]
    BY <1>1, <1>2 DEF Invoked, Core, Typed
<1>6. PICK l \in Listener : /\ l = Hung(f, k) /\ l.fd = f /\ l.kind = k /\ l.at = "start"
    BY HungRight
<1>7. /\ ears' \in [Addrs -> Seq(Listener)] /\ ears'[a] = <<l>>
      /\ \A b \in Addrs \ {a} : ears'[b] = ears[b]
    BY <1>1, <1>6 DEF Core, Typed
<1>8. Typed'
    <2>1. order' \in Seq(Addrs)
        BY <1>1, AppendProperties DEF Core, Typed
    <2>2. used' \subseteq Live' /\ armed' \subseteq Live'
        BY <1>1, <1>4, <1>5 DEF Core, Typed
    <2>3. pd' \in [Fds -> Addrs \cup {Nil}]
        BY <1>1 DEF Core, Typed
    <2>4. fdOf' \in [Addrs -> Fds \cup {Nil}]
        BY <1>1 DEF Core, Typed
    <2>. QED
        BY <1>5, <1>7, <2>1, <2>2, <2>3, <2>4 DEF Core, Typed
<1>9. Listed'
    <2>1. PICK n \in Nat : n = Len(order)
        BY LenProperties DEF Core, Typed
    <2>2. /\ Len(order') = n + 1 /\ order'[n + 1] = a
          /\ \A i \in 1..n : order'[i] = order[i]
        BY <1>1, <2>1, AppendProperties DEF Core, Typed
    <2>3. \A i \in 1..(n + 1) : i \in 1..n \/ i = n + 1
        OBVIOUS
    <2>4. \A i \in 1..n : i \in 1..(n + 1)
        OBVIOUS
    <2>5. n + 1 \in 1..(n + 1)
        OBVIOUS
    <2>6. \A i \in 1..n : order[i] \in Live /\ order[i] # a
        BY <1>1, <2>1 DEF Core, Listed
    <2>7. \A b \in Live' : \E i \in 1..(n + 1) : order'[i] = b
        <3>1. ASSUME NEW b \in Live PROVE \E i \in 1..(n + 1) : order'[i] = b
            BY <2>1, <2>2, <2>4 DEF Core, Listed
        <3>. QED
            BY <1>4, <2>2, <2>5, <3>1
    <2>8. \A i \in 1..(n + 1) : order'[i] \in Live'
        BY <1>4, <2>2, <2>3, <2>6
    <2>9. \A i, j \in 1..(n + 1) : order'[i] = order'[j] => i = j
        <3>1. \A i, j \in 1..n : order[i] = order[j] => i = j
            BY <2>1 DEF Core, Listed
        <3>. SUFFICES ASSUME NEW i \in 1..(n + 1), NEW j \in 1..(n + 1), order'[i] = order'[j]
                      PROVE  i = j
            OBVIOUS
        <3>2. CASE i \in 1..n /\ j \in 1..n
            BY <2>2, <3>1, <3>2
        <3>3. CASE ~(i \in 1..n /\ j \in 1..n)
            BY <2>2, <2>3, <2>6, <3>3
        <3>. QED
            BY <3>2, <3>3
    <2>10. act' \in Live' \cup {Nil}
        BY <1>3, <1>4 DEF Core, Listed
    <2>. QED
        BY <2>2, <2>7, <2>8, <2>9, <2>10 DEF Listed
<1>10. EarOK(a)' /\ Known(a)' /\ ServedOK(a)' /\ Told(a)'
    <2>1. EarOK(a)'
        <3>1. sock'[f].status # "stopped" /\ Len(<<l>>) = 1 /\ <<l>>[1] = l
            BY DEF Available
        <3>2. EarsFor(<<l>>, sock', f)
            BY <1>6, <3>1 DEF EarsFor
        <3>. QED
            BY <1>4, <1>7, <3>2 DEF EarOK
    <2>2. Known(a)'
        BY <1>1, <1>2, <1>4 DEF Known, Core, Typed
    <2>3. ServedOK(a)' /\ Told(a)'
        BY <1>5 DEF ServedOK, Told
    <2>. QED
        BY <2>1, <2>2, <2>3
<1>11. ASSUME NEW b \in Addrs, b # a
       PROVE  EarOK(b)' /\ (b \in Live => Known(b)' /\ ServedOK(b)' /\ Told(b)')
    <2>1. EarOK(b)'
        BY <1>4, <1>7, <1>11 DEF EarOK, Core
    <2>2. ASSUME b \in Live
          PROVE  Known(b)' /\ ServedOK(b)' /\ Told(b)'
        <3>1. fdOf[b] # f /\ \A g \in Fds : pd[g] = b <=> g = fdOf[b]
            BY <1>3, <2>2 DEF Core, Known
        <3>2. pd'[f] # b /\ \A g \in Fds \ {f} : pd'[g] = pd[g]
            BY <1>1, <1>11 DEF Core, Typed
        <3>3. Known(b)'
            BY <1>4, <1>11, <3>1, <3>2 DEF Known
        <3>4. ServedOK(b)'
            BY <1>5, <1>11, <2>2 DEF Core, ServedOK
        <3>5. Told(b)'
            BY <1>1, <1>4, <1>5, <1>7, <1>11, <2>2 DEF Core, Told
        <3>. QED
            BY <3>3, <3>4, <3>5
    <2>. QED
        BY <2>1, <2>2
<1>12. \A b \in Live' : Known(b)' /\ ServedOK(b)' /\ Told(b)'
    BY <1>4, <1>10, <1>11
<1>13. \A b \in Addrs : EarOK(b)'
    BY <1>10, <1>11
<1>. QED
    BY <1>8, <1>9, <1>12, <1>13 DEF Core

\* One coroutine for an entry that has none keeps everything else.
LEMMA InvokedRight ==
    ASSUME Core, NEW a \in Live, used' = Invoked(a).used, jobs' = Invoked(a).jobs
    PROVE  /\ used' = used \cup {a} /\ jobs' \in [Addrs -> Nat]
           /\ jobs'[a] = 1 /\ \A b \in Addrs \ {a} : jobs'[b] = jobs[b]
<1>1. a \in Addrs /\ jobs \in [Addrs -> Nat] /\ jobs[a] = IF a \in used THEN 1 ELSE 0
    BY DEF Live, Core, Typed, ServedOK
<1>2. CASE a \in used
    BY <1>1, <1>2 DEF Invoked
<1>3. CASE a \notin used
    <2>1. jobs' = [jobs EXCEPT ![a] = 1]
        BY <1>1, <1>3 DEF Invoked
    <2>. QED
        BY <1>1, <1>3, <2>1 DEF Invoked
<1>. QED
    BY <1>2, <1>3

\* An entry gets a coroutine, and perhaps a listener.
LEMMA Started ==
    ASSUME Core, NEW a \in Live, UNCHANGED <<sock, order, act, fdOf, armed, pd>>,
           used' = used \cup {a}, jobs' \in [Addrs -> Nat],
           jobs'[a] = 1, \A b \in Addrs \ {a} : jobs'[b] = jobs[b],
           batch' \subseteq batch, \A b \in batch : b = a \/ b \in batch',
           phase' \in {"loop", "wait", "deliver"},
           ears' \in [Addrs -> Seq(Listener)], \A b \in Addrs \ {a} : ears'[b] = ears[b],
           EarsFor(ears'[a], sock, fdOf[a])
    PROVE  Core'
<1>1. Live' = Live /\ a \in Addrs /\ Live \subseteq Addrs
    BY DEF Live
<1>2. Typed' /\ Listed'
    BY <1>1 DEF Core, Typed, Listed
<1>3. ASSUME NEW b \in Addrs PROVE EarOK(b)'
    <2>1. CASE b = a
        BY <1>1, <2>1 DEF EarOK
    <2>2. CASE b # a
        BY <1>1, <2>2 DEF Core, EarOK
    <2>. QED
        BY <2>1, <2>2
<1>4. ASSUME NEW b \in Live PROVE Known(b)' /\ ServedOK(b)' /\ Told(b)'
    <2>1. Known(b)'
        BY DEF Core, Known
    <2>2. CASE b = a
        BY <2>1, <2>2 DEF ServedOK, Told
    <2>3. CASE b # a
        <3>1. ServedOK(b)'
            BY <1>1, <2>3 DEF Core, ServedOK
        <3>2. Told(b)'
            BY <1>1, <2>3 DEF Core, Told
        <3>. QED
            BY <2>1, <3>1, <3>2
    <2>. QED
        BY <2>2, <2>3
<1>. QED
    BY <1>1, <1>2, <1>3, <1>4 DEF Core

LEMMA PollMoreRight ==
    ASSUME Plainly, Core, NEW f \in Fds, NEW k \in Kinds[f],
           Available(sock[f]), PollMore(f, k), UNCHANGED <<sock, batch>>,
           phase' \in {"loop", "wait", "deliver"}
    PROVE  Core'
<1>1. PICK a \in Live : a = pd[f]
    BY DEF PollMore
<1>2. /\ Len(ears[a]) < 1 /\ ears' = [ears EXCEPT ![a] = Append(ears[a], Hung(f, k))]
      /\ used' = Invoked(a).used /\ jobs' = Invoked(a).jobs
      /\ UNCHANGED <<order, act, fdOf, armed, pd>>
    BY <1>1 DEF PollMore, Plainly
<1>3. a \in Addrs /\ fdOf[a] = f /\ ears[a] \in Seq(Listener)
    BY <1>1 DEF Live, Core, Known, Typed
<1>4. PICK l \in Listener : /\ l = Hung(f, k) /\ l.fd = f /\ l.kind = k /\ l.at = "start"
    BY HungRight
<1>5. ears[a] = <<>>
    <2>1. Len(ears[a]) \in Nat
        BY <1>3, LenProperties
    <2>2. Len(ears[a]) = 0
        BY <1>2, <2>1
    <2>. QED
        BY <1>3, <2>2, EmptySeq
<1>6. /\ ears' = [ears EXCEPT ![a] = <<l>>]
    BY <1>2, <1>4, <1>5
<1>7. /\ ears' \in [Addrs -> Seq(Listener)] /\ ears'[a] = <<l>>
      /\ \A b \in Addrs \ {a} : ears'[b] = ears[b]
    BY <1>3, <1>6 DEF Core, Typed
<1>8. EarsFor(<<l>>, sock, f)
    <2>1. sock[f].status # "stopped" /\ Len(<<l>>) = 1 /\ <<l>>[1] = l
        BY DEF Available
    <2>. QED
        BY <1>4, <2>1 DEF EarsFor
<1>9. /\ used' = used \cup {a} /\ jobs' \in [Addrs -> Nat]
      /\ jobs'[a] = 1 /\ \A b \in Addrs \ {a} : jobs'[b] = jobs[b]
    BY <1>2, InvokedRight
<1>. QED
    BY ZenonT(30), <1>2, <1>3, <1>7, <1>8, <1>9, Started

LEMMA DeliverRight ==
    ASSUME Core, NEW a \in Addrs, Deliver(a)
    PROVE  Core'
<1>1. /\ batch' = batch \ {a} /\ phase' = "deliver"
      /\ UNCHANGED <<sock, order, act, fdOf, ears, armed, pd>>
    BY DEF Deliver
<1>2. CASE a \in Live
    <2>1. used' = Invoked(a).used /\ jobs' = Invoked(a).jobs
        BY <1>2 DEF Deliver
    <2>2. /\ used' = used \cup {a} /\ jobs' \in [Addrs -> Nat]
          /\ jobs'[a] = 1 /\ \A b \in Addrs \ {a} : jobs'[b] = jobs[b]
        BY <1>2, <2>1, InvokedRight
    <2>3. ears' \in [Addrs -> Seq(Listener)] /\ EarsFor(ears'[a], sock, fdOf[a])
        BY <1>1 DEF Core, Typed, EarOK
    <2>. QED
        BY <1>1, <1>2, <2>2, <2>3, Started
<1>3. CASE a \notin Live
    <2>1. UNCHANGED <<used, jobs>>
        BY <1>3 DEF Deliver
    <2>2. Live' = Live /\ Live \subseteq Addrs
        BY <1>1 DEF Live
    <2>3. Typed' /\ Listed'
        BY <1>1, <2>1, <2>2 DEF Core, Typed, Listed
    <2>4. \A b \in Addrs : EarOK(b)'
        BY <1>1, <2>2 DEF Core, EarOK
    <2>5. \A b \in Live' : Known(b)' /\ ServedOK(b)' /\ Told(b)'
        BY <1>1, <1>3, <2>1, <2>2 DEF Core, Known, ServedOK, Told
    <2>. QED
        BY <2>3, <2>4, <2>5 DEF Core
<1>. QED
    BY <1>2, <1>3

LEMMA ActRight ==
    ASSUME Plainly, Core, Act, UNCHANGED batch, phase' \in {"loop", "wait", "deliver"}
    PROVE  Core'
<1>0. /\ batch \subseteq Addrs \cup {Bell} /\ sock \in Sockets /\ armed \subseteq Live
      /\ act \in Live \cup {Nil} /\ jobs \in [Addrs -> Nat]
    BY DEF Core, Typed, Listed, Sockets
<1>1. ASSUME NEW f \in Fds, Off(f) PROVE Core'
    <2>1. PICK a \in Live : a = pd[f]
        BY <1>1 DEF Off
    <2>2. PICK c : c = act
        OBVIOUS
    <2>3. Remove(a, c) /\ UNCHANGED <<sock, jobs, pd>>
        BY <1>1, <2>1, <2>2 DEF Off
    <2>4. Onward(sock, sock', fdOf[a])
        BY <1>0, <2>3, OnwardSame
    <2>5. Forwards
        BY <1>0, <2>3 DEF Forwards
    <2>. QED
        BY <1>0, <2>2, <2>3, <2>4, <2>5, Removed
<1>2. ASSUME NEW f \in Fds, Close(f) PROVE Core'
    <2>1. sock' = Shut(sock, {f}) /\ UNCHANGED <<order, act, fdOf, ears, used, armed, jobs, pd>>
        BY <1>2 DEF Close, kvVars
    <2>2. sock' \in Sockets
        BY <1>0, <2>1, TurnedRight DEF Shut
    <2>3. ASSUME NEW g \in Fds
          PROVE  /\ sock'[g].waiting = sock[g].waiting
                 /\ sock'[g].status = "stopped" => sock[g].status = "stopped"
                 /\ Available(sock'[g]) /\ Unread(sock'[g]) =>
                       Available(sock[g]) /\ Unread(sock[g])
        <3>1. /\ sock'[g].waiting = sock[g].waiting
              /\ sock'[g].in = sock[g].in /\ sock'[g].eof = sock[g].eof
              /\ sock'[g].status = IF g \in {f} /\ sock[g].status = "open" THEN "closed"
                                   ELSE sock[g].status
            BY <1>0, <2>1, TurnedRight DEF Shut
        <3>. QED
            BY <3>1 DEF Available, Unread
    <2>. QED
        BY <1>0, <2>1, <2>2, <2>3, Stirred DEF Forwards
<1>3. ASSUME NEW f \in Fds, Take(f) PROVE Core'
    <2>1. PICK r : r = [sock[f] EXCEPT !.borrow = 0]
        OBVIOUS
    <2>2. sock[f] \in Socket
        BY <1>0 DEF Sockets
    <2>3. /\ r \in Socket /\ r.waiting = sock[f].waiting /\ r.status = sock[f].status
          /\ r.in = sock[f].in /\ r.eof = sock[f].eof
        BY <2>1, <2>2 DEF Socket
    <2>4. sock' = [sock EXCEPT ![f] = r] /\ UNCHANGED <<order, act, fdOf, ears, used, armed, jobs, pd>>
        BY <1>0, <1>3, <2>1 DEF Take, kvVars, Sockets
    <2>5. sock' \in Sockets /\ sock'[f] = r /\ \A g \in Fds \ {f} : sock'[g] = sock[g]
        BY <1>0, <2>3, <2>4 DEF Sockets
    <2>6. ASSUME NEW g \in Fds
          PROVE  /\ sock'[g].waiting = sock[g].waiting
                 /\ sock'[g].status = "stopped" => sock[g].status = "stopped"
                 /\ Available(sock'[g]) /\ Unread(sock'[g]) =>
                       Available(sock[g]) /\ Unread(sock[g])
        BY <2>3, <2>5 DEF Available, Unread
    <2>. QED
        BY <1>0, <2>4, <2>5, <2>6, Stirred DEF Forwards
<1>4. ASSUME NEW f \in Fds, NEW k \in KINDS, Poll(f, k) PROVE Core'
    <2>1. k \in Kinds[f] /\ Available(sock[f]) /\ UNCHANGED sock
        BY <1>4 DEF Poll
    <2>2. CASE PollNew(f, k)
        BY <2>1, <2>2, PollNewRight
    <2>3. CASE PollMore(f, k)
        BY <2>1, <2>3, PollMoreRight
    <2>. QED
        BY <1>4, <2>2, <2>3 DEF Poll
<1>5. CASE Idle
    BY <1>0, <1>5, Same DEF Idle, kvVars, Forwards
<1>. QED
    BY <1>1, <1>2, <1>3, <1>4, <1>5 DEF Act

-----------------------------------------------------------------------------
(* A turn.                                                                 *)

LEMMA WaitRight ==
    ASSUME Core, batch = {}, Wait
    PROVE  Core'
<1>1. /\ batch' = Due /\ armed' = {} /\ phase' = "deliver"
      /\ UNCHANGED <<sock, order, act, fdOf, ears, used, jobs, pd>>
    BY DEF Wait, loopVars
<1>2. Live' = Live /\ Live \subseteq Addrs
    BY <1>1 DEF Live
<1>3. batch' \subseteq Addrs \cup {Bell}
    BY <1>1, <1>2 DEF Due, Core, Typed
<1>4. Typed' /\ Listed'
    BY <1>1, <1>2, <1>3 DEF Core, Typed, Listed
<1>5. \A b \in Addrs : EarOK(b)'
    BY <1>1, <1>2 DEF Core, EarOK
<1>6. ASSUME NEW b \in Live PROVE Known(b)' /\ ServedOK(b)' /\ Told(b)'
    <2>1. Known(b)' /\ ServedOK(b)'
        BY <1>1 DEF Core, Known, ServedOK
    <2>2. Told(b)'
        BY <1>1 DEF Core, Told, Due
    <2>. QED
        BY <2>1, <2>2
<1>. QED
    BY <1>2, <1>4, <1>5, <1>6 DEF Core

LEMMA InitIInv == Init => IInv
<1>. SUFFICES ASSUME Init PROVE IInv
    OBVIOUS
<1>1. Live = {}
    BY DEF Init, Live
<1>2. Fresh \in Socket
    BY SocketsAssumption DEF Fresh, Socket
<1>3. <<>> \in Seq(Listener) /\ <<>> \in Seq(Addrs) /\ Len(<<>>) = 0
    OBVIOUS
<1>4. Typed
    BY <1>1, <1>2, <1>3 DEF Init, Typed
<1>5. Listed
    BY <1>1, <1>3 DEF Init, Listed
<1>6. ASSUME NEW a \in Addrs PROVE EarOK(a)
    BY <1>3 DEF Init, EarOK, EarsFor
<1>. QED
    BY <1>1, <1>4, <1>5, <1>6 DEF Init, IInv, Core

LEMMA NextIInv == Plainly => (IInv /\ [Next]_vars => IInv')
<1>. SUFFICES ASSUME Plainly, IInv, [Next]_vars PROVE IInv'
    OBVIOUS
<1>0. Core /\ batch \subseteq Addrs \cup {Bell} /\ phase \in {"loop", "wait", "deliver"}
    BY DEF IInv, Core, Typed
<1>1. CASE UNCHANGED vars
    <2>1. UNCHANGED <<sock, order, act, fdOf, ears, used, armed, jobs, batch, phase, pd>>
        BY <1>1 DEF vars, kvVars, loopVars
    <2>2. Core'
        BY <1>0, <2>1, Same DEF Forwards, Core, Typed, Listed
    <2>. QED
        BY <2>1, <2>2 DEF IInv
<1>2. CASE Turn
    <2>1. Look /\ batch = {} /\ phase' = "loop" /\ UNCHANGED <<jobs, batch, pd>>
        BY <1>2 DEF Turn, loopVars
    <2>2. Core'
        BY <1>0, <2>1, LookRight DEF Forwards
    <2>. QED
        BY <2>1, <2>2 DEF IInv
<1>3. CASE LoopIdle \/ Reap
    <2>1. /\ phase = "loop" /\ phase' \in {"wait", "deliver"}
          /\ UNCHANGED <<sock, order, act, fdOf, ears, used, armed, jobs, batch, pd>>
        BY <1>3 DEF LoopIdle, Reap, kvVars, loopVars
    <2>2. Core'
        BY <1>0, <2>1, Same DEF Forwards, Core, Typed, Listed
    <2>. QED
        BY <2>1, <2>2 DEF IInv
<1>4. CASE RunChore
    <2>1. /\ phase = "loop" /\ phase' \in {"wait", "deliver"} /\ Act /\ UNCHANGED batch
        BY <1>4 DEF RunChore, AfterLoop
    <2>2. Core'
        BY <1>0, <2>1, ActRight
    <2>. QED
        BY <2>1, <2>2 DEF IInv
<1>5. ASSUME NEW a \in Addrs, RunJob(a) PROVE IInv'
    <2>1. phase = "loop" /\ UNCHANGED batch
        BY <1>5 DEF RunJob
    <2>2. Core'
        BY <1>0, <1>5, JobRight
    <2>. QED
        BY <2>1, <2>2 DEF IInv
<1>6. CASE Wait
    <2>1. phase = "wait" /\ phase' = "deliver"
        BY <1>6 DEF Wait
    <2>2. Core'
        BY <1>0, <1>6, <2>1, WaitRight DEF IInv
    <2>. QED
        BY <2>1, <2>2 DEF IInv
<1>7. CASE Ring
    <2>1. /\ phase = "deliver" /\ Look /\ batch' = batch \ {Bell} /\ UNCHANGED <<jobs, phase, pd>>
        BY <1>7 DEF Ring, loopVars
    <2>2. Forwards
        BY <1>0, <2>1, KernelAssumption DEF Forwards
    <2>3. Core'
        BY <1>0, <2>1, <2>2, LookRight
    <2>. QED
        BY <2>1, <2>3 DEF IInv
<1>8. ASSUME NEW a \in Addrs, Deliver(a) PROVE IInv'
    <2>1. phase' = "deliver"
        BY <1>8 DEF Deliver
    <2>2. Core'
        BY <1>0, <1>8, DeliverRight
    <2>. QED
        BY <2>1, <2>2 DEF IInv
<1>9. CASE Network
    <2>1. UNCHANGED <<batch, phase>>
        BY <1>9 DEF Network, Arrive, PeerEnds, PeerReads
    <2>2. Core'
        BY <1>0, <1>9, NetworkRight
    <2>. QED
        BY <2>1, <2>2 DEF IInv
<1>. QED
    BY <1>1, <1>2, <1>3, <1>4, <1>5, <1>6, <1>7, <1>8, <1>9 DEF Next, Thread, Loop

-----------------------------------------------------------------------------
(* The theorems.                                                           *)

\* The inductive invariant holds of every behaviour of a plain program.
THEOREM Invariance == Plainly => (Spec => []IInv)
<1>. SUFFICES ASSUME Plainly PROVE Spec => []IInv
    OBVIOUS
<1>1. IInv /\ [Next]_vars => IInv'
    BY NextIInv
<1>. QED
    BY <1>1, InitIInv, PTL DEF Spec

\* A live entry is marked USED exactly as long as one coroutine serves it.
THEOREM MarkedIsServed == Plainly => (Spec => []UsedIsServed)
<1>. SUFFICES ASSUME Plainly PROVE Spec => []UsedIsServed
    OBVIOUS
<1>1. IInv => UsedIsServed
    BY DEF IInv, Core, ServedOK, UsedIsServed
<1>. QED
    BY <1>1, Invariance, PTL

\* The thread never sleeps without limit on a descriptor with something to
\* read and somebody to read it, for any number of sockets and entries.
THEOREM NoneUnheard == Plainly => (Spec => []NoLostWakeup)
<1>. SUFFICES ASSUME Plainly PROVE Spec => []NoLostWakeup
    OBVIOUS
<1>1. IInv => NoLostWakeup
    <2>. SUFFICES ASSUME IInv, Asleep, NEW a \in Live, ears[a] # <<>>,
                         Available(sock[fdOf[a]]), Unread(sock[fdOf[a]])
                  PROVE  FALSE
        BY DEF NoLostWakeup
    <2>1. a \in Addrs /\ Told(a) /\ ServedOK(a) /\ batch = {}
        BY DEF Live, IInv, Core, Asleep
    <2>2. a \notin used
        BY <2>1 DEF Asleep, Boundless, NoTask, NoJob, ServedOK
    <2>3. a \notin armed
        BY DEF Asleep, Due
    <2>. QED
        BY <2>1, <2>2, <2>3 DEF Told
<1>. QED
    BY <1>1, Invariance, PTL

\* A coroutine does not end while its relay holds a chunk it could not write,
\* whatever the sizes of the buffers.
THEOREM ChunksKept == Plainly => (Spec => NoChunkAbandoned)
<1>. SUFFICES ASSUME Plainly PROVE Spec => NoChunkAbandoned
    OBVIOUS
<1>. DEFINE Rested(a) == a \in Live' /\ a \notin used' =>
                            \A i \in DOMAIN ears'[a] : ears'[a][i].at # "write"
<1>1. ASSUME Core, NEW a \in used, NEW b, NEW c, Remove(b, c) PROVE Rested(a)
    BY <1>1 DEF Remove, Live, Core, Typed
<1>2. ASSUME Core, NEW a \in used, Look PROVE Rested(a)
    <2>1. CASE UNCHANGED used
        BY <2>1
    <2>2. CASE LookDrop
        BY <1>1, <1>2, <2>2 DEF LookDrop
    <2>. QED
        BY <1>2, <2>1, <2>2 DEF Look, LookNone, LookSkip, LookEmit, kvVars
<1>3. ASSUME Core, NEW a \in used, Act PROVE Rested(a)
    <2>1. CASE used \subseteq used'
        BY <2>1
    <2>2. ASSUME NEW f \in Fds, Off(f) PROVE Rested(a)
        BY <1>1, <1>3, <2>2 DEF Off
    <2>3. ASSUME NEW f \in Fds, NEW k \in KINDS, Poll(f, k) PROVE used \subseteq used'
        BY <2>3 DEF Poll, PollNew, PollMore, Invoked
    <2>4. ASSUME NEW f \in Fds, Close(f) \/ Take(f) PROVE used \subseteq used'
        BY <2>4 DEF Close, Take, kvVars
    <2>5. CASE Idle
        BY <2>1, <2>5 DEF Idle, kvVars
    <2>. QED
        BY <1>3, <2>1, <2>2, <2>3, <2>4, <2>5 DEF Act
<1>4. ASSUME Core, NEW a \in used, NEW b \in Addrs, RunJob(b) PROVE Rested(a)
    <2>1. CASE UNCHANGED used
        BY <2>1
    <2>2. PICK e : e = Emission(sock, ears[b])
        OBVIOUS
    <2>3. CASE b \in Live /\ sock' = e.s /\ JobRest(b, e)
        <3>1. /\ used' = used \ {b} /\ ears' = [ears EXCEPT ![b] = e.ears]
              /\ UNCHANGED fdOf /\ Verdict(e.s[fdOf[b]]) = 0
            BY <2>3 DEF JobRest
        <3>2. CASE a # b
            BY <3>1, <3>2
        <3>3. CASE a = b
            <4>1. PICK f, d : f = fdOf[a] /\ d = ears[a]
                OBVIOUS
            <4>2. /\ f \in Fds /\ d \in Seq(Listener) /\ EarsFor(d, sock, f) /\ sock \in Sockets
                  /\ ears'[a] = e.ears
                BY <1>4, <2>3, <3>1, <3>3, <4>1 DEF Live, Core, Typed, EarOK, Sockets
            <4>3. EarsFor(e.ears, e.s, f) /\ e.ears \in Seq(Listener)
                BY <2>2, <3>3, <4>1, <4>2, EmissionRight
            <4>4. e.s[f].waiting
                BY <3>1, <3>3, <4>1 DEF Verdict
            <4>5. e.ears # <<>> => e.ears[1].at # "write"
                BY <4>3, <4>4 DEF EarsFor
            <4>6. ASSUME NEW i \in DOMAIN e.ears PROVE e.ears[i].at # "write"
                <5>1. PICK n \in Nat : n = Len(e.ears)
                    BY <4>3, LenProperties
                <5>2. i \in 1..n /\ n <= 1
                    BY <4>3, <5>1, LenProperties DEF EarsFor
                <5>3. i = 1 /\ n = 1
                    BY <5>2
                <5>4. e.ears # <<>>
                    BY <4>3, <5>1, <5>3
                <5>. QED
                    BY <4>5, <5>3, <5>4
            <4>. QED
                BY <4>2, <4>6
        <3>. QED
            BY <3>2, <3>3
    <2>4. ASSUME NEW x, NEW y, Remove(x, y) PROVE Rested(a)
        BY <1>1, <1>4, <2>4
    <2>. QED
        BY <1>4, <2>1, <2>2, <2>3, <2>4 DEF RunJob, JobOrphan, JobEmit, kvVars
<1>5. IInv /\ [Next]_vars => \A a \in used : Rested(a)
    <2>. SUFFICES ASSUME IInv, [Next]_vars, NEW a \in used PROVE Rested(a)
        OBVIOUS
    <2>1. Core
        BY DEF IInv
    <2>2. CASE used \subseteq used'
        BY <2>2
    <2>3. CASE Turn \/ Ring
        BY <1>2, <2>1, <2>3 DEF Turn, Ring
    <2>4. CASE RunChore
        BY <1>3, <2>1, <2>4 DEF RunChore
    <2>5. ASSUME NEW b \in Addrs, RunJob(b) PROVE Rested(a)
        BY <1>4, <2>1, <2>5
    <2>6. ASSUME UNCHANGED vars \/ LoopIdle \/ Reap \/ Wait \/ Network PROVE used \subseteq used'
        BY <2>6 DEF vars, kvVars, LoopIdle, Reap, Wait, Network, Arrive, PeerEnds, PeerReads
    <2>7. ASSUME NEW b \in Addrs, Deliver(b) PROVE used \subseteq used'
        BY <2>7 DEF Deliver, Invoked
    <2>. HIDE DEF Rested
    <2>. QED
        BY <2>2, <2>3, <2>4, <2>5, <2>6, <2>7 DEF Next, Thread, Loop
<1>6. [][\A a \in used : Rested(a)]_vars => NoChunkAbandoned
    BY PTL DEF NoChunkAbandoned
<1>. QED
    BY <1>5, <1>6, Invariance, PTL DEF Spec

=============================================================================
