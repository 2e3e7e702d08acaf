-------------------------------- MODULE Arrays --------------------------------
(***************************************************************************)
(* The sequence operations of array_t (array.h), of queue_t (queue.h) and  *)
(* of string_t (string.h) as functions on sequences, and the views that    *)
(* ptr_t::slice (ptr.h) makes on one buffer.  Positions count from 0 as in *)
(* the code; long and ulong have Width bits.                               *)
(*                                                                         *)
(* Operators whose name starts with Bad are the definition that follows    *)
(* them with one plausible mistake in it; no specification uses them.      *)
(***************************************************************************)
EXTENDS Integers, Sequences, SequencesExt

CONSTANT Width

ASSUME ArraysAssumption == Width \in Nat \ {0}

ULong(i) == i % 2^Width
Long(i)  == LET u == ULong(i) IN IF u < 2^(Width - 1) THEN u ELSE u - 2^Width

None == [from |-> 0, to |-> -1]

Some(r) == r.from <= r.to

\* The elements from..to of s.
Cut(s, r) == SubSeq(s, r.from + 1, r.to + 1)

Lesser(i, j) == IF i < j THEN i ELSE j

-----------------------------------------------------------------------------
(* get_slice_range( x, y ) and get_splice_range( x, y ) of n elements.     *)

SliceRange(n, x, y) ==
    LET from == IF x < 0 THEN n + x ELSE x
        stop == IF y > 0 THEN y - 1 ELSE IF y < 0 THEN n - 1 + y ELSE y
        to   == IF ULong(stop) > n - 1 THEN n - 1 ELSE stop
    IN  IF n = 0 \/ x = y \/ ULong(from) > n - 1 \/ to < from
        THEN None ELSE [from |-> from, to |-> to]

SpliceRange(n, x, y) ==
    LET from == IF x < 0 THEN n - 1 + x ELSE x
        to   == Lesser(ULong(y + from - 1), n - 1)
    IN  IF n = 0 \/ y = 0 \/ ULong(from) > n - 1 \/ to < from
        THEN None ELSE [from |-> from, to |-> to]

-----------------------------------------------------------------------------
(* array_t and string_t.                                                   *)

Slice(s, x, y) == Cut(s, SliceRange(Len(s), x, y))

EraseRange(s, x, y) ==
    LET r == SliceRange(Len(s), x, y) IN
    IF Some(r) THEN SubSeq(s, 1, r.from) \o SubSeq(s, r.to + 2, Len(s)) ELSE s

EraseAt(s, i) ==
    LET r == SliceRange(Len(s), Long(i), Len(s)) IN
    IF Some(r) THEN RemoveAt(s, r.from + 1) ELSE s

InsertAll(s, i, v) ==
    LET at == Lesser(i, Len(s)) IN
    SubSeq(s, 1, at) \o v \o SubSeq(s, at + 1, Len(s))

\* What comes out and what stays.
Splice(s, x, y) ==
    LET r == SpliceRange(Len(s), x, y) IN
    IF Some(r) THEN [out |-> Cut(s, r), left |-> EraseRange(s, r.from, r.to + 1)]
    ELSE [out |-> <<>>, left |-> s]

SpliceIn(s, x, y, v) ==
    LET r == SpliceRange(Len(s), x, y) IN
    IF Some(r)
    THEN [out |-> Cut(s, r),
          left |-> InsertAll(EraseRange(s, r.from, r.to + 1), r.from, v)]
    ELSE [out |-> <<>>, left |-> s]

\* remove( func ) of the elements in F: from the back, so that positions stay
\* right.
Removed(s, F) ==
    FoldRight(LAMBDA i, t : IF s[i] \in F THEN EraseAt(t, i - 1) ELSE t,
              [i \in 1..Len(s) |-> i], s)

Pushed(s, x)    == InsertAll(s, Len(s), <<x>>)
Unshifted(s, x) == InsertAll(s, 0, <<x>>)
Popped(s)  == EraseAt(s, IF s = <<>> THEN 0 ELSE Len(s) - 1)
Shifted(s) == EraseAt(s, 0)

\* operator+=.
Plus(s, t) == IF t = <<>> THEN s ELSE s \o t

\* queue_t::splice erases up to start + end instead of the range it copied.
QueueSplice(s, x, y) ==
    LET r == SpliceRange(Len(s), x, y) IN
    IF Some(r)
    THEN [out |-> Cut(s, r),
          left |-> EraseRange(s, Long(r.from), Long(r.from + y))]
    ELSE [out |-> <<>>, left |-> s]

\* string_t::starts_with and ends_with compare one character less.
StartsWith(s, p) ==
    Len(s) >= Len(p) /\ \A i \in 1..(Len(p) - 1) : s[i] = p[i]
EndsWith(s, p) ==
    Len(s) >= Len(p) /\ \A i \in 1..(Len(p) - 1) : s[Len(s) - Len(p) + i] = p[i]

\* compare(): the shorter one comes first; lower is a set of pairs.
Compare(s, t, lower) ==
    IF Len(s) # Len(t) THEN (IF Len(s) < Len(t) THEN -1 ELSE 1)
    ELSE LET D == {i \in DOMAIN s : s[i] # t[i]} IN
         IF D = {} THEN 0
         ELSE LET i == CHOOSE k \in D : \A j \in D : k <= j IN
              IF <<s[i], t[i]>> \in lower THEN -1 ELSE 1

-----------------------------------------------------------------------------
(* What is asked of the elements, with F the set of those func() answers   *)
(* yes to.  An array never tells how many there are, and a queue with      *)
(* nothing in it says no to everything.                                    *)

IndexOf(s, F)  == SelectInSeq(s, LAMBDA e : e \in F) - 1
ArrayCount(s, F) == -1
QueueCount(s, F) == Len(SelectSeq(s, LAMBDA e : e \in F))

ArraySome(s, F)  == \E i \in DOMAIN s : s[i] \in F
ArrayNone(s, F)  == \A i \in DOMAIN s : s[i] \notin F
ArrayEvery(s, F) == \A i \in DOMAIN s : s[i] \in F

QueueSome(s, F)  == s # <<>> /\ ArraySome(s, F)
QueueNone(s, F)  == s # <<>> /\ ArrayNone(s, F)
QueueEvery(s, F) == s # <<>> /\ ArrayEvery(s, F)

\* replace( func, targ ), in place.
Replaced(s, F, x) == [i \in DOMAIN s |-> IF s[i] \in F THEN x ELSE s[i]]

\* reduce( func ), f a function of pairs: the element after the last one, in
\* memory that is not the array's, is folded in too.
Reduce(s, f, beyond) ==
    FoldLeft(LAMBDA out, x : f[out, x], s[1], Append(Tail(s), beyond))

QueueReverse(s) == FoldLeft(Unshifted, <<>>, s)

-----------------------------------------------------------------------------
(* find( data, offset ): on a mismatch the search starts again behind the  *)
(* element that did not match.                                             *)

\* How much of p has matched at the end of s and where it ends, or the first
\* place where the whole of it has.
Hits(s, p, pos) ==
    LET hits[k \in pos..Len(s)] ==
            IF k = pos THEN <<0, pos>>
            ELSE [h \in (0..Len(p)) \X (0..Len(s)) |->
                     IF h[1] = Len(p) THEN h
                     ELSE IF s[k] = p[h[1] + 1] THEN <<h[1] + 1, k>> ELSE <<0, k>>][hits[k - 1]]
    IN  hits[Len(s)]

\* The range [from, to) or Nowhere.
Nowhere == [from |-> 0, to |-> 0]

Find(s, p, offset) ==
    LET hits == Hits(s, p, Lesser(offset, Len(s))) IN
    IF p = <<>> \/ hits[1] # Len(p) THEN Nowhere
    ELSE [from |-> hits[2] - Len(p), to |-> hits[2]]

\* string::split( str, pattern ) and split( str, size ).
SplitAt(s, p, offset) ==
    LET split[at \in 0..Len(s)] ==
            LET idx == Find(s, p, at) IN
            IF idx = Nowhere THEN <<Slice(s, at, Len(s))>>
            ELSE <<Slice(s, at, idx.from)>> \o split[idx.to]
    IN  split[offset]

Chunks(s, size) ==
    LET cut[at \in 0..Len(s)] ==
            IF at = Len(s) THEN <<>>
            ELSE <<Slice(SubSeq(s, at + 1, Len(s)), 0, size)>> \o cut[Lesser(at + size, Len(s))]
    IN  cut[0]

-----------------------------------------------------------------------------
(* sort( func ): insertion, from the back in array_t, from the front in    *)
(* queue_t.                                                                *)

\* Behind the last element that x does not precede; less is a set of pairs.
BackPlace(t, x, less) ==
    LET K == {k \in DOMAIN t : <<x, t[k]>> \notin less} IN
    IF K = {} THEN 0 ELSE CHOOSE k \in K : \A j \in K : j <= k

ArraySort(s, less) ==
    FoldLeft(LAMBDA t, x : IF t = <<>> \/ <<x, Last(t)>> \notin less THEN Append(t, x)
                           ELSE InsertAll(t, BackPlace(t, x, less), <<x>>),
             <<>>, s)

\* In front of the first element that x precedes.
FrontPlace(t, x, less) ==
    LET K == {k \in DOMAIN t : <<x, t[k]>> \in less} IN
    IF K = {} THEN Len(t) ELSE (CHOOSE k \in K : \A j \in K : k <= j) - 1

QueueSort(s, less) ==
    FoldLeft(LAMBDA t, x : IF t # <<>> /\ <<x, Last(t)>> \notin less THEN Append(t, x)
                           ELSE InsertAll(t, FrontPlace(t, x, less), <<x>>),
             <<>>, s)

-----------------------------------------------------------------------------
(* slice_view(): ptr_t::slice on a buffer of length n that is seen from    *)
(* offset to limit.                                                        *)

View(n) == [offset |-> 0, limit |-> n, length |-> n]

BadNarrow(v, from, to) ==
    [v EXCEPT !.offset = Lesser(v.length, from),
              !.limit = Lesser(v.length, to + v.offset)]

Narrow(v, from, to) ==
    LET top == Lesser(to, v.length) IN
    IF from > top THEN [v EXCEPT !.offset = 0, !.limit = 0]
    ELSE [v EXCEPT !.offset = Lesser(v.length, from + v.offset),
                   !.limit = Lesser(v.length, top + v.offset)]

Size(v) == v.limit - v.offset

SliceView(v, x, y) ==
    LET r == SliceRange(Size(v), x, y) IN
    IF Some(r) THEN Narrow(v, r.from, r.to + 1) ELSE [v EXCEPT !.offset = 0, !.limit = 0]

Seen(s, v) == SubSeq(s, v.offset + 1, v.limit)
=============================================================================
