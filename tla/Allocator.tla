------------------------------- MODULE Allocator -------------------------------
(***************************************************************************)
(* allocator_t: pages of a fixed size, from the first of which blocks are  *)
(* cut off at one place, and a sweep that joins the freed blocks, moves a  *)
(* page with more room to the front and gives an empty one back.           *)
(*                                                                         *)
(* A page is what its memory holds: a header in front of every block.  The *)
(* unit of sizes and places is the size of a header.  Pages end with their *)
(* thread, when nothing asks for memory any more: this is left out.        *)
(*                                                                         *)
(* Operators whose name starts with Bad are the definition that follows    *)
(* them with one plausible mistake in it; no specification uses them.      *)
(***************************************************************************)
EXTENDS Integers, Sequences, FiniteSets, SequencesExt

CONSTANTS
    Heap,           \* HEAP_SIZE
    Align,          \* NODEPP_ARCH_SIZE
    Sizes,          \* sizes asked for
    Pages,          \* names of pages, used again
    Batch,          \* NODEPP_MAX_BATCH_SIZE
    NoPage

VARIABLES
    obj,            \* the pages in their order
    act,            \* the page where the sweep goes on
    page,           \* of each page: its room, and the headers in it
    live            \* the blocks the program has, [in, at, size]

vars == <<obj, act, page, live>>

Free == "free"
Used == "used"

Aligned(n) == ((n + Align - 1) \div Align) * Align

Init == obj = <<>> /\ act = NoPage /\ page = << >> /\ live = {}

-----------------------------------------------------------------------------
(* _new_mem_().                                                            *)

NewPage ==
    [size |-> Heap, offs |-> 0, body |-> [o \in {0} |-> [size |-> Heap - 1, mode |-> Free]]]

\* Whether a page has room for a block, and for the header behind it.
Fits(pg, sz) == pg.size >= sz + 2 \/ pg.size = sz + 1

Cut(pg, sz) ==
    LET rest == pg.size - (sz + 1)
        end  == pg.offs + sz + 1
        tail == IF rest > 0 THEN {end} ELSE {}
    IN  [size |-> rest, offs |-> end,
         body |-> [o \in DOMAIN pg.body \cup {pg.offs} \cup tail |->
                      IF o = pg.offs THEN [size |-> sz, mode |-> Used]
                      ELSE IF o \in tail THEN [size |-> rest - 1, mode |-> Free]
                      ELSE pg.body[o]]]

Roomy(sz) == obj # <<>> /\ Fits(page[obj[1]], sz)

\* The first page, or a new one if it has no room; too large a block is not
\* in a page and is no matter of this module.
Malloc(size) ==
    LET sz == Aligned(size)
        Block(p, pg) == [in |-> p, at |-> pg.offs + 1, size |-> sz]
    IN  /\ sz + 1 < Heap
        /\ \/ /\ Roomy(sz)
              /\ page' = [page EXCEPT ![obj[1]] = Cut(@, sz)]
              /\ live' = live \cup {Block(obj[1], page[obj[1]])}
              /\ UNCHANGED obj
           \/ /\ ~Roomy(sz)
              /\ \E p \in Pages \ DOMAIN page :
                    /\ page' = [q \in DOMAIN page \cup {p} |->
                                  IF q = p THEN Cut(NewPage, sz) ELSE page[q]]
                    /\ live' = live \cup {Block(p, NewPage)}
                    /\ obj' = <<p>> \o obj
    /\ UNCHANGED act

-----------------------------------------------------------------------------
(* _del_mem_() and realloc().                                              *)

Freed(pages, b) == [pages EXCEPT ![b.in].body[b.at - 1].mode = Free]

Release(b) ==
    /\ b \in live
    /\ page' = Freed(page, b) /\ live' = live \ {b}
    /\ UNCHANGED <<obj, act>>

-----------------------------------------------------------------------------
(* _nxt_mem_(): page pg from the header at `at`, the last one being that at *)
(* `prv` if it is free.  A header that was joined is forgotten.            *)

\* The header at `at` joined to the free one before it, if there is one.
Joined(pg, prv, at) ==
    IF prv < 0 THEN pg
    ELSE [pg EXCEPT !.body = [o \in DOMAIN pg.body \ {at} |->
             IF o = prv THEN [pg.body[o] EXCEPT !.size = pg.body[o].size + pg.body[at].size + 1]
             ELSE pg.body[o]]]

\* ...and the page is cut from there next, if it is the largest free one.
Offered(pg, to) ==
    LET room == pg.body[to].size + 1
    IN  IF pg.size < room THEN [pg EXCEPT !.size = room, !.offs = to] ELSE pg

BadStep(w) ==
    IF w.at >= Heap THEN w
    ELSE LET b    == w.pg.body[w.at]
             next == w.at + b.size + 1
             to   == IF w.prv < 0 THEN w.at ELSE w.prv
         IN  IF b.mode = Used THEN [w EXCEPT !.at = next]
             ELSE [pg |-> Offered(Joined(w.pg, w.prv, w.at), to), prv |-> to, at |-> next]

Step(w) ==
    IF w.at >= Heap THEN w
    ELSE LET b    == w.pg.body[w.at]
             next == w.at + b.size + 1
             to   == IF w.prv < 0 THEN w.at ELSE w.prv
         IN  IF b.mode = Used THEN [w EXCEPT !.prv = -1, !.at = next]
             ELSE [pg |-> Offered(Joined(w.pg, w.prv, w.at), to), prv |-> to, at |-> next]

\* There are at most Heap headers.
Sweep(pg) ==
    LET w[n \in 0..Heap] == IF n = 0 THEN [pg |-> pg, prv |-> -1, at |-> 0] ELSE Step(w[n - 1])
    IN  w[Heap].pg

\* The sequence q without what is at i.
Without(q, i) == [j \in 1..Len(q) - 1 |-> IF j < i THEN q[j] ELSE q[j + 1]]

\* One turn of _next_(): page x is swept, given back, or put in front.
Visit(s) ==
    LET x    == s.act
        i    == CHOOSE j \in DOMAIN s.obj : s.obj[j] = x
        pg   == Sweep(s.page[x])
        left == Without(s.obj, i)
        next == IF i = Len(s.obj) THEN NoPage ELSE s.obj[i + 1]
    IN  IF x = NoPage THEN s
        ELSE IF pg.size >= Heap
        THEN [obj |-> left, act |-> next, page |-> [p \in DOMAIN s.page \ {x} |-> s.page[p]]]
        ELSE [obj |-> IF pg.size >= s.page[s.obj[1]].size \/ i = 1 THEN <<x>> \o left ELSE s.obj,
              act |-> next, page |-> [s.page EXCEPT ![x] = pg]]

\* next(): not more than Batch pages at a time.
Visits(s) ==
    LET t[n \in 0..Batch] == IF n = 0 THEN s ELSE Visit(t[n - 1]) IN t[Batch]

Sweeping ==
    /\ obj # <<>>
    /\ \E s \in {Visits([obj |-> obj, act |-> IF act = NoPage THEN obj[1] ELSE act,
                         page |-> page])} :
          obj' = s.obj /\ act' = s.act /\ page' = s.page
    /\ UNCHANGED live

Next == (\E n \in Sizes : Malloc(n)) \/ (\E b \in live : Release(b)) \/ Sweeping

Spec == Init /\ [][Next]_vars

-----------------------------------------------------------------------------

Bytes(b) == (b.at - 1)..(b.at + b.size - 1)
Room(p)  == page[p].offs..(page[p].offs + page[p].size - 1)

(* No two blocks share a byte, and no block shares one with the place that *)
(* the next one is cut from; a block is in a page that was not given back, *)
(* and its header is what it was.                                          *)
BlocksApart ==
    /\ \A b \in live :
          /\ b.in \in DOMAIN page
          /\ Bytes(b) \subseteq 0..(Heap - 1) /\ Bytes(b) \cap Room(b.in) = {}
          /\ page[b.in].body[b.at - 1] = [size |-> b.size, mode |-> Used]
    /\ \A b, c \in live : b # c /\ b.in = c.in => Bytes(b) \cap Bytes(c) = {}
    /\ \A p \in DOMAIN page : Room(p) \subseteq 0..(Heap - 1)

(* Memory comes back: the next sweep over a page finds its largest free    *)
(* place, all of the page when nothing in it is used any more, and every   *)
(* page has its turn.                                                      *)
RoomFound ==
    /\ ToSet(obj) = DOMAIN page /\ act \in DOMAIN page \cup {NoPage}
    /\ \A p \in DOMAIN page :
          LET pg == Sweep(page[p])
              in == UNION {Bytes(b) : b \in {c \in live : c.in = p}}
          IN  \A x \in 0..(Heap - 1), y \in 0..(Heap - 1) :
                x <= y /\ (x..y) \cap in = {} => y - x + 1 <= pg.size

(* Both: the heap never hands out a byte twice and never loses one.        *)
HeapExact == BlocksApart /\ RoomFound
=============================================================================
