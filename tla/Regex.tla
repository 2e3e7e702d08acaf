--------------------------------- MODULE Regex ---------------------------------
(***************************************************************************)
(* regex_t (regex.h), the engine that is built unless the target is        *)
(* Arduino or WebAssembly: a pattern is compiled to a tree of pieces, and  *)
(* _search walks the tree over the text, greedily and without going back.  *)
(*                                                                         *)
(* A text is a sequence of symbols of Ascii, a part of the ASCII table in  *)
(* its order; positions count from 0, and the byte after the text is Nul,  *)
(* as it is for every string_t that is not a view into another one.        *)
(*                                                                         *)
(* Operators whose name starts with Bad are the definition that follows    *)
(* them with one plausible mistake in it; no specification uses them.      *)
(***************************************************************************)
EXTENDS Arrays

Nul == "nul"

Ascii ==
    <<" ", "#", "$", "%", "&", "(", ")", "*", "+", "-", ".", "/", "0", "1",
      "2", "3", "4", "5", "6", "7", "8", "9", ":", ";", "=", "?", "@", "A",
      "B", "[", "\\", "]", "^", "a", "b", "c", "d", "e", "f", "h", "p",
      "t", "w", "z", "{", "|", "}">>

AsciiCodes ==
    <<32, 35, 36, 37, 38, 40, 41, 42, 43, 45, 46, 47, 48, 49, 50, 51, 52,
      53, 54, 55, 56, 57, 58, 59, 61, 63, 64, 65, 66, 91, 92, 93, 94, 97,
      98, 99, 100, 101, 102, 104, 112, 116, 119, 122, 123, 124, 125>>

Rank(c)   == CHOOSE i \in DOMAIN Ascii : Ascii[i] = c
Code(c)   == AsciiCodes[Rank(c)]
Symbol(n) == IF n \in ToSet(AsciiCodes) THEN Ascii[CHOOSE i \in DOMAIN AsciiCodes : AsciiCodes[i] = n] ELSE Nul

Digits == <<"0", "1", "2", "3", "4", "5", "6", "7", "8", "9">>
IsDigit(c) == Contains(Digits, c)
Letters    == {"A", "B", "a", "b", "c", "d", "e", "f", "h", "p", "t", "w", "z"}
IsAlnum(c) == IsDigit(c) \/ c \in Letters
IsSpace(c) == c = " "
\* is_print(): the codes from 64 to 127.
IsPrint(c) == c # Nul /\ Code(c) >= 64

Lower(c) == IF c = "A" THEN "a" ELSE IF c = "B" THEN "b" ELSE c

At(s, i) == IF i < Len(s) THEN s[i + 1] ELSE Nul

\* slice( x, y ) with x, y in the text.
Piece(s, x, y) == Slice(s, x, y)

\* to_uint() of a run of digits.
Number(ds) ==
    FoldLeft(LAMBDA n, d : 10 * n + (CHOOSE i \in 1..10 : Digits[i] = d) - 1, 0, ds)

Joined(ss, sep) ==
    FoldLeft(LAMBDA out, i : out \o (IF i = 1 THEN ss[1] ELSE sep \o ss[i]),
             <<>>, [i \in DOMAIN ss |-> i])

-----------------------------------------------------------------------------
(* Reading a pattern.                                                      *)

Opens  == {"[", "(", "{"}
Closes == {"]", ")", "}"}
Weight(c) == IF c \in {"[", "]"} THEN 1 ELSE IF c \in {"(", ")"} THEN 2 ELSE 3

\* get_next_key(): where the bracket at off closes.  The count k is a byte,
\* and the kinds of bracket are told apart by their weight alone.
RECURSIVE NextKey(_, _, _)
NextKey(p, off, k) ==
    IF off >= Len(p) THEN off
    ELSE LET c == At(p, off)
             m == (IF c \in Opens THEN k + Weight(c)
                   ELSE IF c \in Closes THEN k - Weight(c) ELSE k) % 256
             n == IF c = "\\" THEN off + 1 ELSE off
         IN  IF m = 0 THEN n
             ELSE IF m >= 127 THEN n + 1
             ELSE NextKey(p, n + 1, m)

\* get_next_regex(): the bars outside of brackets.
RECURSIVE Bars(_, _)
Bars(p, off) ==
    IF off >= Len(p) THEN <<>>
    ELSE LET bar == At(p, off) = "|"
             n   == IF bar THEN off + 1 ELSE off
         IN  (IF bar THEN <<off>> ELSE <<>>)
             \o (IF At(p, n) \in Opens THEN Bars(p, NextKey(p, n, 0))
                 ELSE Bars(p, IF At(p, n) = "\\" THEN n + 2 ELSE n + 1))

NoRep == <<>>

\* get_rep(): the numbers between the braces; every other symbol switches
\* between the two.
Rep(p, start, end) ==
    LET read == FoldLeft(LAMBDA r, c : IF IsDigit(c)
                                       THEN [r EXCEPT !.num[r.b] = Append(@, c)]
                                       ELSE [r EXCEPT !.b = 3 - @],
                         [b |-> 1, num |-> <<<<>>, <<>>>>],
                         Piece(p, start + 1, end))
        first == Number(read.num[1])
    IN  <<first, IF read.num[2] = <<>> THEN first ELSE Number(read.num[2])>>

\* get_next_repeat(): the bounds, -1 for none, and the last symbol read.
NextRepeat(p, off) ==
    CASE At(p, off) = "{" -> [rep |-> Rep(p, off, NextKey(p, off, 0)),
                              off |-> NextKey(p, off, 0)]
      [] At(p, off) = "?" -> [rep |-> <<0, 1>>, off |-> off]
      [] At(p, off) = "*" -> [rep |-> <<0, -1>>, off |-> off]
      [] OTHER            -> [rep |-> <<1, -1>>, off |-> off]

\* compile_range(): the symbols of a set.
RECURSIVE CompileRange(_)
CompileRange(p) ==
    IF p = <<>> THEN {}
    ELSE IF p[1] = "\\"
    THEN {p[i] : i \in {2} \cap DOMAIN p} \cup CompileRange(SubSeq(p, 3, Len(p)))
    ELSE IF Len(p) > 2 /\ p[2] = "-"
    THEN {y \in ToSet(Ascii) : \/ Rank(p[1]) <= Rank(y) /\ Rank(y) <= Rank(p[3])
                               \/ Rank(p[3]) <= Rank(y) /\ Rank(y) <= Rank(p[1])}
         \cup CompileRange(SubSeq(p, 4, Len(p)))
    ELSE {p[1]} \cup CompileRange(Tail(p))

\* A piece: its flag, whether it is negated, what it compares with.
Item(flag, neg, data) == [flag |-> flag, neg |-> neg, data |-> data, rep |-> NoRep]

Class ==
    [b |-> Item("edge", FALSE, Nul),  B |-> Item("edge", TRUE, Nul),
     w |-> Item("alnum", FALSE, Nul), W |-> Item("alnum", TRUE, Nul),
     d |-> Item("digit", FALSE, Nul), D |-> Item("digit", TRUE, Nul),
     s |-> Item("space", FALSE, Nul), S |-> Item("space", TRUE, Nul),
     n |-> Item("print", FALSE, Nul), N |-> Item("print", TRUE, Nul)]

Escaped(c) == IF c \in DOMAIN Class THEN Class[c] ELSE Item("char", FALSE, c)

Refused == [ok |-> FALSE, next |-> <<>>]

\* compile_pattern() and compile().  A refused pattern is not ok: compile()
\* then repeats the same alternative for ever.
RECURSIVE Compile(_), CompilePattern(_, _)

Inner(inner, end) == [ok |-> inner.ok, item |-> Item("group", FALSE, inner.next), last |-> end]

Ranged(p, off, end) ==
    LET neg == At(p, off + 1) = "^" IN
    [ok |-> TRUE, last |-> end,
     item |-> Item("set", neg, CompileRange(Piece(p, off + (IF neg THEN 2 ELSE 1), end)))]

\* The piece at off and its last symbol, which is end where it opens a
\* bracket.
Bracketed(p, off, end) ==
    IF end >= Len(p) THEN Refused
    ELSE IF At(p, off) = "(" THEN Inner(Compile(Piece(p, off + 1, end)), end)
    ELSE Ranged(p, off, end)

PieceRead(p, off) ==
    LET Read(item, last) == [ok |-> TRUE, item |-> item, last |-> last]
        c == At(p, off)
    IN  CASE c \in {"]", "{", "}", ")"} -> Refused
          [] c \in {"[", "("} -> Bracketed(p, off, NextKey(p, off, 0))
          [] c = "$"  -> Read(Item("end", FALSE, Nul), off)
          [] c = "^"  -> Read(Item("start", FALSE, Nul), off)
          [] c = "."  -> Read(Item("any", FALSE, Nul), off)
          [] c = "\\" -> Read(Escaped(At(p, off + 1)), off + 1)
          [] OTHER    -> Read(Item("char", FALSE, c), off)

\* How often the piece that ends at last is wanted, and where that ends.
Mark(p, last) ==
    IF At(p, last + 1) \in {"+", "?", "*", "{"} THEN NextRepeat(p, last + 1)
    ELSE [rep |-> NoRep, off |-> last]

Before(item, rest) ==
    IF rest.ok THEN [ok |-> TRUE, next |-> <<item>> \o rest.next] ELSE Refused

Followed(p, item, mark) ==
    Before([item EXCEPT !.rep = mark.rep],
           IF mark.off + 1 < Len(p) THEN CompilePattern(p, mark.off + 1)
           ELSE [ok |-> TRUE, next |-> <<>>])

Kept(p, x) == IF x.ok THEN Followed(p, x.item, Mark(p, x.last)) ELSE Refused

CompilePattern(p, off) == Kept(p, PieceRead(p, off))

Alternatives(p, stops) ==
    [i \in DOMAIN stops |->
        CompilePattern(Piece(p, IF i = 1 THEN 0 ELSE stops[i - 1] + 1, stops[i]), 0)]

Choice(alts) ==
    IF \E i \in DOMAIN alts : ~alts[i].ok THEN Refused
    ELSE [ok |-> TRUE, next |-> [i \in DOMAIN alts |-> Item("seq", FALSE, alts[i].next)]]

Compile(p) ==
    IF p = <<>> THEN [ok |-> TRUE, next |-> <<>>]
    ELSE Choice(Alternatives(p, Append(Bars(p, 0), Len(p))))

-----------------------------------------------------------------------------
(* _search( value, offset, item ): the length that matched, 0 for nothing  *)
(* (or for a sequence that failed), -1 for a failure; and the memory, to   *)
(* which every group that matched has added its text, also when what       *)
(* follows the group fails.                                                *)

Same(a, b, icase) == IF icase THEN Lower(a) = Lower(b) ELSE a = b

\* The pieces that look at one symbol.
Fits(value, offset, item, icase) ==
    LET c == At(value, offset) IN
    CASE item.flag = "any"   -> TRUE
      [] item.flag = "char"  -> Same(item.data, c, icase)
      [] item.flag = "set"   -> (\E d \in item.data : Same(d, c, icase)) # item.neg
      [] item.flag = "edge"  -> (offset = 0 \/ offset >= Len(value) - 1) # item.neg
      [] item.flag = "alnum" -> IsAlnum(c) # item.neg
      [] item.flag = "digit" -> IsDigit(c) # item.neg
      [] item.flag = "space" -> IsSpace(c) # item.neg
      [] item.flag = "print" -> IsPrint(c) # item.neg

\* What the walk does with a repeated piece after its rep-th attempt.
Again(rep, range) == range[2] = -1 \/ rep < range[2]

BadEnough(rep, range) == rep >= range[1] /\ (range[2] = -1 \/ rep <= range[2])

Enough(rep, range) == rep > range[1] /\ (range[2] = -1 \/ rep <= range[2])

RECURSIVE Search1(_, _, _, _, _), Group(_, _, _, _, _), Walk(_, _, _, _, _, _, _, _)

Search1(value, offset, item, icase, mem) ==
    LET z(n) == [z |-> n, mem |-> mem] IN
    CASE item.flag = "start" -> z(IF offset = 0 THEN 0 ELSE -1)
      [] item.flag = "end"   -> z(IF offset >= Len(value) - 1 THEN 0 ELSE -1)
      [] item.flag = "group" -> Group(value, offset, item.data, icase, mem)
      [] item.flag = "seq"   -> Walk(value, offset, offset, item.data, 0, 0, icase, mem)
      [] OTHER               -> z(IF Fits(value, offset, item, icase) THEN 1 ELSE -1)

Group(value, offset, alts, icase, mem) ==
    LET Tried(r) ==
            IF r.z >= 1
            THEN [z |-> r.z, mem |-> Append(r.mem, Piece(value, offset, offset + r.z))]
            ELSE Group(value, offset, Tail(alts), icase, r.mem)
    IN  IF alts = <<>> THEN [z |-> -1, mem |-> mem]
        ELSE Tried(Search1(value, offset, Head(alts), icase, mem))

Walk(value, tmp, offset, next, count, out, icase, mem) ==
    IF next = <<>> THEN [z |-> out, mem |-> mem]
    ELSE IF offset > Len(value)
    THEN [z |-> IF Len(next) > 1 THEN -1 ELSE out, mem |-> mem]
    ELSE
    LET x   == Head(next)
        rep == count + 1
        Tried(r, now) ==
            IF x.flag = "seq" /\ r.z >= 1 THEN [z |-> now - tmp, mem |-> r.mem]
            ELSE IF r.z < 0 /\ (x.rep = NoRep \/ ~Enough(rep, x.rep)) THEN [z |-> 0, mem |-> r.mem]
            ELSE LET stays == r.z >= 1 /\ x.rep # NoRep /\ Again(rep, x.rep) IN
                 Walk(value, tmp, now, IF stays THEN next ELSE Tail(next),
                      IF stays THEN rep ELSE 0, now - tmp, icase, r.mem)
        Moved(r) == Tried(r, IF r.z >= 1 THEN offset + r.z ELSE offset)
    IN  Moved(Search1(value, offset, x, icase, mem))

-----------------------------------------------------------------------------
(* The public operations of a regex: [next |-> alternatives, icase].       *)

\* search( value, off ) and the memory it leaves.
RECURSIVE SearchFrom(_, _, _, _)
SearchFrom(re, value, off, mem) ==
    LET From(r) == IF r.z <= 0 THEN SearchFrom(re, value, off + 1, r.mem)
                   ELSE [range |-> <<off, off + r.z>>, mem |-> r.mem]
    IN  IF off >= Len(value) THEN [range |-> <<>>, mem |-> mem]
        ELSE From(Walk(value, off, off, re.next, 0, 0, re.icase, mem))

Search(re, value, off) == SearchFrom(re, value, off, <<>>).range

RECURSIVE SearchAllFrom(_, _, _, _)
SearchAllFrom(re, value, off, mem) ==
    LET After(s) ==
            IF s.range = <<>> THEN [ranges |-> <<>>, mem |-> s.mem]
            ELSE [SearchAllFrom(re, value, s.range[2], s.mem) EXCEPT !.ranges = <<s.range>> \o @]
    IN  After(SearchFrom(re, value, off, mem))

SearchAll(re, value) == SearchAllFrom(re, value, 0, <<>>).ranges
Memory(re, value)    == SearchAllFrom(re, value, 0, <<>>).mem

\* What both engines do with the ranges they found; from the last range to
\* the first, so that the others stay right.
Cuts(all, value) == [i \in DOMAIN all |-> Piece(value, all[i][1], all[i][2])]

FirstOf(r, value) == IF r = <<>> THEN <<>> ELSE Piece(value, r[1], r[2])

Between(all, value) ==
    LET end(i) == IF i = 0 THEN 0 ELSE all[i][2]
    IN  IF all = <<>> THEN <<value>>
        ELSE [i \in 1..(Len(all) + 1) |->
                Piece(value, end(i - 1), IF i > Len(all) THEN Len(value) ELSE all[i][1])]

PutFor(all, value, by) ==
    FoldRight(LAMBDA r, s : SpliceIn(s, r[1], r[2] - r[1], by).left, all, value)

PutForOne(r, value, by) ==
    IF r = <<>> THEN value ELSE SpliceIn(value, r[1], r[2] - r[1], by).left

TakenAway(all, value) ==
    FoldRight(LAMBDA r, s : Splice(s, r[1], r[2] - r[1]).left, all, value)

OneTakenAway(r, value) ==
    IF r = <<>> THEN value ELSE Splice(value, r[1], r[2] - r[1]).left

Test(re, value)     == Search(re, value, 0) # <<>>
Match(re, value)    == FirstOf(Search(re, value, 0), value)
MatchAll(re, value) == Cuts(SearchAll(re, value), value)
SplitBy(re, value)  == Between(SearchAll(re, value), value)
ReplaceEach(re, value, by) == PutFor(SearchAll(re, value), value, by)
ReplaceOne(re, value, by)  == PutForOne(Search(re, value, 0), value, by)
RemoveEach(re, value) == TakenAway(SearchAll(re, value), value)
RemoveOne(re, value)  == OneTakenAway(Search(re, value, 0), value)

Regex(p)      == [next |-> Compile(p).next, icase |-> FALSE]
RegexCased(p) == [next |-> Compile(p).next, icase |-> TRUE]

\* regex::format( val, args ): ${n} becomes args[n].
Place  == Regex(<<"\\", "$", "\\", "{", "\\", "d", "+", "\\", "}">>)
Places == Regex(<<"\\", "d", "+">>)

Format(val, args) ==
    LET Placed(o, r, y) == IF y >= Len(args) THEN o
                         ELSE [out |-> o.out \o Piece(val, o.idx, r[1]) \o args[y + 1],
                               idx |-> r[2]]
        Whole(done) == done.out \o Piece(val, done.idx, Len(val))
    IN  IF args = <<>> THEN val
        ELSE Whole(FoldLeft(LAMBDA o, r : Placed(o, r, Number(Match(Places, Piece(val, r[1], r[2])))),
                            [out |-> <<>>, idx |-> 0], SearchAll(Place, val)))

-----------------------------------------------------------------------------
(* The other engine of regex.h (lines 411-796), built for Arduino and        *)
(* WebAssembly: the pattern is read anew at every attempt, piece by piece,   *)
(* while the text is walked.  Pieces, brackets and bounds are read as above. *)

\* get_next_regex(): where the alternatives begin.
Steps(p) == <<0>> \o [i \in DOMAIN Bars(p, 0) |-> Bars(p, 0)[i] + 1]

\* get_next_repeat(): without a mark, once and 0 for no upper bound.
Repeat(p, pos) ==
    CASE At(p, pos) = "{" -> [rep |-> Rep(p, pos, NextKey(p, pos, 0)),
                              pos |-> NextKey(p, pos, 0) + 1]
      [] At(p, pos) = "?" -> [rep |-> <<0, 1>>, pos |-> pos + 1]
      [] At(p, pos) = "*" -> [rep |-> <<0, -1>>, pos |-> pos + 1]
      [] At(p, pos) = "+" -> [rep |-> <<1, -1>>, pos |-> pos + 1]
      [] OTHER            -> [rep |-> <<1, 0>>, pos |-> pos]

\* compile(): the piece at pos and the position of its last symbol.  An
\* escaped symbol is compared as it is, whatever icase says.
Escape(c) == IF c \in DOMAIN Class THEN Class[c] ELSE Item("exact", FALSE, c)

PieceAt(p, pos) ==
    LET c    == At(p, pos)
        end  == NextKey(p, pos, 0)
        neg  == At(p, pos + 1) = "^"
    IN  CASE c = "("  -> [item |-> Item("group", FALSE, Piece(p, pos + 1, end)), last |-> end]
          [] c = "["  -> [item |-> Item("set", neg, CompileRange(
                                        Piece(p, pos + (IF neg THEN 2 ELSE 1), end))), last |-> end]
          [] c = "$"  -> [item |-> Item("end", FALSE, Nul), last |-> pos]
          [] c = "^"  -> [item |-> Item("start", FALSE, Nul), last |-> pos]
          [] c = "."  -> [item |-> Item("any", FALSE, Nul), last |-> pos]
          [] c = "\\" -> [item |-> Escape(At(p, pos + 1)), last |-> pos + 1]
          [] OTHER    -> [item |-> Item("char", FALSE, c), last |-> pos]

\* The symbols a pattern may go on with when the text is over.
Going == {"$", "*", "+", "?", "|", "{", "}", "[", "]", "(", ")"}

MoreWanted(n, rep) == rep[2] = -1 \/ n < rep[1] \/ n < rep[2]

\* What check_reg_pattern() says after n times, at the text's end or not.
Outcome(p, pos, over, n, rep) ==
    IF over
    THEN IF (pos < Len(p) => At(p, pos) \in Going) /\ n >= rep[1] THEN "close" ELSE "fail"
    ELSE IF n < rep[1] THEN "fail"
    ELSE IF rep[2] = -1 \/ n < rep[2] \/ (n = 0 /\ rep[1] = 0) THEN "skip"
    ELSE "next"

\* A walk over the text: the place in the pattern, the place in the text,
\* the range found so far and the memory.
\* compile_cmd(), compile_flg() and comparator(): a piece that looks at one
\* symbol.
Hit(str, item, at, icase) ==
    CASE item.flag = "exact" -> At(str, at) = item.data
      [] item.flag = "start" -> at = 0
      [] item.flag = "end"   -> at >= Len(str) - 1
      [] OTHER               -> Fits(str, at, item, icase)

RECURSIVE Tries(_, _, _, _, _), March(_, _, _, _), Once(_, _, _, _, _)

\* The piece again and again: s with how often it fitted.
Tries(str, item, rep, icase, s) ==
    LET Fitted(at, to, mem) ==
            LET r == [s EXCEPT !.at = at, !.to = to, !.n = @ + 1, !.mem = mem]
            IN  IF MoreWanted(r.n, rep)
                THEN Tries(str, item, rep, icase, [r EXCEPT !.at = @ + 1]) ELSE r
        Grouped(range) ==
            IF range = <<>> THEN s
            ELSE Fitted(range[2] - 1, range[2], Append(s.mem, Piece(str, range[1], range[2])))
    IN  IF item.flag # "edge" /\ s.at >= Len(str) THEN s
        ELSE IF item.flag = "group"
        THEN Grouped(Once([p |-> item.data, icase |-> icase], str, s.at, Steps(item.data), <<>>).range)
        ELSE IF item.flag \notin {"start", "end"} /\ Hit(str, item, s.at, icase)
        THEN Fitted(s.at, s.to + 1, s.mem)
        ELSE s

\* compile(), called until it returns something else than 1.
March(p, str, icase, s) ==
    LET Says(item, again, t) ==
            IF /\ \/ item.flag = "end"
                  \/ item.flag = "start" /\ s.at < Len(str)
               /\ Hit(str, item, s.at, icase)
            THEN "skip" ELSE Outcome(p, again.pos, t.at >= Len(str), t.n, again.rep)
        Goes(says, u) ==
            CASE says = "fail"  -> [u EXCEPT !.from = u.to]
              [] says = "close" -> u
              [] says = "skip"  -> March(p, str, icase, u)
              [] says = "next"  -> March(p, str, icase, [u EXCEPT !.at = @ + 1])
        Tried(item, again, t) == Goes(Says(item, again, t), [t EXCEPT !.pos = again.pos])
        Try(item, again) ==
            Tried(item, again, Tries(str, item, again.rep, icase, [s EXCEPT !.n = 0]))
        Read(piece) ==
            IF \/ At(p, s.pos) \in Closes \cup {"{"}
               \/ At(p, s.pos) \in Opens /\ piece.last >= Len(p)
            THEN [s EXCEPT !.from = 0, !.to = 0]
            ELSE Try(piece.item, Repeat(p, piece.last + 1))
    IN  IF s.pos >= Len(p) \/ At(p, s.pos) = "|" THEN s ELSE Read(PieceAt(p, s.pos))

\* _search(): the alternatives in order, at one place.
Once(re, str, off, steps, mem) ==
    LET Found(s) == IF s.from # s.to THEN [range |-> <<s.from, s.to>>, mem |-> s.mem]
                    ELSE Once(re, str, off, Tail(steps), s.mem)
    IN  IF steps = <<>> \/ re.p = <<>> \/ str = <<>> THEN [range |-> <<>>, mem |-> mem]
        ELSE Found(March(re.p, str, re.icase,
                         [pos |-> Head(steps), at |-> off, from |-> off, to |-> off,
                          n |-> 0, mem |-> mem]))

-----------------------------------------------------------------------------
(* The public operations of a regex: [p |-> the pattern, icase].           *)

RECURSIVE LiteSearch(_, _, _, _), LiteAll(_, _, _, _)
LiteSearch(re, str, off, mem) ==
    LET From(o) == IF o.range = <<>> THEN LiteSearch(re, str, off + 1, o.mem) ELSE o
    IN  IF off >= Len(str) THEN [range |-> <<>>, mem |-> mem]
        ELSE From(Once(re, str, off, Steps(re.p), mem))

LiteAll(re, str, off, mem) ==
    LET After(s) ==
            IF s.range = <<>> THEN [ranges |-> <<>>, mem |-> s.mem]
            ELSE [LiteAll(re, str, s.range[2], s.mem) EXCEPT !.ranges = <<s.range>> \o @]
    IN  After(LiteSearch(re, str, off, mem))

LiteSearchAll(re, str) == LiteAll(re, str, 0, <<>>).ranges
LiteMemory(re, str)    == LiteAll(re, str, 0, <<>>).mem

LiteFirst(re, str)     == LiteSearch(re, str, 0, <<>>).range
LiteTest(re, str)      == LiteFirst(re, str) # <<>>
LiteMatch(re, str)     == FirstOf(LiteFirst(re, str), str)
LiteMatchAll(re, str)  == Cuts(LiteSearchAll(re, str), str)
LiteSplit(re, str)     == Between(LiteSearchAll(re, str), str)
LiteReplaceAll(re, str, by) == PutFor(LiteSearchAll(re, str), str, by)
LiteReplace(re, str, by)    == PutForOne(LiteFirst(re, str), str, by)
LiteRemoveAll(re, str) == TakenAway(LiteSearchAll(re, str), str)
LiteRemove(re, str)    == OneTakenAway(LiteFirst(re, str), str)

=============================================================================
