-------------------------- MODULE ScrollBuffer_proofs --------------------------
(***************************************************************************)
(* The scroll back buffer of any size, for a window of any rows: its index *)
(* stays in order and in its bounds, there is room for the line that is    *)
(* being written, output stays in view, and finished lines are kept.  The  *)
(* theorems assume ShortLines, to which the code does not hold the host    *)
(* and without which it leaves its buffer (ScrollBuffer_Half.cfg,          *)
(* ScrollBuffer_Tab.cfg).                                                  *)
(***************************************************************************)
EXTENDS ScrollBuffer, NaturalsInduction, WellFoundedInduction, TLAPS

----------------------------------------------------------------------------
(* Sizes *)

\* A line with its LF, the bytes of a buffer of n lines, and those n lines take.
Longest == MaxLine + 1
Bytes(n) == n * LineBytes
Span(n) == n * Longest

\* The sizes a buffer may have.
LineSizes ==
    {LineSizeMax} \cup
    CHOOSE Sizes \in SUBSET (LineSize0..Half) :
        LineSize0 \in Sizes /\ \A n \in Sizes : 2 * n \in Sizes \cup {LineSizeMax}

LEMMA Constants ==
    /\ LineSize0 \in Nat /\ LineSize0 > 3 /\ LineSizeMax \in Nat /\ LineBytes \in Nat \ {0}
    /\ Slack \in Nat /\ Cols \in Nat \ {0} /\ TabStop \in Nat \ {0} /\ MaxLine \in Nat \ {0}
    /\ Longest \in Nat /\ Longest = MaxLine + 1
    /\ CharBytes \subseteq 1..4
    /\ Rows \subseteq Nat /\ \A r \in Rows : 0 < r /\ r < LineSize0
BY SizesAssumption DEF Longest

LEMMA HalfSize ==
    /\ Half \in Nat /\ LineSize0 <= Half
    /\ 2 * Half <= LineSizeMax /\ LineSizeMax <= 2 * Half + 1
<1>1. \E Sizes \in SUBSET (LineSize0..Half) : LineSize0 \in Sizes
  BY SizesAssumption
<1>2. LineSizeMax \in Nat
  BY Constants
<1>3. Half \in Nat /\ 2 * Half <= LineSizeMax /\ LineSizeMax <= 2 * Half + 1
  BY <1>2 DEF Half
<1>4. LineSize0 <= Half
  BY <1>1, <1>3, Constants
<1> QED BY <1>3, <1>4

LEMMA Doubling ==
    /\ LineSize0 \in LineSizes
    /\ \A n \in LineSizes : /\ n \in Nat /\ LineSize0 <= n /\ n <= LineSizeMax
                            /\ n < LineSizeMax => 2 * n \in LineSizes
<1> DEFINE P(S) == LineSize0 \in S /\ \A n \in S : 2 * n \in S \cup {LineSizeMax}
           C == CHOOSE S \in SUBSET (LineSize0..Half) : P(S)
<1>1. \E S \in SUBSET (LineSize0..Half) : P(S)
  BY SizesAssumption
<1>2. C \in SUBSET (LineSize0..Half) /\ P(C)
  <2> HIDE DEF P
  <2> QED BY <1>1
<1>3. LineSizes = {LineSizeMax} \cup C
  BY DEF LineSizes
<1> HIDE DEF C
<1> QED BY <1>2, <1>3, HalfSize, Constants

LEMMA SizeIs ==
    ASSUME NEW n \in LineSizes
    PROVE  n \in Nat /\ n > 3 /\ n >= LineSize0 /\ n <= LineSizeMax
<1>1. n \in Nat /\ LineSize0 <= n /\ n <= LineSizeMax
  BY Doubling
<1> QED BY <1>1, Constants

LEMMA Products ==
    /\ \A n \in Nat : Bytes(n) \in Nat /\ Bytes(2 * n) = Bytes(n) + Bytes(n)
    /\ \A m, n \in Nat : m <= n => Bytes(m) <= Bytes(n)
    /\ Slack < Bytes(LineSize0)
    /\ Span(0) = 0
    /\ \A n \in Nat : Span(n) \in Nat /\ Span(n + 1) = Span(n) + Longest
    /\ \A m, n \in Nat : m <= n => Span(m) <= Span(n)
<1>1. ASSUME NEW k \in Nat, NEW m \in Nat, NEW n \in Nat, m <= n PROVE m * k <= n * k
  <2>1. PICK d \in Nat : n = m + d
    <3>1. n - m \in Nat /\ n = m + (n - m)
      BY <1>1
    <3> QED BY <3>1
  <2>2. n * k = m * k + d * k /\ d * k \in Nat /\ m * k \in Nat
    BY <2>1
  <2> QED BY <2>2
<1>2. ASSUME NEW k \in Nat, NEW n \in Nat
      PROVE  n * k \in Nat /\ (2 * n) * k = n * k + n * k /\ (n + 1) * k = n * k + k /\ 0 * k = 0
  OBVIOUS
<1> QED BY <1>1, <1>2, Constants, SizesAssumption DEF Bytes, Span

LEMMA Short == ShortLines => /\ Span(Half - 1) <= Bytes(LineSizeMax) - Slack
                             /\ MaxLine <= Slack
BY DEF ShortLines, Span, Bytes, Longest

----------------------------------------------------------------------------
(* Buffers *)

\* A buffer has these parts; of what values, the predicates below say.
IsBuffer(b) ==
    \E U : b \in [line : U, line_size : U, cursor_x : U, cursor_y : U, screen_y : U,
                  bScrollbar : U, cont : U]

\* What the index is, and how far apart its lines are; the cursor's line may be
\* one that next_line() has begun and looks at: one more than a buffer is left with.
Sized(b) ==
    /\ b.line_size \in LineSizes
    /\ b.line \in [0..(b.line_size - 1) -> Nat]
    /\ b.cursor_y \in 0..(b.line_size - 2)
    /\ b.line[0] = 0
    /\ End(b) <= Start(b) + MaxLine
Ascending(b) == \A i, j \in 0..(b.cursor_y + 1) : i <= j => b.line[i] <= b.line[j]
ZeroAfter(b) == \A i \in (b.cursor_y + 2)..(b.line_size - 1) : b.line[i] = 0
Spread(b) == \A i, j \in 0..b.cursor_y : i <= j => b.line[j] <= b.line[i] + Span(j - i)
Index(b) == Sized(b) /\ Ascending(b) /\ ZeroAfter(b) /\ Spread(b)

\* Where a buffer is left: there are lines and bytes for the next line.
Room(b) ==
    /\ b.cursor_y <= b.line_size - 3
    /\ Start(b) + Slack <= Bytes(b.line_size)

Cursor(b) ==
    /\ b.cursor_x \in Int /\ b.cont \in SUBSET Int
    /\ Start(b) - 1 <= b.cursor_x /\ b.cursor_x <= Start(b) + MaxLine
    /\ \A i \in b.cont : i >= Start(b)

View(b) ==
    /\ b.screen_y \in Nat /\ b.screen_y <= b.cursor_y
    /\ b.bScrollbar \in BOOLEAN

Good(b) == IsBuffer(b) /\ Index(b) /\ Room(b) /\ Cursor(b) /\ View(b)

\* The buffer next_line() is called for: the cursor is behind the start of its line.
Ready(b) ==
    /\ IsBuffer(b) /\ Index(b) /\ Room(b) /\ View(b)
    /\ b.cursor_x \in Int /\ b.cont \in SUBSET Int
    /\ Start(b) < b.cursor_x /\ b.cursor_x <= Start(b) + Longest

LEMMA AdvancedIs ==
    ASSUME NEW b, IsBuffer(b)
    PROVE  LET a == Advanced(b)
               y == b.cursor_y + 1
           IN  /\ IsBuffer(a) /\ a.line_size = b.line_size /\ a.cursor_x = b.cursor_x
               /\ a.cursor_y = y
               /\ a.line = [b.line EXCEPT ![y] = b.cursor_x,
                                          ![y + 1] = IF @ < b.cursor_x THEN b.cursor_x ELSE @]
               /\ a.screen_y = IF b.screen_y = y - size_y THEN b.screen_y + 1 ELSE b.screen_y
               /\ a.bScrollbar = b.bScrollbar
               /\ a.cont = {i \in b.cont : i >= b.cursor_x}
<1>1. PICK U : b \in [line : U, line_size : U, cursor_x : U, cursor_y : U, screen_y : U,
                      bScrollbar : U, cont : U]
  BY DEF IsBuffer
<1> DEFINE y == b.cursor_y + 1
           l == [b.line EXCEPT ![y] = b.cursor_x,
                               ![y + 1] = IF @ < b.cursor_x THEN b.cursor_x ELSE @]
           top == IF b.screen_y = y - size_y THEN b.screen_y + 1 ELSE b.screen_y
           c == {i \in b.cont : i >= b.cursor_x}
<1>2. Advanced(b) = [b EXCEPT !.cursor_y = y, !.line = l, !.screen_y = top, !.cont = c]
  BY Zenon DEF Advanced
<1> HIDE DEF y, l, top, c
<1> DEFINE V == U \cup {y, l, top, c}
           a == [b EXCEPT !.cursor_y = y, !.line = l, !.screen_y = top, !.cont = c]
<1>3. a \in [line : V, line_size : V, cursor_x : V, cursor_y : V, screen_y : V, bScrollbar : V, cont : V]
  BY <1>1
<1>4. /\ a.line_size = b.line_size /\ a.cursor_x = b.cursor_x /\ a.cursor_y = y /\ a.line = l
      /\ a.screen_y = top /\ a.bScrollbar = b.bScrollbar /\ a.cont = c
  BY <1>1
<1>5. IsBuffer(a)
  BY <1>3 DEF IsBuffer
<1> QED BY <1>2, <1>4, <1>5 DEF y, l, top, c

LEMMA GrownIs ==
    ASSUME NEW b, IsBuffer(b)
    PROVE  LET g == Grown(b)
           IN  /\ IsBuffer(g) /\ g.line_size = 2 * b.line_size
               /\ g.line = [i \in 0..(2 * b.line_size - 1) |-> IF i < b.line_size THEN b.line[i] ELSE 0]
               /\ g.cursor_x = b.cursor_x /\ g.cursor_y = b.cursor_y /\ g.screen_y = b.screen_y
               /\ g.bScrollbar = b.bScrollbar /\ g.cont = b.cont
<1>1. PICK U : b \in [line : U, line_size : U, cursor_x : U, cursor_y : U, screen_y : U,
                      bScrollbar : U, cont : U]
  BY DEF IsBuffer
<1> DEFINE n == 2 * b.line_size
           l == [i \in 0..(2 * b.line_size - 1) |-> IF i < b.line_size THEN b.line[i] ELSE 0]
<1>2. Grown(b) = [b EXCEPT !.line_size = n, !.line = l]
  BY <1>1 DEF Grown
<1> HIDE DEF n, l
<1> DEFINE V == U \cup {n, l}
           a == [b EXCEPT !.line_size = n, !.line = l]
<1>3. a \in [line : V, line_size : V, cursor_x : V, cursor_y : V, screen_y : V, bScrollbar : V, cont : V]
  BY <1>1
<1>4. /\ a.line_size = n /\ a.line = l /\ a.cursor_x = b.cursor_x /\ a.cursor_y = b.cursor_y
      /\ a.screen_y = b.screen_y /\ a.bScrollbar = b.bScrollbar /\ a.cont = b.cont
  BY <1>1
<1>5. IsBuffer(a)
  BY <1>3 DEF IsBuffer
<1> QED BY <1>2, <1>4, <1>5 DEF n, l

LEMMA TrimmedIs ==
    ASSUME NEW b, IsBuffer(b)
    PROVE  LET t == Trimmed(b)
           IN  /\ IsBuffer(t) /\ t.line_size = b.line_size /\ t.line = UpperLines(b)
               /\ t.cursor_x = b.cursor_x - b.line[Half] /\ t.cursor_y = b.cursor_y - Half
               /\ t.screen_y = IF b.screen_y < Half THEN 0 ELSE b.screen_y - Half
               /\ t.bScrollbar = b.bScrollbar /\ t.cont = {}
<1>1. PICK U : b \in [line : U, line_size : U, cursor_x : U, cursor_y : U, screen_y : U,
                      bScrollbar : U, cont : U]
  BY DEF IsBuffer
<1> DEFINE l == UpperLines(b)
           x == b.cursor_x - b.line[Half]
           y == b.cursor_y - Half
           top == IF b.screen_y < Half THEN 0 ELSE b.screen_y - Half
<1>2. Trimmed(b) = [b EXCEPT !.line = l, !.screen_y = top, !.cursor_y = y, !.cursor_x = x, !.cont = {}]
  BY <1>1 DEF Trimmed
<1> HIDE DEF l, x, y, top
<1> DEFINE V == U \cup {l, x, y, top, {}}
           a == [b EXCEPT !.line = l, !.screen_y = top, !.cursor_y = y, !.cursor_x = x, !.cont = {}]
<1>3. a \in [line : V, line_size : V, cursor_x : V, cursor_y : V, screen_y : V, bScrollbar : V, cont : V]
  BY <1>1
<1>4. /\ a.line_size = b.line_size /\ a.line = l /\ a.cursor_x = x /\ a.cursor_y = y
      /\ a.screen_y = top /\ a.bScrollbar = b.bScrollbar /\ a.cont = {}
  BY <1>1
<1>5. IsBuffer(a)
  BY <1>3 DEF IsBuffer
<1> QED BY <1>2, <1>4, <1>5 DEF l, x, y, top

LEMMA PutIs ==
    ASSUME NEW b, IsBuffer(b), NEW isCont \in BOOLEAN
    PROVE  LET p == Put(b, isCont)
           IN  /\ IsBuffer(p) /\ p.line_size = b.line_size /\ p.cursor_x = b.cursor_x + 1
               /\ p.line = [b.line EXCEPT ![b.cursor_y + 1] =
                                IF @ < b.cursor_x + 1 THEN b.cursor_x + 1 ELSE @]
               /\ p.cursor_y = b.cursor_y /\ p.screen_y = b.screen_y /\ p.bScrollbar = b.bScrollbar
               /\ p.cont = IF isCont THEN b.cont \cup {b.cursor_x} ELSE b.cont \ {b.cursor_x}
<1>1. PICK U : b \in [line : U, line_size : U, cursor_x : U, cursor_y : U, screen_y : U,
                      bScrollbar : U, cont : U]
  BY DEF IsBuffer
<1> DEFINE x == b.cursor_x + 1
           l == [b.line EXCEPT ![b.cursor_y + 1] = IF @ < b.cursor_x + 1 THEN b.cursor_x + 1 ELSE @]
           c == IF isCont THEN b.cont \cup {b.cursor_x} ELSE b.cont \ {b.cursor_x}
<1>2. Put(b, isCont) = [b EXCEPT !.cursor_x = x, !.line = l, !.cont = c]
  BY <1>1 DEF Put
<1> HIDE DEF l, x, c
<1> DEFINE V == U \cup {l, x, c}
           a == [b EXCEPT !.cursor_x = x, !.line = l, !.cont = c]
<1>3. a \in [line : V, line_size : V, cursor_x : V, cursor_y : V, screen_y : V, bScrollbar : V, cont : V]
  BY <1>1
<1>4. /\ a.line_size = b.line_size /\ a.line = l /\ a.cursor_x = x /\ a.cursor_y = b.cursor_y
      /\ a.screen_y = b.screen_y /\ a.bScrollbar = b.bScrollbar /\ a.cont = c
  BY <1>1
<1>5. IsBuffer(a)
  BY <1>3 DEF IsBuffer
<1> QED BY <1>2, <1>4, <1>5 DEF l, x, c

\* The cursor alone is moved, or the screen.
Move(b, x, c) == [b EXCEPT !.cursor_x = x, !.cont = c]
Look(b, top, bar) == [b EXCEPT !.screen_y = top, !.bScrollbar = bar]

LEMMA MovedIs ==
    ASSUME NEW b, IsBuffer(b), NEW x, NEW c, NEW m, m = Move(b, x, c)
    PROVE  /\ IsBuffer(m) /\ m.line_size = b.line_size /\ m.line = b.line
           /\ m.cursor_x = x /\ m.cursor_y = b.cursor_y /\ m.screen_y = b.screen_y
           /\ m.bScrollbar = b.bScrollbar /\ m.cont = c
<1>1. PICK U : b \in [line : U, line_size : U, cursor_x : U, cursor_y : U, screen_y : U,
                      bScrollbar : U, cont : U]
  BY DEF IsBuffer
<1> DEFINE V == U \cup {x, c}
           a == [b EXCEPT !.cursor_x = x, !.cont = c]
<1>3. a \in [line : V, line_size : V, cursor_x : V, cursor_y : V, screen_y : V, bScrollbar : V, cont : V]
  BY <1>1
<1>4. /\ a.line_size = b.line_size /\ a.line = b.line /\ a.cursor_x = x /\ a.cursor_y = b.cursor_y
      /\ a.screen_y = b.screen_y /\ a.bScrollbar = b.bScrollbar /\ a.cont = c
  BY <1>1
<1>5. IsBuffer(a)
  BY <1>3 DEF IsBuffer
<1> QED BY <1>4, <1>5 DEF Move

LEMMA ViewedIs ==
    ASSUME NEW b, IsBuffer(b), NEW top, NEW bar,
           NEW m, m = Look(b, top, bar)
    PROVE  /\ IsBuffer(m) /\ m.line_size = b.line_size /\ m.line = b.line
           /\ m.cursor_x = b.cursor_x /\ m.cursor_y = b.cursor_y /\ m.screen_y = top
           /\ m.bScrollbar = bar /\ m.cont = b.cont
<1>1. PICK U : b \in [line : U, line_size : U, cursor_x : U, cursor_y : U, screen_y : U,
                      bScrollbar : U, cont : U]
  BY DEF IsBuffer
<1> DEFINE V == U \cup {top, bar}
           a == [b EXCEPT !.screen_y = top, !.bScrollbar = bar]
<1>3. a \in [line : V, line_size : V, cursor_x : V, cursor_y : V, screen_y : V, bScrollbar : V, cont : V]
  BY <1>1
<1>4. /\ a.line_size = b.line_size /\ a.line = b.line /\ a.cursor_x = b.cursor_x
      /\ a.cursor_y = b.cursor_y /\ a.screen_y = top /\ a.bScrollbar = bar /\ a.cont = b.cont
  BY <1>1
<1>5. IsBuffer(a)
  BY <1>3 DEF IsBuffer
<1> QED BY <1>4, <1>5 DEF Look

LEMMA OneMoved ==
    ASSUME NEW b, IsBuffer(b), NEW x, NEW top
    PROVE  /\ [b EXCEPT !.cursor_x = x] = Move(b, x, b.cont)
           /\ [b EXCEPT !.screen_y = top] = Look(b, top, b.bScrollbar)
<1>1. PICK U : b \in [line : U, line_size : U, cursor_x : U, cursor_y : U, screen_y : U,
                      bScrollbar : U, cont : U]
  BY DEF IsBuffer
<1> QED BY <1>1 DEF Move, Look

----------------------------------------------------------------------------
(* next_line() *)

LEMMA ClearedIsGood == Good(Cleared)
<1> DEFINE l == [i \in 0..(LineSize0 - 1) |-> 0]
           c == Cleared
<1>1. /\ c.line = l /\ c.line_size = LineSize0 /\ c.cursor_x = 0 /\ c.cursor_y = 0
      /\ c.screen_y = 0 /\ c.bScrollbar = FALSE /\ c.cont = {}
  BY DEF Cleared
<1>2. IsBuffer(c)
  <2> DEFINE U == {l, LineSize0, 0, FALSE, {}}
  <2>1. c \in [line : U, line_size : U, cursor_x : U, cursor_y : U, screen_y : U,
               bScrollbar : U, cont : U]
    BY DEF Cleared
  <2> QED BY <2>1 DEF IsBuffer
<1>3. l \in [0..(LineSize0 - 1) -> Nat] /\ \A i \in 0..(LineSize0 - 1) : l[i] = 0
  OBVIOUS
<1> HIDE DEF l, c
<1>4. Index(c)
  <2>1. c.line[0] = 0 /\ c.line[1] = 0 /\ c.cursor_y + 1 = 1
    BY <1>1, <1>3, Constants
  <2>2. Sized(c)
    BY <1>1, <1>3, <2>1, Constants, Doubling DEF Sized, Start, End
  <2>3. Ascending(c) /\ ZeroAfter(c)
    BY <1>1, <1>3, <2>1, Constants DEF Ascending, ZeroAfter
  <2>4. ASSUME NEW i \in 0..0, NEW j \in 0..0 PROVE c.line[j] <= c.line[i] + Span(j - i)
    <3>1. i = 0 /\ j = 0 /\ j - i = 0 /\ Span(0) = 0
      BY Products
    <3> QED BY <2>1, <3>1
  <2>5. Spread(c)
    BY <1>1, <2>4 DEF Spread
  <2> QED BY <2>2, <2>3, <2>5 DEF Index
<1>5. Room(c)
  <2>1. c.cursor_y <= c.line_size - 3
    BY <1>1, Constants
  <2>2. c.line[c.cursor_y] = 0
    BY <1>1, <1>3, Constants
  <2>3. 0 + Slack <= Bytes(c.line_size)
    BY <1>1, Constants, Products
  <2> QED BY <2>1, <2>2, <2>3 DEF Room, Start
<1>6. Cursor(c) /\ View(c)
  <2>1. Start(c) = 0
    BY <1>1, <1>3, Constants DEF Start
  <2>2. Cursor(c)
    BY <1>1, <2>1, Constants DEF Cursor
  <2>3. c.bScrollbar \in BOOLEAN
    BY <1>1, Zenon
  <2>4. c.screen_y \in Nat /\ c.screen_y <= c.cursor_y
    BY <1>1
  <2> QED BY <2>2, <2>3, <2>4 DEF View
<1> QED BY <1>2, <1>4, <1>5, <1>6 DEF Good, c

\* A line is begun, which may be the last that the index has a place for.
Begun(b) ==
    /\ IsBuffer(b) /\ Index(b) /\ View(b)
    /\ b.cursor_x \in Int /\ b.cont \in SUBSET Int
    /\ b.cursor_x = Start(b) /\ \A i \in b.cont : i >= Start(b)
    /\ Start(b) + Slack <= Bytes(b.line_size) + Longest
    /\ b.cursor_y > 0

LEMMA AdvancedIsBegun ==
    ASSUME NEW b, Ready(b), size_y \in Rows
    PROVE  Begun(Advanced(b))
<1> DEFINE a == Advanced(b)
           y == b.cursor_y + 1
           l == b.line
           x == b.cursor_x
<1>1. /\ IsBuffer(a) /\ a.line_size = b.line_size /\ a.cursor_x = x /\ a.cursor_y = y
      /\ a.line = [l EXCEPT ![y] = x, ![y + 1] = IF @ < x THEN x ELSE @]
      /\ a.screen_y = IF b.screen_y = y - size_y THEN b.screen_y + 1 ELSE b.screen_y
      /\ a.bScrollbar = b.bScrollbar /\ a.cont = {i \in b.cont : i >= x}
  BY AdvancedIs DEF Ready
<1> DEFINE n == b.line_size
<1>2. /\ n \in Nat /\ n > 3 /\ n \in LineSizes
      /\ b.cursor_y \in Nat /\ b.cursor_y = y - 1 /\ y \in Nat /\ 0 < y /\ y <= n - 2
  <2>1. n \in LineSizes /\ b.cursor_y \in 0..(n - 2) /\ b.cursor_y <= n - 3
    BY DEF Ready, Index, Sized, Room
  <2>2. n \in Nat /\ n > 3
    <3> HIDE DEF n
    <3> QED BY <2>1, SizeIs
  <2> QED BY <2>1, <2>2
<1>3. l \in [0..(n - 1) -> Nat] /\ l[0] = 0
  BY DEF Ready, Index, Sized
<1>4. \A i, j \in 0..y : i <= j => l[i] <= l[j]
  BY DEF Ready, Index, Ascending
<1>5. \A i \in (y + 1)..(n - 1) : l[i] = 0
  <2>1. y + 1 = b.cursor_y + 2
    BY <1>2
  <2> QED BY <2>1 DEF Ready, Index, ZeroAfter
<1>6. \A i, j \in 0..(y - 1) : i <= j => l[j] <= l[i] + Span(j - i)
  BY <1>2 DEF Ready, Index, Spread
<1>7. x \in Int /\ l[y - 1] < x /\ x <= l[y - 1] + Longest /\ l[y - 1] + Slack <= Bytes(n)
  BY <1>2 DEF Ready, Start, Room
<1> HIDE DEF a, y, l, x, n
<1>8. l[y - 1] \in Nat /\ l[y + 1] = 0 /\ x \in Nat /\ x > 0
  <2>1. y - 1 \in 0..(n - 1) /\ y + 1 \in (y + 1)..(n - 1)
    BY <1>2
  <2>2. l[y - 1] \in Nat /\ l[y + 1] = 0
    BY <1>3, <1>5, <2>1
  <2> QED BY <1>7, <2>2
<1>9. /\ a.line \in [0..(n - 1) -> Nat]
      /\ a.line[y] = x /\ a.line[y + 1] = x
      /\ \A i \in 0..(n - 1) : i # y /\ i # y + 1 => a.line[i] = l[i]
  BY <1>1, <1>2, <1>3, <1>8
<1>10. a.line[0] = 0 /\ \A i \in 0..(y - 1) : a.line[i] = l[i] /\ l[i] \in Nat
  <2>1. 0 \in 0..(n - 1) /\ 0 # y /\ 0 # y + 1
    BY <1>2
  <2>2. ASSUME NEW i \in 0..(y - 1) PROVE a.line[i] = l[i] /\ l[i] \in Nat
    <3>1. i \in 0..(n - 1) /\ i # y /\ i # y + 1
      BY <1>2
    <3> QED BY <1>3, <1>9, <3>1
  <2> QED BY <1>3, <1>9, <2>1, <2>2
<1>11. ASSUME NEW i \in 0..(y + 1), NEW j \in 0..(y + 1), i <= j PROVE a.line[i] <= a.line[j]
  <2>1. CASE j < y
    <3>1. i \in 0..(y - 1) /\ j \in 0..(y - 1) /\ i \in 0..y /\ j \in 0..y
      BY <1>2, <1>11, <2>1
    <3> QED BY <1>4, <1>10, <1>11, <3>1
  <2>2. CASE i < y /\ j >= y
    <3>1. i \in 0..(y - 1) /\ i \in 0..y /\ y - 1 \in 0..y /\ i <= y - 1 /\ (j = y \/ j = y + 1)
      BY <1>2, <2>2
    <3>2. l[i] <= l[y - 1]
      BY <1>4, <3>1
    <3>3. a.line[i] = l[i] /\ a.line[j] = x /\ l[i] \in Nat
      BY <1>9, <1>10, <3>1
    <3> QED BY <1>7, <1>8, <3>2, <3>3
  <2>3. CASE i >= y
    <3>1. (i = y \/ i = y + 1) /\ (j = y \/ j = y + 1)
      BY <1>2, <1>11, <2>3
    <3> QED BY <1>8, <1>9, <3>1
  <2> QED BY <1>2, <1>11, <2>1, <2>2, <2>3
<1>12. \A i \in (y + 2)..(n - 1) : a.line[i] = 0
  <2>1. ASSUME NEW i \in (y + 2)..(n - 1) PROVE a.line[i] = 0
    <3>1. i \in 0..(n - 1) /\ i # y /\ i # y + 1 /\ i \in (y + 1)..(n - 1)
      BY <1>2
    <3> QED BY <1>5, <1>9, <3>1
  <2> QED BY <2>1
<1>13. ASSUME NEW i \in 0..y, NEW j \in 0..y, i <= j PROVE a.line[j] <= a.line[i] + Span(j - i)
  <2>1. CASE j < y
    <3>1. i \in 0..(y - 1) /\ j \in 0..(y - 1)
      BY <1>2, <1>13, <2>1
    <3> QED BY <1>6, <1>10, <1>13, <3>1
  <2>2. CASE i < y /\ j = y
    <3>1. PICK k \in Nat : k = (y - 1) - i /\ i \in 0..(y - 1) /\ y - 1 \in 0..(y - 1) /\ i <= y - 1
      <4>1. (y - 1) - i \in Nat /\ i \in 0..(y - 1) /\ y - 1 \in 0..(y - 1) /\ i <= y - 1
        BY <1>2, <2>2
      <4> QED BY <4>1
    <3>2. l[y - 1] <= l[i] + Span(k)
      BY <1>6, <3>1
    <3>3. j - i = k + 1 /\ Span(k + 1) = Span(k) + Longest /\ Span(k) \in Nat
      <4>1. j - i = k + 1
        BY <1>2, <2>2, <3>1
      <4> QED BY <4>1, Products
    <3>4. a.line[i] = l[i] /\ a.line[j] = x /\ l[i] \in Nat
      BY <1>9, <1>10, <2>2, <3>1
    <3>5. x <= (l[i] + Span(k)) + Longest
      BY <1>7, <1>8, <3>2, <3>3, <3>4, Constants
    <3> QED BY <1>8, <3>3, <3>4, <3>5, Constants
  <2>3. CASE i = y /\ j = y
    <3>1. j - i = 0 /\ Span(0) = 0
      BY <1>2, <2>3, Products
    <3> QED BY <1>8, <1>9, <2>3, <3>1
  <2> QED BY <1>2, <1>13, <2>1, <2>2, <2>3
<1>14. a.line_size = n /\ a.cursor_y = y /\ Start(a) = x /\ End(a) = x
  BY <1>1, <1>9 DEF Start, End, n
<1>15. Index(a)
  <2>1. Sized(a)
    BY <1>2, <1>8, <1>9, <1>10, <1>14, Constants DEF Sized
  <2>2. Ascending(a)
    BY <1>11, <1>14 DEF Ascending
  <2>3. ZeroAfter(a)
    BY <1>12, <1>14 DEF ZeroAfter
  <2>4. Spread(a)
    BY <1>13, <1>14 DEF Spread
  <2> QED BY <2>1, <2>2, <2>3, <2>4 DEF Index
<1>16. View(a)
  <2>1. b.screen_y \in Nat /\ b.screen_y <= y - 1 /\ b.bScrollbar \in BOOLEAN
    BY <1>2 DEF Ready, View
  <2> QED BY <1>1, <1>2, <2>1 DEF View
<1>17. Start(a) + Slack <= Bytes(n) + Longest
  <2>1. Bytes(n) \in Nat
    BY <1>2, Products
  <2> QED BY <1>7, <1>8, <1>14, <2>1, Constants
<1>18. a.cont \in SUBSET Int /\ \A i \in a.cont : i >= Start(a)
  BY <1>1, <1>14 DEF Ready
<1>19. a.cursor_x \in Int /\ a.cursor_x = Start(a) /\ a.cursor_y > 0
  BY <1>1, <1>2, <1>7, <1>14
<1> QED BY <1>1, <1>14, <1>15, <1>16, <1>17, <1>18, <1>19 DEF Begun, a

\* Below are the buffers next_line() leaves, of the one in which it has begun a line.
LEMMA NotFull ==
    ASSUME NEW b, Begun(b), ~Full(b)
    PROVE  Good(b)
<1> DEFINE n == b.line_size
<1>1. n \in LineSizes /\ b.cursor_y \in 0..(n - 2) /\ Start(b) \in Nat
  <2>1. n \in LineSizes /\ b.cursor_y \in 0..(n - 2) /\ b.line \in [0..(n - 1) -> Nat]
    BY DEF Begun, Index, Sized
  <2>2. b.cursor_y \in 0..(n - 1)
    BY <2>1, SizeIs
  <2> QED BY <2>1, <2>2 DEF Start
<1>2. b.cursor_x <= Bytes(n) - Slack /\ b.cursor_y <= n - 3
  <2>1. n \in Nat /\ Bytes(n) \in Nat /\ Bytes(n) = n * LineBytes
    BY <1>1, SizeIs, Products DEF Bytes
  <2>2. ~(b.cursor_x > Bytes(n) - Slack) /\ ~(b.cursor_y > n - 3)
    BY <2>1 DEF Full
  <2>3. b.cursor_x \in Int /\ b.cursor_y \in Int
    BY <1>1 DEF Begun
  <2> HIDE DEF n
  <2> QED BY <2>1, <2>2, <2>3, Constants
<1>3. Room(b)
  <2>1. Bytes(n) \in Nat
    BY <1>1, SizeIs, Products
  <2>2. b.cursor_x = Start(b)
    BY DEF Begun
  <2>3. Start(b) + Slack <= Bytes(n)
    BY <1>1, <1>2, <2>1, <2>2, Constants
  <2> QED BY <1>2, <2>3 DEF Room
<1>4. Cursor(b)
  <2>1. b.cursor_x = Start(b) /\ b.cont \in SUBSET Int /\ \A i \in b.cont : i >= Start(b)
    BY DEF Begun
  <2> QED BY <1>1, <2>1, Constants DEF Cursor
<1> QED BY <1>3, <1>4 DEF Good, Begun

LEMMA GrownIsGood ==
    ASSUME NEW b, Begun(b), b.line_size < LineSizeMax, ShortLines
    PROVE  Good(Grown(b))
<1> DEFINE n == b.line_size
           g == Grown(b)
           y == b.cursor_y
           l == b.line
<1>1. /\ IsBuffer(g) /\ g.line_size = 2 * n
      /\ g.line = [i \in 0..(2 * n - 1) |-> IF i < n THEN l[i] ELSE 0]
      /\ g.cursor_x = b.cursor_x /\ g.cursor_y = y /\ g.screen_y = b.screen_y
      /\ g.bScrollbar = b.bScrollbar /\ g.cont = b.cont
  BY GrownIs DEF Begun
<1>2. n \in LineSizes /\ n < LineSizeMax /\ y \in 0..(n - 2) /\ l \in [0..(n - 1) -> Nat] /\ l[0] = 0
  BY DEF Begun, Index, Sized
<1>3. /\ b.cursor_x = l[y] /\ l[y + 1] <= l[y] + MaxLine /\ l[y] + Slack <= Bytes(n) + Longest
      /\ \A i \in b.cont : i >= l[y]
      /\ b.cont \in SUBSET Int
  BY DEF Begun, Index, Sized, Start, End
<1>4. \A i, j \in 0..(y + 1) : i <= j => l[i] <= l[j]
  BY DEF Begun, Index, Ascending
<1>5. \A i \in (y + 2)..(n - 1) : l[i] = 0
  BY DEF Begun, Index, ZeroAfter
<1>6. \A i, j \in 0..y : i <= j => l[j] <= l[i] + Span(j - i)
  BY DEF Begun, Index, Spread
<1>7. View(g)
  BY <1>1 DEF Begun, View
<1> HIDE DEF n, g, y, l
<1>8. n \in Nat /\ n > 3 /\ n >= LineSize0 /\ 2 * n \in LineSizes
  BY <1>2, SizeIs, Doubling
<1>9. /\ g.line \in [0..(2 * n - 1) -> Nat]
      /\ \A i \in 0..(n - 1) : g.line[i] = l[i] /\ l[i] \in Nat
      /\ \A i \in n..(2 * n - 1) : g.line[i] = 0
  <2>1. \A i \in 0..(n - 1) : i \in 0..(2 * n - 1) /\ i < n /\ l[i] \in Nat
    BY <1>2, <1>8
  <2>2. \A i \in n..(2 * n - 1) : i \in 0..(2 * n - 1) /\ ~(i < n)
    BY <1>8
  <2>3. \A i \in 0..(2 * n - 1) : i < n => i \in 0..(n - 1)
    BY <1>8
  <2> QED BY <1>1, <2>1, <2>2, <2>3
<1>10. \A i \in 0..(y + 1) : i \in 0..(n - 1) /\ g.line[i] = l[i]
  <2>1. \A i \in 0..(y + 1) : i \in 0..(n - 1)
    BY <1>2, <1>8
  <2> QED BY <1>9, <2>1
<1>11. y \in 0..(y + 1) /\ y + 1 \in 0..(y + 1) /\ 0 \in 0..(y + 1) /\ y \in 0..(2 * n - 2)
  BY <1>2, <1>8
<1>12. Start(g) = l[y] /\ End(g) = l[y + 1] /\ l[y] \in Nat
  BY <1>1, <1>9, <1>10, <1>11 DEF Start, End
<1>13. Index(g)
  <2>1. Sized(g)
    BY <1>1, <1>2, <1>3, <1>8, <1>9, <1>10, <1>11, <1>12 DEF Sized
  <2>2. Ascending(g)
    BY <1>1, <1>4, <1>10 DEF Ascending
  <2>3. ASSUME NEW i \in (y + 2)..(2 * n - 1) PROVE g.line[i] = 0
    <3>1. (i \in (y + 2)..(n - 1) /\ i \in 0..(n - 1)) \/ i \in n..(2 * n - 1)
      BY <1>2, <1>8
    <3> QED BY <1>5, <1>9, <3>1
  <2>4. ZeroAfter(g)
    BY <1>1, <2>3 DEF ZeroAfter
  <2>5. \A i \in 0..y : i \in 0..(y + 1)
    BY <1>2
  <2>6. Spread(g)
    BY <1>1, <1>6, <1>10, <2>5 DEF Spread
  <2> QED BY <2>1, <2>2, <2>4, <2>6 DEF Index
<1>14. Room(g)
  <2>1. Bytes(2 * n) = Bytes(n) + Bytes(n) /\ Bytes(n) \in Nat /\ Bytes(LineSize0) <= Bytes(n)
        /\ Slack < Bytes(LineSize0) /\ Bytes(LineSize0) \in Nat
    BY <1>8, Products, Constants
  <2>2. Longest <= Bytes(n)
    BY <2>1, Short, Constants
  <2>3. l[y] + Slack <= Bytes(2 * n)
    BY <1>3, <1>12, <2>1, <2>2, Constants
  <2>4. y <= 2 * n - 3
    BY <1>2, <1>8
  <2> QED BY <1>1, <1>12, <2>3, <2>4 DEF Room
<1>15. Cursor(g)
  BY <1>1, <1>3, <1>12, Constants DEF Cursor
<1> QED BY <1>1, <1>7, <1>13, <1>14, <1>15 DEF Good, g

\* When the largest buffer is full it has half of its lines, however they are filled.
LEMMA FullHasHalf ==
    ASSUME NEW b, Begun(b), Full(b), b.line_size = LineSizeMax, ShortLines
    PROVE  Half <= b.cursor_y
<1> DEFINE y == b.cursor_y
           l == b.line
<1>1. /\ y \in 0..(LineSizeMax - 2) /\ l \in [0..(LineSizeMax - 1) -> Nat] /\ l[0] = 0
      /\ b.cursor_x = l[y]
  BY DEF Begun, Index, Sized, Start
<1>2. l[y] <= l[0] + Span(y - 0)
  <2>1. 0 \in 0..y /\ y \in 0..y /\ 0 <= y
    BY <1>1
  <2> QED BY <2>1 DEF Begun, Index, Spread
<1>3. b.cursor_x > Bytes(LineSizeMax) - Slack \/ y > LineSizeMax - 3
  BY DEF Full, Bytes
<1> HIDE DEF y, l
<1>4. y \in Nat /\ l[y] \in Nat /\ y - 0 = y /\ Span(y) \in Nat
  BY <1>1, Products, Constants
<1>5. SUFFICES ASSUME y < Half PROVE FALSE
  BY <1>4, HalfSize DEF y
<1>6. y <= Half - 1 /\ Half - 1 \in Nat
  BY <1>4, <1>5, HalfSize, Constants
<1>7. Span(y) <= Span(Half - 1) /\ Span(Half - 1) \in Nat
  BY <1>4, <1>6, Products
<1>8. Span(Half - 1) <= Bytes(LineSizeMax) - Slack /\ Bytes(LineSizeMax) \in Nat
  BY Short, Products, Constants
<1>9. b.cursor_x <= Bytes(LineSizeMax) - Slack
  BY <1>1, <1>2, <1>4, <1>7, <1>8, Constants
<1>10. y <= LineSizeMax - 3
  BY <1>4, <1>6, HalfSize, Constants
<1> QED BY <1>1, <1>3, <1>4, <1>8, <1>9, <1>10, Constants

LEMMA UpperLinesAre ==
    ASSUME NEW b, Begun(b), b.line_size = LineSizeMax, Half <= b.cursor_y
    PROVE  /\ UpperLines(b) \in [0..(LineSizeMax - 1) -> Nat]
           /\ \A i \in 0..(b.cursor_y + 1 - Half) :
                 /\ i + Half \in 0..(b.cursor_y + 1)
                 /\ UpperLines(b)[i] = b.line[i + Half] - b.line[Half]
           /\ \A i \in (b.cursor_y + 2 - Half)..(LineSizeMax - 1) : UpperLines(b)[i] = 0
<1> DEFINE n == LineSizeMax
           y == b.cursor_y
           l == b.line
           u == UpperLines(b)
           at(i) == IF i >= n - Half THEN 0
                    ELSE IF i + Half <= y + 1 THEN l[i + Half] - l[Half]
                    ELSE l[i + Half]
<1>1. y \in 0..(n - 2) /\ l \in [0..(n - 1) -> Nat] /\ Half <= y
  BY DEF Begun, Index, Sized
<1>2. \A i, j \in 0..(y + 1) : i <= j => l[i] <= l[j]
  BY DEF Begun, Index, Ascending
<1>3. \A i \in (y + 2)..(n - 1) : l[i] = 0
  BY DEF Begun, Index, ZeroAfter
<1>4. u = [i \in 0..(n - 1) |-> at(i)]
  BY DEF UpperLines
<1> HIDE DEF n, y, l, u, at
<1>5. n \in Nat /\ Half \in Nat /\ Half > 3 /\ 2 * Half <= n /\ n <= 2 * Half + 1 /\ y \in Nat
      /\ y <= n - 2 /\ Half <= y
  BY <1>1, HalfSize, Constants DEF n
<1>6. ASSUME NEW i \in 0..(y + 1 - Half)
      PROVE  /\ i \in 0..(n - 1) /\ i + Half \in 0..(y + 1)
             /\ at(i) = l[i + Half] - l[Half] /\ l[i + Half] - l[Half] \in Nat
  <2>1. /\ i \in 0..(n - 1) /\ i + Half \in 0..(y + 1) /\ Half \in 0..(y + 1) /\ Half <= i + Half
        /\ i + Half \in 0..(n - 1) /\ Half \in 0..(n - 1)
        /\ ~(i >= n - Half) /\ i + Half <= y + 1
    BY <1>5
  <2>2. l[i + Half] \in Nat /\ l[Half] \in Nat /\ l[Half] <= l[i + Half]
    BY <1>1, <1>2, <2>1
  <2>3. at(i) = l[i + Half] - l[Half]
    BY <2>1 DEF at
  <2> QED BY <2>1, <2>2, <2>3
<1>7. ASSUME NEW i \in (y + 2 - Half)..(n - 1)
      PROVE  i \in 0..(n - 1) /\ at(i) = 0
  <2>1. i \in 0..(n - 1)
    BY <1>5
  <2>2. CASE i >= n - Half
    BY <2>1, <2>2 DEF at
  <2>3. CASE ~(i >= n - Half)
    <3>1. i + Half \in (y + 2)..(n - 1) /\ ~(i + Half <= y + 1)
      BY <1>5, <2>3
    <3> QED BY <1>3, <2>1, <2>3, <3>1 DEF at
  <2> QED BY <2>2, <2>3
<1>8. \A i \in 0..(n - 1) : at(i) \in Nat
  <2>1. \A i \in 0..(n - 1) : i \in 0..(y + 1 - Half) \/ i \in (y + 2 - Half)..(n - 1)
    BY <1>5
  <2> QED BY <1>6, <1>7, <2>1
<1>9. u \in [0..(n - 1) -> Nat] /\ \A i \in 0..(n - 1) : u[i] = at(i)
  BY <1>4, <1>8
<1> QED BY <1>6, <1>7, <1>9 DEF n, y, l, u

LEMMA TrimmedIsGood ==
    ASSUME NEW b, Begun(b), b.line_size = LineSizeMax, Half <= b.cursor_y, ShortLines
    PROVE  Good(Trimmed(b))
<1> DEFINE n == LineSizeMax
           y == b.cursor_y - Half
           l == b.line
           t == Trimmed(b)
           u == UpperLines(b)
           m == b.line[Half]
<1>1. /\ IsBuffer(t) /\ t.line_size = n /\ t.line = u /\ t.cursor_x = b.cursor_x - m /\ t.cursor_y = y
      /\ t.screen_y = (IF b.screen_y < Half THEN 0 ELSE b.screen_y - Half)
      /\ t.bScrollbar = b.bScrollbar /\ t.cont = {}
  BY TrimmedIs DEF Begun
<1>2. /\ n \in LineSizes /\ b.cursor_y \in 0..(n - 2) /\ l \in [0..(n - 1) -> Nat]
      /\ b.cursor_x = l[b.cursor_y] /\ l[b.cursor_y + 1] <= l[b.cursor_y] + MaxLine
  BY DEF Begun, Index, Sized, Start, End
<1>3. \A i, j \in 0..(b.cursor_y + 1) : i <= j => l[i] <= l[j]
  BY DEF Begun, Index, Ascending
<1>4. \A i, j \in 0..b.cursor_y : i <= j => l[j] <= l[i] + Span(j - i)
  BY DEF Begun, Index, Spread
<1>5. b.screen_y \in Nat /\ b.screen_y <= b.cursor_y /\ b.bScrollbar \in BOOLEAN
  BY DEF Begun, View
<1>6. n \in Nat /\ Half \in Nat /\ Half > 3 /\ 2 * Half <= n /\ n <= 2 * Half + 1
  BY HalfSize, Constants
<1>7. y \in Nat /\ y <= n - 3 /\ y <= Half - 1 /\ b.cursor_y = y + Half /\ Half - 1 \in Nat
  BY <1>2, <1>6
<1>8. /\ u \in [0..(n - 1) -> Nat]
      /\ \A i \in 0..(y + 1) : i + Half \in 0..(y + Half + 1) /\ u[i] = l[i + Half] - m
      /\ \A i \in (y + 2)..(n - 1) : u[i] = 0
  <2>1. b.cursor_y + 1 - Half = y + 1 /\ b.cursor_y + 2 - Half = y + 2 /\ b.cursor_y + 1 = y + Half + 1
    BY <1>6, <1>7
  <2> QED BY <2>1, UpperLinesAre
<1> HIDE DEF n, y, l, t, u, m
<1>9. m \in Nat /\ m = l[Half] /\ \A i \in 0..(y + Half + 1) : l[i] \in Nat
  <2>1. Half \in 0..(n - 1) /\ \A i \in 0..(y + Half + 1) : i \in 0..(n - 1)
    BY <1>2, <1>6, <1>7
  <2> QED BY <1>2, <2>1 DEF m, l
<1>10. /\ y \in 0..(y + 1) /\ y + 1 \in 0..(y + 1) /\ 0 \in 0..(y + 1)
       /\ u[0] = 0 /\ u[y] = l[y + Half] - m /\ u[y + 1] = l[y + 1 + Half] - m
  <2>1. y \in 0..(y + 1) /\ y + 1 \in 0..(y + 1) /\ 0 \in 0..(y + 1) /\ 0 + Half = Half
    BY <1>6, <1>7
  <2>2. u[0] = l[0 + Half] - m /\ u[y] = l[y + Half] - m /\ u[y + 1] = l[y + 1 + Half] - m
    BY <1>8, <2>1
  <2>3. u[0] = 0
    BY <1>9, <2>1, <2>2
  <2> QED BY <2>1, <2>2, <2>3
<1>11. /\ Start(t) = u[y] /\ End(t) = u[y + 1] /\ u[y] \in Nat
       /\ t.cursor_x = u[y] /\ u[y + 1] <= u[y] + MaxLine
  <2>1. y \in 0..(n - 1) /\ y + 1 + Half = b.cursor_y + 1
    BY <1>6, <1>7
  <2>2. u[y] \in Nat
    BY <1>8, <2>1
  <2>3. y + Half \in 0..(y + Half + 1) /\ y + Half + 1 \in 0..(y + Half + 1) /\ y + 1 + Half = y + Half + 1
    BY <1>6, <1>7
  <2>4. l[y + Half] \in Nat /\ l[y + Half + 1] \in Nat
    BY <1>9, <2>3
  <2>5. u[y + 1] <= u[y] + MaxLine
    <3>1. l[y + Half + 1] <= l[y + Half] + MaxLine
      BY <1>2, <1>7
    <3>2. u[y] = l[y + Half] - m /\ u[y + 1] = l[y + Half + 1] - m
      BY <1>10, <2>3
    <3> QED BY <1>9, <2>4, <3>1, <3>2, Constants
  <2> QED BY <1>1, <1>2, <1>7, <1>10, <2>2, <2>5 DEF Start, End
<1>12. Index(t)
  <2>1. Sized(t)
    BY <1>1, <1>2, <1>6, <1>7, <1>8, <1>10, <1>11 DEF Sized
  <2>2. ASSUME NEW i \in 0..(y + 1), NEW j \in 0..(y + 1), i <= j PROVE u[i] <= u[j]
    <3>1. /\ i + Half \in 0..(b.cursor_y + 1) /\ j + Half \in 0..(b.cursor_y + 1)
          /\ i + Half <= j + Half /\ b.cursor_y + 1 = y + Half + 1
      BY <1>6, <1>7, <2>2
    <3>2. l[i + Half] <= l[j + Half] /\ l[i + Half] \in Nat /\ l[j + Half] \in Nat
      BY <1>3, <1>9, <3>1
    <3>3. u[i] = l[i + Half] - m /\ u[j] = l[j + Half] - m
      BY <1>8
    <3> QED BY <1>9, <3>2, <3>3
  <2>3. Ascending(t)
    BY <1>1, <2>2 DEF Ascending
  <2>4. ZeroAfter(t)
    BY <1>1, <1>8 DEF ZeroAfter
  <2>5. ASSUME NEW i \in 0..y, NEW j \in 0..y, i <= j PROVE u[j] <= u[i] + Span(j - i)
    <3>1. /\ i + Half \in 0..b.cursor_y /\ j + Half \in 0..b.cursor_y /\ i + Half <= j + Half
          /\ (j + Half) - (i + Half) = j - i /\ j - i \in Nat
          /\ i \in 0..(y + 1) /\ j \in 0..(y + 1)
          /\ i + Half \in 0..(y + Half + 1) /\ j + Half \in 0..(y + Half + 1)
      BY <1>6, <1>7, <2>5
    <3>2. l[j + Half] <= l[i + Half] + Span(j - i)
      BY <1>4, <3>1
    <3>3. l[i + Half] \in Nat /\ l[j + Half] \in Nat /\ Span(j - i) \in Nat
      BY <1>9, <3>1, Products
    <3>4. u[i] = l[i + Half] - m /\ u[j] = l[j + Half] - m
      BY <1>8, <3>1
    <3> QED BY <1>9, <3>2, <3>3, <3>4
  <2>6. Spread(t)
    BY <1>1, <2>5 DEF Spread
  <2> QED BY <2>1, <2>3, <2>4, <2>6 DEF Index
<1>13. Room(t)
  <2>1. Half \in 0..b.cursor_y /\ y + Half \in 0..b.cursor_y /\ Half <= y + Half /\ (y + Half) - Half = y
        /\ Half \in 0..(y + Half + 1) /\ y + Half \in 0..(y + Half + 1)
    BY <1>6, <1>7
  <2>2. l[y + Half] <= l[Half] + Span(y)
    BY <1>4, <2>1
  <2>3. l[y + Half] \in Nat /\ l[Half] \in Nat
    BY <1>9, <2>1
  <2>4. Span(y) <= Span(Half - 1) /\ Span(y) \in Nat /\ Span(Half - 1) \in Nat
    BY <1>7, Products
  <2>5. Span(Half - 1) <= Bytes(n) - Slack /\ Bytes(n) \in Nat
    BY <1>6, Short, Products DEF n
  <2>6. u[y] <= Span(y)
    BY <1>9, <1>10, <2>2, <2>3, <2>4
  <2>7. u[y] + Slack <= Bytes(n)
    BY <1>11, <2>4, <2>5, <2>6, Constants
  <2> QED BY <1>1, <1>7, <1>11, <2>7 DEF Room
<1>14. Cursor(t)
  BY <1>1, <1>11, Constants DEF Cursor
<1>15. View(t)
  <2>1. t.screen_y \in Nat /\ t.screen_y <= y
    BY <1>1, <1>5, <1>6, <1>7
  <2> QED BY <1>1, <1>5, <2>1 DEF View
<1> QED BY <1>1, <1>12, <1>13, <1>14, <1>15 DEF Good, t

\* KeptFrom, of any two buffers.
KeptLines(k, b, n) ==
    /\ n.cursor_y + k \in {b.cursor_y, b.cursor_y + 1}
    /\ \A i \in k..(b.cursor_y - 1) :
           n.line[i - k + 1] - n.line[i - k] = b.line[i + 1] - b.line[i]

LinesKept(b, n) ==
    \/ KeptLines(0, b, n)
    \/ b.line_size = LineSizeMax /\ KeptLines(Half, b, n)
    \/ n.line_size = LineSize0 /\ n.cursor_y = 0

Follows(b, n) == CursorShown(b, size_y) => CursorShown(n, size_y)

LEMMA AdvancedKeeps ==
    ASSUME NEW b, Ready(b), size_y \in Rows
    PROVE  LET a == Advanced(b)
           IN  /\ a.line_size = b.line_size /\ a.cursor_y = b.cursor_y + 1
               /\ \A i \in 0..b.cursor_y : a.line[i] = b.line[i]
               /\ Follows(b, a)
<1> DEFINE a == Advanced(b)
           y == b.cursor_y + 1
           l == b.line
           x == b.cursor_x
<1>1. /\ a.line_size = b.line_size /\ a.cursor_y = y
      /\ a.line = [l EXCEPT ![y] = x, ![y + 1] = IF @ < x THEN x ELSE @]
      /\ a.screen_y = IF b.screen_y = y - size_y THEN b.screen_y + 1 ELSE b.screen_y
  BY AdvancedIs DEF Ready
<1>2. /\ b.line_size \in LineSizes /\ b.cursor_y \in 0..(b.line_size - 2)
      /\ l \in [0..(b.line_size - 1) -> Nat]
  BY DEF Ready, Index, Sized
<1>3. b.line_size \in Nat
  BY <1>2, SizeIs
<1> HIDE DEF a, l, x
<1>4. ASSUME NEW i \in 0..b.cursor_y PROVE a.line[i] = l[i]
  <2>1. i \in 0..(b.line_size - 1) /\ i # y /\ i # y + 1
    BY <1>2, <1>3
  <2> QED BY <1>1, <1>2, <2>1
<1>5. Follows(b, a)
  <2>1. b.screen_y \in Nat /\ b.cursor_y \in Nat /\ size_y \in Nat /\ 0 < size_y
    BY <1>2, <1>3, Constants DEF Ready, View
  <2> QED BY <1>1, <2>1 DEF Follows, CursorShown
<1> QED BY <1>1, <1>4, <1>5 DEF a, l

LEMMA NextLineIs ==
    ASSUME NEW b, Ready(b), size_y \in Rows, ShortLines, NEW n \in NextLine(b)
    PROVE  Good(n) /\ n.cursor_x = Start(n) /\ Follows(b, n) /\ LinesKept(b, n)
<1> DEFINE a == Advanced(b)
<1>1. Begun(a)
  BY AdvancedIsBegun
<1>2. /\ a.line_size = b.line_size /\ a.cursor_y = b.cursor_y + 1
      /\ \A i \in 0..b.cursor_y : a.line[i] = b.line[i]
      /\ Follows(b, a)
  BY AdvancedKeeps
<1>3. /\ b.line_size \in LineSizes /\ b.cursor_y \in 0..(b.line_size - 2)
  BY DEF Ready, Index, Sized
<1>4. b.line_size \in Nat /\ b.line_size <= LineSizeMax /\ b.cursor_y \in Nat /\ b.cursor_y <= b.line_size - 2
      /\ size_y \in Nat /\ 0 < size_y
  BY <1>3, SizeIs, Constants
<1>5. IF ~Full(a) THEN n = a
      ELSE IF a.line_size < LineSizeMax THEN n = Grown(a) \/ n = Cleared
      ELSE n = Trimmed(a)
  BY DEF NextLine
<1> HIDE DEF a
<1>6. a.cursor_x = Start(a) /\ a.screen_y \in Nat /\ IsBuffer(a)
  BY <1>1 DEF Begun, View
<1>7. \A i \in 0..(b.cursor_y - 1) : i \in 0..b.cursor_y /\ i + 1 \in 0..b.cursor_y
  BY <1>4
<1>8. CASE ~Full(a) /\ n = a
  <2>1. \A i \in 0..(b.cursor_y - 1) : n.line[i - 0 + 1] - n.line[i - 0] = b.line[i + 1] - b.line[i]
    BY <1>2, <1>7, <1>8
  <2>2. n.cursor_y + 0 = b.cursor_y + 1
    BY <1>2, <1>4, <1>8
  <2>3. LinesKept(b, n)
    BY <2>1, <2>2 DEF LinesKept, KeptLines
  <2> QED BY <1>1, <1>2, <1>6, <1>8, <2>3, NotFull
<1>9. CASE a.line_size < LineSizeMax /\ n = Grown(a)
  <2>1. /\ n.line = [i \in 0..(2 * a.line_size - 1) |-> IF i < a.line_size THEN a.line[i] ELSE 0]
        /\ n.cursor_x = a.cursor_x /\ n.cursor_y = a.cursor_y /\ n.screen_y = a.screen_y
    BY <1>6, <1>9, GrownIs
  <2>2. \A i \in 0..(b.cursor_y + 1) : n.line[i] = a.line[i]
    <3>1. \A i \in 0..(b.cursor_y + 1) : i \in 0..(2 * a.line_size - 1) /\ i < a.line_size
      BY <1>2, <1>4
    <3> QED BY <2>1, <3>1
  <2>3. \A i \in 0..(b.cursor_y - 1) : n.line[i - 0 + 1] - n.line[i - 0] = b.line[i + 1] - b.line[i]
    <3>1. \A i \in 0..b.cursor_y : n.line[i] = b.line[i]
      BY <1>2, <1>4, <2>2
    <3> QED BY <1>7, <3>1
  <2>4. n.cursor_y + 0 = b.cursor_y + 1
    BY <1>2, <1>4, <2>1
  <2>5. LinesKept(b, n)
    BY <2>3, <2>4 DEF LinesKept, KeptLines
  <2>6. Follows(b, n)
    BY <1>2, <2>1 DEF Follows, CursorShown
  <2>7. n.cursor_x = Start(n)
    <3>1. a.cursor_y \in 0..(b.cursor_y + 1)
      BY <1>2, <1>4
    <3> QED BY <1>2, <1>6, <2>1, <2>2, <3>1 DEF Start
  <2> QED BY <1>1, <1>9, <2>5, <2>6, <2>7, GrownIsGood
<1>10. CASE n = Cleared
  <2>1. n.line_size = LineSize0 /\ n.cursor_y = 0 /\ n.screen_y = 0 /\ n.cursor_x = 0 /\ Start(n) = 0
    <3>1. n.line = [i \in 0..(LineSize0 - 1) |-> 0] /\ n.cursor_y = 0
      BY <1>10 DEF Cleared
    <3>2. n.line[0] = 0
      BY <3>1, Constants
    <3> QED BY <1>10, <3>1, <3>2 DEF Cleared, Start
  <2> QED BY <1>4, <1>10, <2>1, ClearedIsGood DEF LinesKept, Follows, CursorShown
<1>11. CASE Full(a) /\ ~(a.line_size < LineSizeMax) /\ n = Trimmed(a)
  <2>1. a.line_size = LineSizeMax /\ b.line_size = LineSizeMax
    BY <1>2, <1>4, <1>11, Constants
  <2>2. Half <= a.cursor_y
    BY <1>1, <1>11, <2>1, FullHasHalf
  <2>3. Good(n)
    BY <1>1, <1>11, <2>1, <2>2, TrimmedIsGood
  <2>4. /\ n.line = UpperLines(a) /\ n.cursor_x = a.cursor_x - a.line[Half] /\ n.cursor_y = a.cursor_y - Half
        /\ n.screen_y = IF a.screen_y < Half THEN 0 ELSE a.screen_y - Half
    BY <1>6, <1>11, TrimmedIs
  <2>5. Half \in Nat /\ Half > 3
    BY HalfSize, Constants
  <2>6. \A i \in 0..(a.cursor_y + 1 - Half) : n.line[i] = a.line[i + Half] - a.line[Half]
    BY <1>1, <2>1, <2>2, <2>4, UpperLinesAre
  <2>7. Follows(b, n)
    <3>1. CursorShown(a, size_y) => CursorShown(n, size_y)
      BY <1>2, <1>4, <1>6, <2>2, <2>4, <2>5 DEF CursorShown
    <3> QED BY <1>2, <3>1 DEF Follows
  <2>8. n.cursor_x = Start(n)
    <3>1. n.cursor_y \in 0..(a.cursor_y + 1 - Half) /\ n.cursor_y + Half = a.cursor_y
      BY <1>2, <1>4, <2>2, <2>4, <2>5
    <3> QED BY <1>6, <2>4, <2>6, <3>1 DEF Start
  <2>9. ASSUME NEW i \in Half..(b.cursor_y - 1)
        PROVE  n.line[i - Half + 1] - n.line[i - Half] = b.line[i + 1] - b.line[i]
    <3>1. /\ i - Half \in 0..(a.cursor_y + 1 - Half) /\ i - Half + 1 \in 0..(a.cursor_y + 1 - Half)
          /\ (i - Half) + Half = i /\ (i - Half + 1) + Half = i + 1
          /\ i \in 0..b.cursor_y /\ i + 1 \in 0..b.cursor_y /\ Half \in 0..b.cursor_y
      BY <1>2, <1>4, <2>5
    <3>2. n.line[i - Half] = b.line[i] - b.line[Half] /\ n.line[i - Half + 1] = b.line[i + 1] - b.line[Half]
      BY <1>2, <2>6, <3>1
    <3>3. b.line[i] \in Nat /\ b.line[i + 1] \in Nat /\ b.line[Half] \in Nat
      <4>1. b.line \in [0..(b.line_size - 1) -> Nat]
        BY DEF Ready, Index, Sized
      <4>2. \A k \in 0..b.cursor_y : k \in 0..(b.line_size - 1)
        BY <1>4
      <4> QED BY <3>1, <4>1, <4>2
    <3> QED BY <3>2, <3>3
  <2>10. n.cursor_y + Half = b.cursor_y + 1
    BY <1>2, <1>4, <2>4, <2>5
  <2>11. LinesKept(b, n)
    BY <2>1, <2>9, <2>10 DEF LinesKept, KeptLines
  <2> QED BY <2>3, <2>7, <2>8, <2>11
<1> QED BY <1>5, <1>8, <1>9, <1>10, <1>11

----------------------------------------------------------------------------
(* append() *)

\* What a step leaves of the lines and of the view.
After(b, n) == Good(n) /\ Follows(b, n) /\ LinesKept(b, n)

\* The lines but the last are as they were, and so is the screen.
Same(b, n) ==
    /\ n.line_size = b.line_size /\ n.cursor_y = b.cursor_y /\ n.screen_y = b.screen_y
    /\ \A i \in 0..b.cursor_y : n.line[i] = b.line[i]

LEMMA GoodIs ==
    ASSUME NEW b, Good(b)
    PROVE  /\ b.line_size \in Nat /\ b.line_size > 3 /\ b.line_size \in LineSizes
           /\ b.cursor_y \in Nat /\ b.cursor_y <= b.line_size - 3
           /\ b.cursor_y \in 0..b.cursor_y /\ b.cursor_y \in 0..(b.cursor_y + 1)
           /\ b.cursor_y + 1 \in 0..(b.cursor_y + 1)
           /\ b.line \in [0..(b.line_size - 1) -> Nat]
           /\ \A i \in 0..(b.cursor_y + 1) : i \in 0..(b.line_size - 1) /\ b.line[i] \in Nat
           /\ Start(b) \in Nat /\ End(b) \in Nat /\ Start(b) <= End(b) /\ End(b) <= Start(b) + MaxLine
           /\ b.cursor_x \in Int /\ Start(b) - 1 <= b.cursor_x /\ b.cursor_x <= Start(b) + MaxLine
           /\ b.screen_y \in Nat /\ b.screen_y <= b.cursor_y
           /\ b.cont \in SUBSET Int /\ \A i \in b.cont : i >= Start(b)
<1>1. /\ b.line_size \in LineSizes /\ b.line \in [0..(b.line_size - 1) -> Nat]
      /\ b.cursor_y \in 0..(b.line_size - 2) /\ End(b) <= Start(b) + MaxLine
  BY DEF Good, Index, Sized
<1>2. b.line_size \in Nat /\ b.line_size > 3
  BY <1>1, SizeIs
<1>3. b.cursor_y \in Nat /\ b.cursor_y <= b.line_size - 3
  BY <1>1, <1>2 DEF Good, Room
<1>4. \A i \in 0..(b.cursor_y + 1) : i \in 0..(b.line_size - 1) /\ b.line[i] \in Nat
  <2>1. \A i \in 0..(b.cursor_y + 1) : i \in 0..(b.line_size - 1)
    BY <1>2, <1>3
  <2> QED BY <1>1, <2>1
<1>5. /\ b.cursor_y \in 0..b.cursor_y /\ b.cursor_y \in 0..(b.cursor_y + 1)
      /\ b.cursor_y + 1 \in 0..(b.cursor_y + 1) /\ b.cursor_y <= b.cursor_y + 1
  BY <1>3
<1>6. Start(b) \in Nat /\ End(b) \in Nat /\ Start(b) <= End(b)
  <2>1. b.line[b.cursor_y] <= b.line[b.cursor_y + 1]
    BY <1>5 DEF Good, Index, Ascending
  <2> QED BY <1>4, <1>5, <2>1 DEF Start, End
<1> QED BY <1>1, <1>2, <1>3, <1>4, <1>5, <1>6 DEF Good, Cursor, View

LEMMA SameAfter ==
    ASSUME NEW b, Good(b), NEW n, Good(n), Same(b, n)
    PROVE  After(b, n)
<1>1. \A i \in 0..(b.cursor_y - 1) : i \in 0..b.cursor_y /\ i + 1 \in 0..b.cursor_y
  BY GoodIs
<1>2. \A i \in 0..(b.cursor_y - 1) : n.line[i - 0 + 1] - n.line[i - 0] = b.line[i + 1] - b.line[i]
  BY <1>1 DEF Same
<1>3. n.cursor_y + 0 = b.cursor_y
  BY GoodIs DEF Same
<1> QED BY <1>2, <1>3 DEF After, LinesKept, KeptLines, Follows, CursorShown, Same

\* A step that begins a line, and then goes on in it.
LEMMA AfterTwo ==
    ASSUME NEW b, b.cursor_y \in Nat, NEW m, After(b, m), NEW n, Good(n), Same(m, n)
    PROVE  After(b, n)
<1>1. Good(m) /\ Follows(b, m) /\ LinesKept(b, m)
  BY DEF After
<1>2. Follows(b, n)
  BY <1>1 DEF Follows, CursorShown, Same
<1>3. ASSUME NEW k \in Nat, KeptLines(k, b, m), b.cursor_y \in Nat PROVE KeptLines(k, b, n)
  <2>1. m.cursor_y \in Nat /\ m.cursor_y + k \in {b.cursor_y, b.cursor_y + 1}
    BY <1>1, <1>3, GoodIs DEF KeptLines
  <2>2. \A i \in k..(b.cursor_y - 1) : i - k \in 0..m.cursor_y /\ i - k + 1 \in 0..m.cursor_y
    BY <1>3, <2>1
  <2> QED BY <1>3, <2>1, <2>2 DEF KeptLines, Same
<1>4. LinesKept(b, n)
  <2>1. b.cursor_y \in Nat /\ KeptLines(0, b, m) => KeptLines(0, b, n)
    BY <1>3
  <2>2. b.cursor_y \in Nat /\ KeptLines(Half, b, m) => KeptLines(Half, b, n)
    BY <1>3, HalfSize
  <2>3. n.line_size = m.line_size /\ n.cursor_y = m.cursor_y
    BY DEF Same
  <2> QED BY <1>1, <2>1, <2>2, <2>3 DEF LinesKept
<1> QED BY <1>2, <1>4 DEF After

\* The cursor is moved in its line.
LEMMA CursorMoves ==
    ASSUME NEW b, Good(b), NEW x \in Int, Start(b) - 1 <= x, x <= Start(b) + MaxLine,
           NEW c, c \subseteq b.cont
    PROVE  LET m == Move(b, x, c)
           IN  Good(m) /\ Same(b, m) /\ m.cursor_x = x /\ Start(m) = Start(b)
<1> DEFINE m == Move(b, x, c)
<1>1. /\ IsBuffer(m) /\ m.line_size = b.line_size /\ m.line = b.line
      /\ m.cursor_x = x /\ m.cursor_y = b.cursor_y /\ m.screen_y = b.screen_y
      /\ m.bScrollbar = b.bScrollbar /\ m.cont = c
  <2>1. IsBuffer(b)
    BY DEF Good
  <2> QED BY <2>1, MovedIs
<1> HIDE DEF m
<1>2. Start(m) = Start(b) /\ End(m) = End(b)
  BY <1>1 DEF Start, End
<1>3. Index(m)
  BY <1>1, <1>2 DEF Good, Index, Sized, Ascending, ZeroAfter, Spread
<1>4. Room(m) /\ View(m)
  BY <1>1, <1>2 DEF Good, Room, View
<1>5. Cursor(m)
  BY <1>1, <1>2, GoodIs DEF Cursor
<1> QED BY <1>1, <1>2, <1>3, <1>4, <1>5 DEF Good, Same, m

LEMMA PutStays ==
    ASSUME NEW b, Good(b), NEW isCont \in BOOLEAN,
           b.cursor_x < Start(b) + MaxLine, isCont => Start(b) <= b.cursor_x
    PROVE  LET p == Put(b, isCont)
           IN  Good(p) /\ Same(b, p) /\ Start(p) <= p.cursor_x
<1> DEFINE p == Put(b, isCont)
           y == b.cursor_y
           n == b.line_size
           l == b.line
           x == b.cursor_x + 1
           e == IF l[y + 1] < x THEN x ELSE l[y + 1]
<1>1. /\ IsBuffer(p) /\ p.line_size = n /\ p.cursor_x = x /\ p.line = [l EXCEPT ![y + 1] = e]
      /\ p.cursor_y = y /\ p.screen_y = b.screen_y /\ p.bScrollbar = b.bScrollbar
      /\ p.cont = IF isCont THEN b.cont \cup {b.cursor_x} ELSE b.cont \ {b.cursor_x}
  BY PutIs DEF Good
<1>2. /\ n \in Nat /\ n > 3 /\ n \in LineSizes /\ y \in Nat /\ y <= n - 3
      /\ l \in [0..(n - 1) -> Nat] /\ \A i \in 0..(y + 1) : i \in 0..(n - 1) /\ l[i] \in Nat
      /\ Start(b) = l[y] /\ End(b) = l[y + 1] /\ l[y] <= l[y + 1] /\ l[y + 1] <= l[y] + MaxLine
      /\ l[y] \in Nat /\ l[y + 1] \in Nat
      /\ x \in Int /\ l[y] <= x /\ x <= l[y] + MaxLine
      /\ b.cont \in SUBSET Int /\ \A i \in b.cont : i >= l[y]
  <2>1. /\ n \in Nat /\ n > 3 /\ n \in LineSizes /\ y \in Nat /\ y <= n - 3
        /\ l \in [0..(n - 1) -> Nat] /\ \A i \in 0..(y + 1) : i \in 0..(n - 1) /\ l[i] \in Nat
    BY GoodIs
  <2>2. Start(b) = l[y] /\ End(b) = l[y + 1]
    BY DEF Start, End
  <2>3. l[y] <= l[y + 1] /\ l[y + 1] <= l[y] + MaxLine /\ l[y] \in Nat /\ l[y + 1] \in Nat
    BY <2>2, GoodIs
  <2>4. b.cursor_x \in Int /\ l[y] - 1 <= b.cursor_x /\ b.cursor_x < l[y] + MaxLine
    BY <2>2, GoodIs
  <2>5. x \in Int /\ l[y] <= x /\ x <= l[y] + MaxLine
    BY <2>3, <2>4, Constants
  <2>6. b.cont \in SUBSET Int /\ \A i \in b.cont : i >= l[y]
    BY <2>2, GoodIs
  <2> QED BY <2>1, <2>2, <2>3, <2>5, <2>6
<1>3. l[0] = 0
  BY DEF Good, Index, Sized
<1>4. \A i, j \in 0..(y + 1) : i <= j => l[i] <= l[j]
  BY DEF Good, Index, Ascending
<1>5. \A i \in (y + 2)..(n - 1) : l[i] = 0
  BY DEF Good, Index, ZeroAfter
<1>6. \A i, j \in 0..y : i <= j => l[j] <= l[i] + Span(j - i)
  BY DEF Good, Index, Spread
<1>7. View(p)
  BY <1>1 DEF Good, View
<1>8. Start(b) + Slack <= Bytes(n)
  BY DEF Good, Room
<1>9. isCont => b.cursor_x >= l[y]
  BY <1>2 DEF Start
<1> HIDE DEF p, y, n, l, x
<1>10. e \in Nat /\ l[y + 1] <= e /\ l[y] <= e /\ e <= l[y] + MaxLine
  BY <1>2, Constants
<1> HIDE DEF e
<1>11. /\ p.line \in [0..(n - 1) -> Nat] /\ p.line[y + 1] = e
       /\ \A i \in 0..(n - 1) : i # y + 1 => p.line[i] = l[i]
  BY <1>1, <1>2, <1>10
<1>12. \A i \in 0..y : i \in 0..(n - 1) /\ i # y + 1 /\ p.line[i] = l[i] /\ l[i] \in Nat
  <2>1. \A i \in 0..y : i \in 0..(n - 1) /\ i # y + 1 /\ i \in 0..(y + 1)
    BY <1>2
  <2> QED BY <1>2, <1>11, <2>1
<1>13. Start(p) = l[y] /\ End(p) = e /\ p.line[0] = 0
  <2>1. y \in 0..y /\ 0 \in 0..y
    BY <1>2
  <2> QED BY <1>1, <1>3, <1>11, <1>12, <2>1 DEF Start, End
<1>14. Index(p)
  <2>1. Sized(p)
    <3>1. y \in 0..(n - 2)
      BY <1>2
    <3> QED BY <1>1, <1>2, <1>10, <1>11, <1>13, <3>1 DEF Sized
  <2>2. ASSUME NEW i \in 0..(y + 1), NEW j \in 0..(y + 1), i <= j PROVE p.line[i] <= p.line[j]
    <3>1. CASE j <= y
      <4>1. i \in 0..y /\ j \in 0..y
        BY <1>2, <2>2, <3>1
      <4> QED BY <1>4, <1>12, <2>2, <4>1
    <3>2. CASE i <= y /\ j = y + 1
      <4>1. i \in 0..y
        BY <1>2, <3>2
      <4>2. l[i] <= l[y + 1]
        BY <1>4, <2>2, <3>2
      <4> QED BY <1>2, <1>10, <1>11, <1>12, <3>2, <4>1, <4>2
    <3>3. CASE i = y + 1 /\ j = y + 1
      BY <1>10, <1>11, <3>3
    <3> QED BY <1>2, <2>2, <3>1, <3>2, <3>3
  <2>3. Ascending(p)
    BY <1>1, <2>2 DEF Ascending
  <2>4. \A i \in (y + 2)..(n - 1) : p.line[i] = 0
    <3>1. \A i \in (y + 2)..(n - 1) : i \in 0..(n - 1) /\ i # y + 1
      BY <1>2
    <3> QED BY <1>5, <1>11, <3>1
  <2>5. ZeroAfter(p)
    BY <1>1, <2>4 DEF ZeroAfter
  <2>6. Spread(p)
    BY <1>1, <1>6, <1>12 DEF Spread
  <2> QED BY <2>1, <2>3, <2>5, <2>6 DEF Index
<1>15. Room(p)
  BY <1>1, <1>2, <1>8, <1>13 DEF Room
<1>16. Cursor(p)
  <2>1. x - 1 = b.cursor_x /\ b.cursor_x \in Int
    BY GoodIs DEF x
  <2>2. p.cont \in SUBSET Int /\ \A i \in p.cont : i >= l[y]
    BY <1>1, <1>2, <1>9, <2>1
  <2>3. l[y] - 1 <= x
    BY <1>2
  <2> QED BY <1>1, <1>2, <1>13, <2>2, <2>3 DEF Cursor
<1>17. Same(b, p)
  BY <1>1, <1>12 DEF Same, y, n, l
<1>18. Start(p) <= p.cursor_x
  BY <1>1, <1>2, <1>13
<1> QED BY <1>1, <1>7, <1>14, <1>15, <1>16, <1>17, <1>18 DEF Good, p

LEMMA Least ==
    ASSUME NEW K, K \subseteq Nat, NEW k0 \in K
    PROVE  \E k \in K : \A i \in K : k <= i
<1>1. PICK k \in K : \A i \in K : <<i, k>> \notin OpToRel(<, Nat)
  BY NatLessThanWellFounded, WFMin
<1>2. ASSUME NEW i \in K PROVE k <= i
  <2>1. ~(i < k)
    BY <1>1 DEF OpToRel
  <2> QED BY <2>1
<1> QED BY <1>2

\* The next tab stop, or one column past the line's end, is not far.
LEMMA NextStop ==
    ASSUME NEW at \in Int, -1 <= at
    PROVE  \E l \in (at + 1)..(at + TabStop + Cols + 1) :
              /\ l > Cols \/ l % TabStop = 0
              /\ \A k \in (at + 1)..(l - 1) : k <= Cols /\ k % TabStop # 0
<1> DEFINE S(l) == l > Cols \/ l % TabStop = 0
           K == {k \in Nat : k > 0 /\ S(at + k)}
           k0 == IF at > Cols THEN 1 ELSE Cols + 1 - at
<1>1. k0 \in K /\ k0 <= TabStop + Cols + 1
  BY Constants
<1>2. PICK m \in K : \A i \in K : m <= i
  <2>1. K \subseteq Nat
    OBVIOUS
  <2> HIDE DEF K
  <2> QED BY <1>1, <2>1, Least
<1>3. m \in Nat /\ m > 0 /\ m <= k0 /\ S(at + m)
  BY <1>1, <1>2
<1>4. ASSUME NEW k \in (at + 1)..(at + m - 1) PROVE ~S(k)
  <2>1. k - at \in Nat /\ k - at > 0 /\ at + (k - at) = k /\ ~(m <= k - at)
    BY <1>3
  <2>2. k - at \notin K
    BY <1>2, <2>1
  <2> QED BY <2>1, <2>2
<1>5. at + m \in (at + 1)..(at + TabStop + Cols + 1)
  <2>1. k0 \in Nat
    BY <1>1
  <2> HIDE DEF k0
  <2> QED BY <1>1, <1>3, <2>1, Constants
<1>6. ASSUME NEW k \in (at + 1)..(at + m - 1) PROVE k <= Cols /\ k % TabStop # 0
  <2>1. ~(k > Cols) /\ k % TabStop # 0
    BY <1>4
  <2>2. k \in Int /\ Cols \in Int
    BY Constants
  <2> HIDE DEF S
  <2> QED BY <2>1, <2>2
<1> QED BY <1>3, <1>5, <1>6

\* A backspace over a character stays in the line, or stops one byte before it.
LEMMA StepBack ==
    ASSUME NEW cont, cont \subseteq Int, NEW x \in Int, NEW start \in Nat, start < x,
           \A i \in cont : i >= start
    PROVE  LET z == CHOOSE i \in -1..(x - 1) : i \notin cont /\ \A j \in (i + 1)..(x - 1) : j \in cont
           IN  z \in Int /\ start - 1 <= z /\ z < x
<1> DEFINE P(i) == i \notin cont /\ \A j \in (i + 1)..(x - 1) : j \in cont
           K == {k \in Nat : x - 1 - k >= start - 1 /\ x - 1 - k \notin cont}
<1>1. x - start \in K
  <2>1. x - start \in Nat /\ x - 1 - (x - start) = start - 1
    OBVIOUS
  <2>2. start - 1 \notin cont
    OBVIOUS
  <2> QED BY <2>1, <2>2
<1>2. PICK k \in K : \A i \in K : k <= i
  <2>1. K \subseteq Nat
    OBVIOUS
  <2> HIDE DEF K
  <2> QED BY <1>1, <2>1, Least
<1> DEFINE y == x - 1 - k
<1>3. y \in Int /\ start - 1 <= y /\ y < x /\ y \notin cont /\ y \in -1..(x - 1)
  BY <1>2
<1>4. ASSUME NEW j \in (y + 1)..(x - 1) PROVE j \in cont
  <2>1. x - 1 - j \in Nat /\ x - 1 - (x - 1 - j) = j /\ j >= start - 1 /\ ~(k <= x - 1 - j)
    BY <1>2, <1>3
  <2>2. x - 1 - j \notin K
    BY <1>2, <2>1
  <2> QED BY <2>1, <2>2
<1>5. P(y)
  BY <1>3, <1>4
<1> DEFINE z == CHOOSE i \in -1..(x - 1) : P(i)
<1>6. z \in -1..(x - 1) /\ P(z)
  <2> HIDE DEF P, y
  <2> QED BY <1>3, <1>5
<1> HIDE DEF z
<1>7. start - 1 <= z
  <2> SUFFICES ASSUME z < start - 1 PROVE FALSE
    BY <1>6
  <2>1. start - 1 \in (z + 1)..(x - 1)
    BY <1>6
  <2>2. start - 1 \in cont
    BY <1>6, <2>1
  <2> QED BY <2>2
<1>8. z \in Int /\ start - 1 <= z /\ z < x
  BY <1>6, <1>7
<1> QED BY <1>8 DEF z

----------------------------------------------------------------------------
(* Steps *)

\* While a character is cut, the cursor is in its line.
BInv ==
    /\ Good(buf)
    /\ size_y \in Rows
    /\ more \in 0..3
    /\ more > 0 => Start(buf) <= buf.cursor_x

LEMMA LineIsLeft ==
    ASSUME NEW b, Good(b), Start(b) < b.cursor_x
    PROVE  Ready(b)
BY GoodIs, Constants DEF Good, Ready

LEMMA ByteIsPut ==
    ASSUME ShortLines, BInv, NEW isCont \in BOOLEAN, isCont => more > 0, LineAllows(1), PutByte(isCont)
    PROVE  After(buf, buf') /\ Start(buf') <= buf'.cursor_x
<1>1. Good(buf) /\ size_y \in Rows
  BY DEF BInv
<1>2. PICK b \in IF buf.cursor_x - Start(buf) >= Cols /\ CharCount(buf) = Cols
                 THEN NextLine(buf) ELSE {buf} : buf' = Put(b, isCont)
  BY DEF PutByte
<1>3. buf.cursor_x < Start(buf) + MaxLine
  BY <1>1, GoodIs, Constants DEF LineAllows
<1>4. /\ Good(b) /\ After(buf, b) /\ b.cursor_x < Start(b) + MaxLine
      /\ isCont => Start(b) <= b.cursor_x
  <2>1. CASE buf.cursor_x - Start(buf) >= Cols /\ b \in NextLine(buf)
    <3>1. Ready(buf)
      <4>1. Start(buf) < buf.cursor_x
        BY <1>1, <2>1, GoodIs, Constants
      <4> QED BY <1>1, <4>1, LineIsLeft
    <3>2. Good(b) /\ b.cursor_x = Start(b) /\ Follows(buf, b) /\ LinesKept(buf, b)
      BY <1>1, <2>1, <3>1, NextLineIs
    <3>3. Start(b) \in Nat
      BY <3>2, GoodIs
    <3> QED BY <3>2, <3>3, Constants DEF After
  <2>2. CASE b = buf
    <3>1. Same(buf, buf)
      BY DEF Same
    <3>2. After(buf, buf)
      BY <1>1, <3>1, SameAfter
    <3> QED BY <1>1, <1>3, <2>2, <3>2 DEF BInv
  <2> QED BY <1>2, <2>1, <2>2
<1>5. Good(buf') /\ Same(b, buf') /\ Start(buf') <= buf'.cursor_x
  BY <1>2, <1>4, PutStays
<1> QED BY <1>1, <1>4, <1>5, AfterTwo, GoodIs

LEMMA OutputStep ==
    ASSUME ShortLines, BInv, Output
    PROVE  BInv' /\ After(buf, buf')
<1>0. /\ Good(buf) /\ IsBuffer(buf) /\ size_y \in Rows /\ more \in 0..3
      /\ more > 0 => Start(buf) <= buf.cursor_x
  BY DEF BInv, Good
<1>1. SUFFICES /\ After(buf, buf') /\ size_y' = size_y /\ more' \in 0..3
               /\ more' > 0 => Start(buf') <= buf'.cursor_x
  BY <1>0 DEF BInv, After
<1>2. CASE FirstByte
  <2>1. PutByte(FALSE) /\ LineAllows(1) /\ size_y' = size_y /\ \E n \in CharBytes : more' = n - 1
    BY <1>2 DEF FirstByte
  <2>2. more' \in 0..3
    BY <2>1, Constants
  <2> QED BY <2>1, <2>2, ByteIsPut
<1>3. CASE ContinuationByte
  <2>1. PutByte(TRUE) /\ LineAllows(1) /\ size_y' = size_y /\ more > 0 /\ more' = more - 1
    BY <1>3 DEF ContinuationByte
  <2>2. more' \in 0..3
    BY <1>0, <2>1
  <2> QED BY <2>1, <2>2, ByteIsPut
<1>4. CASE LineFeed
  <2> DEFINE x == End(buf) + 1
             c == buf.cont \ {End(buf)}
             b == Move(buf, x, c)
  <2>1. buf' \in NextLine(b) /\ size_y' = size_y /\ more' = more /\ more = 0
    BY <1>4 DEF LineFeed, Move
  <2>2. /\ IsBuffer(b) /\ b.line_size = buf.line_size /\ b.line = buf.line
        /\ b.cursor_x = x /\ b.cursor_y = buf.cursor_y /\ b.screen_y = buf.screen_y
        /\ b.bScrollbar = buf.bScrollbar /\ b.cont = c
    BY <1>0, MovedIs
  <2>3. /\ Start(buf) \in Nat /\ End(buf) \in Nat /\ Start(buf) <= End(buf)
        /\ End(buf) <= Start(buf) + MaxLine /\ c \in SUBSET Int
    BY <1>0, GoodIs
  <2>4. x \in Int /\ Start(buf) < x /\ x <= Start(buf) + Longest
    BY <2>3, Constants
  <2> HIDE DEF b, x, c
  <2>5. Start(b) = Start(buf) /\ End(b) = End(buf)
    BY <2>2 DEF Start, End
  <2>6. Index(b)
    BY <1>0, <2>2, <2>5 DEF Good, Index, Sized, Ascending, ZeroAfter, Spread
  <2>7. Room(b) /\ View(b)
    BY <1>0, <2>2, <2>5 DEF Good, Room, View
  <2>8. Ready(b)
    BY <2>2, <2>3, <2>4, <2>5, <2>6, <2>7 DEF Ready
  <2>9. Good(buf') /\ Follows(b, buf') /\ LinesKept(b, buf')
    BY <1>0, <2>1, <2>8, NextLineIs
  <2>10. After(buf, buf')
    BY <2>2, <2>9 DEF After, Follows, CursorShown, LinesKept, KeptLines
  <2> QED BY <1>0, <2>1, <2>10
<1>5. CASE CarriageReturn
  <2>1. size_y' = size_y /\ more' = more /\ more = 0
    BY <1>5 DEF CarriageReturn
  <2>2. CASE buf.cursor_x - Start(buf) = Cols + 1 /\ buf' \in NextLine(buf)
    <3>1. Start(buf) < buf.cursor_x
      BY <1>0, <2>2, GoodIs, Constants
    <3>2. Ready(buf)
      BY <1>0, <3>1, LineIsLeft
    <3>3. After(buf, buf')
      BY <1>0, <2>2, <3>2, NextLineIs DEF After
    <3> QED BY <2>1, <3>3
  <2>3. CASE buf' = [buf EXCEPT !.cursor_x = Start(buf)]
    <3>1. buf' = Move(buf, Start(buf), buf.cont)
      BY <1>0, <2>3, OneMoved
    <3>2. Start(buf) \in Int /\ Start(buf) - 1 <= Start(buf) /\ Start(buf) <= Start(buf) + MaxLine
      BY <1>0, GoodIs, Constants
    <3>3. Good(buf') /\ Same(buf, buf')
      BY <1>0, <3>1, <3>2, CursorMoves
    <3> QED BY <1>0, <2>1, <3>3, SameAfter
  <2> QED BY <1>5, <2>2, <2>3 DEF CarriageReturn
<1>6. CASE Backspace
  <2> DEFINE z == CHOOSE i \in -1..(buf.cursor_x - 1) :
                    i \notin buf.cont /\ \A j \in (i + 1)..(buf.cursor_x - 1) : j \in buf.cont
             x == IF buf.cursor_x \in buf.cont THEN z ELSE buf.cursor_x - 1
  <2>1. /\ size_y' = size_y /\ more' = more /\ more = 0 /\ Start(buf) < buf.cursor_x
        /\ buf' = [buf EXCEPT !.cursor_x = x]
    <3>1. Start(buf) \in Int /\ buf.cursor_x \in Int
      BY <1>0, GoodIs
    <3> QED BY <1>6, <3>1 DEF Backspace
  <2>2. z \in Int /\ Start(buf) - 1 <= z /\ z < buf.cursor_x
    <3>1. /\ buf.cont \subseteq Int /\ buf.cursor_x \in Int /\ Start(buf) \in Nat
          /\ \A i \in buf.cont : i >= Start(buf)
      BY <1>0, GoodIs
    <3> QED BY <2>1, <3>1, StepBack
  <2> HIDE DEF z
  <2>3. x \in Int /\ Start(buf) - 1 <= x /\ x <= Start(buf) + MaxLine
    BY <1>0, <2>1, <2>2, GoodIs, Constants
  <2> HIDE DEF x
  <2>4. buf' = Move(buf, x, buf.cont)
    BY <1>0, <2>1, OneMoved
  <2>5. Good(buf') /\ Same(buf, buf')
    BY <1>0, <2>3, <2>4, CursorMoves
  <2> QED BY <1>0, <2>1, <2>5, SameAfter
<1>7. CASE Tab
  <2> DEFINE at == buf.cursor_x - Start(buf)
             P(l) == /\ l > Cols \/ l % TabStop = 0
                     /\ \A k \in (at + 1)..(l - 1) : k <= Cols /\ k % TabStop # 0
             to == CHOOSE l \in (at + 1)..(at + TabStop + Cols + 1) : P(l)
             x == Start(buf) + to
             c == {i \in buf.cont : i < buf.cursor_x \/ i >= Start(buf) + to}
  <2>1. /\ size_y' = size_y /\ more' = more /\ more = 0 /\ LineAllows(to - at)
        /\ buf' = Move(buf, x, c)
    BY <1>7 DEF Tab, Move
  <2>2. at \in Int /\ -1 <= at /\ Start(buf) \in Nat /\ buf.cursor_x = Start(buf) + at
    BY <1>0, GoodIs
  <2>3. to \in (at + 1)..(at + TabStop + Cols + 1)
    <3>1. \E l \in (at + 1)..(at + TabStop + Cols + 1) : P(l)
      BY <2>2, NextStop
    <3> HIDE DEF P
    <3> QED BY <3>1
  <2>4. x \in Int /\ Start(buf) - 1 <= x /\ x <= Start(buf) + MaxLine
    BY <2>1, <2>2, <2>3, Constants DEF LineAllows
  <2>5. c \subseteq buf.cont
    OBVIOUS
  <2> HIDE DEF x, c
  <2>6. Good(buf') /\ Same(buf, buf')
    BY <1>0, <2>1, <2>4, <2>5, CursorMoves
  <2> QED BY <1>0, <2>1, <2>6, SameAfter
<1> QED BY <1>2, <1>3, <1>4, <1>5, <1>6, <1>7 DEF Output

LEMMA WindowStep ==
    ASSUME BInv, Scroll \/ Resize \/ Clear
    PROVE  BInv'
<1>0. /\ Good(buf) /\ IsBuffer(buf) /\ size_y \in Rows /\ more \in 0..3
      /\ more > 0 => Start(buf) <= buf.cursor_x
  BY DEF BInv, Good
<1>1. /\ buf.screen_y \in Nat /\ buf.cursor_y \in Nat /\ buf.screen_y <= buf.cursor_y
      /\ size_y \in Nat /\ 0 < size_y
  BY <1>0, GoodIs, Constants
<1>2. buf.bScrollbar \in BOOLEAN
  BY <1>0 DEF Good, View
<1>3. ASSUME NEW top \in Nat, top <= buf.cursor_y, NEW bar \in BOOLEAN, buf' = Look(buf, top, bar),
             more' = more, size_y' \in Rows
      PROVE  BInv'
  <2>1. /\ IsBuffer(buf') /\ buf'.line_size = buf.line_size /\ buf'.line = buf.line
        /\ buf'.cursor_x = buf.cursor_x /\ buf'.cursor_y = buf.cursor_y /\ buf'.screen_y = top
        /\ buf'.bScrollbar = bar /\ buf'.cont = buf.cont
    BY <1>0, <1>3, ViewedIs
  <2>2. Start(buf') = Start(buf) /\ End(buf') = End(buf)
    BY <2>1 DEF Start, End
  <2>3. Index(buf')
    BY <1>0, <2>1, <2>2 DEF Good, Index, Sized, Ascending, ZeroAfter, Spread
  <2>4. Room(buf') /\ Cursor(buf') /\ View(buf')
    BY <1>0, <1>3, <2>1, <2>2 DEF Good, Room, Cursor, View
  <2> QED BY <1>0, <1>3, <2>1, <2>2, <2>3, <2>4 DEF BInv, Good
<1>4. CASE Scroll
  <2>1. UNCHANGED <<size_y, more>>
    BY <1>4 DEF Scroll
  <2>2. ASSUME NEW dy \in {-1, 1}, Wheel(dy) PROVE BInv'
    <3> DEFINE top == IF buf.screen_y + dy < 0 THEN 0
                      ELSE IF buf.screen_y + dy > buf.cursor_y THEN buf.cursor_y
                      ELSE buf.screen_y + dy
    <3>1. buf' = Look(buf, top, top < Bottom)
      BY <2>2 DEF Wheel, Look
    <3>2. top \in Nat /\ top <= buf.cursor_y
      BY <1>1
    <3>3. (top < Bottom) \in BOOLEAN
      OBVIOUS
    <3> HIDE DEF top
    <3> QED BY <1>0, <1>3, <2>1, <3>1, <3>2, <3>3
  <2>3. CASE PageUp
    <3> DEFINE top == IF buf.screen_y < size_y - 1 THEN 0 ELSE buf.screen_y - (size_y - 1)
    <3>1. buf' = Look(buf, top, TRUE)
      BY <1>0, <2>3 DEF PageUp, Look, IsBuffer
    <3>2. top \in Nat /\ top <= buf.cursor_y
      BY <1>1
    <3> HIDE DEF top
    <3> QED BY <1>0, <1>3, <2>1, <3>1, <3>2
  <2>4. CASE PageDown
    <3> DEFINE down == buf.screen_y + size_y - 1
               top == IF down > buf.cursor_y THEN buf.cursor_y ELSE down
               bar == IF down > buf.cursor_y - size_y THEN FALSE ELSE buf.bScrollbar
    <3>1. buf' = Look(buf, top, bar)
      BY <1>0, <2>4 DEF PageDown, Look, IsBuffer
    <3>2. top \in Nat /\ top <= buf.cursor_y
      BY <1>1
    <3>3. bar \in BOOLEAN
      BY <1>2
    <3> HIDE DEF top, bar
    <3> QED BY <1>0, <1>3, <2>1, <3>1, <3>2, <3>3
  <2>5. CASE Drag
    <3>1. PICK top \in 0..buf.cursor_y : buf' = [buf EXCEPT !.screen_y = top]
      BY <2>5 DEF Drag
    <3>2. buf' = Look(buf, top, buf.bScrollbar)
      BY <1>0, <3>1, OneMoved
    <3>3. top \in Nat /\ top <= buf.cursor_y
      BY <1>1
    <3> QED BY <1>0, <1>2, <1>3, <2>1, <3>2, <3>3
  <2>6. CASE KeyDown
    <3> DEFINE top == IF buf.screen_y < Bottom THEN Bottom ELSE buf.screen_y
    <3>1. buf' = [buf EXCEPT !.screen_y = top]
      BY <1>0, <2>6 DEF KeyDown
    <3>2. top \in Nat /\ top <= buf.cursor_y
      BY <1>1 DEF Bottom
    <3> HIDE DEF top
    <3>3. buf' = Look(buf, top, buf.bScrollbar)
      BY <1>0, <3>1, OneMoved
    <3> QED BY <1>0, <1>2, <1>3, <2>1, <3>2, <3>3
  <2> QED BY <1>4, <2>2, <2>3, <2>4, <2>5, <2>6 DEF Scroll
<1>5. CASE Resize
  <2> DEFINE low == buf.cursor_y - size_y' + 1
             top == IF buf.screen_y < low THEN low ELSE buf.screen_y
  <2>1. size_y' \in Rows /\ more' = more /\ buf' = [buf EXCEPT !.screen_y = top]
    BY <1>5 DEF Resize
  <2>2. size_y' \in Nat /\ 0 < size_y'
    BY <2>1, Constants
  <2>3. top \in Nat /\ top <= buf.cursor_y
    BY <1>1, <2>2
  <2> HIDE DEF top
  <2>4. buf' = Look(buf, top, buf.bScrollbar)
    BY <1>0, <2>1, OneMoved
  <2> QED BY <1>2, <1>3, <2>1, <2>3, <2>4
<1>6. CASE Clear
  <2>1. buf' = Cleared /\ size_y' = size_y /\ more' = more
    BY <1>6 DEF Clear
  <2>2. Start(Cleared) = 0 /\ Cleared.cursor_x = 0
    <3>1. Cleared.line = [i \in 0..(LineSize0 - 1) |-> 0] /\ Cleared.cursor_y = 0 /\ Cleared.cursor_x = 0
      BY DEF Cleared
    <3>2. Cleared.line[0] = 0
      BY <3>1, Constants
    <3> QED BY <3>1, <3>2 DEF Start
  <2> QED BY <1>0, <2>1, <2>2, ClearedIsGood DEF BInv
<1> QED BY <1>4, <1>5, <1>6

\* The lines, the cursor and the screen stay together whatever the host writes and
\* the user scrolls, if the host's lines are short (Fl_Term.cxx 469-631).
THEOREM BufferStaysGood == ShortLines => (Spec => []BInv)
<1>1. Init => BInv
  <2> SUFFICES ASSUME Init PROVE BInv
    OBVIOUS
  <2>1. buf = Cleared /\ size_y \in Rows /\ more = 0
    BY DEF Init
  <2> QED BY <2>1, ClearedIsGood DEF BInv
<1>2. ShortLines /\ BInv /\ [Next]_vars => BInv'
  <2>1. ASSUME ShortLines, BInv, Output PROVE BInv'
    BY <2>1, OutputStep
  <2>2. ASSUME BInv, Scroll \/ Resize \/ Clear PROVE BInv'
    BY <2>2, WindowStep
  <2>3. ASSUME BInv, UNCHANGED vars PROVE BInv'
    BY <2>3 DEF BInv, vars
  <2> QED BY <2>1, <2>2, <2>3 DEF Next
<1>3. SUFFICES ASSUME ShortLines PROVE Spec => []BInv
  OBVIOUS
<1> QED BY <1>1, <1>2, <1>3, PTL DEF Spec

----------------------------------------------------------------------------
(* What the runs check *)

\* The cursor has a line, with two more after it for append() to look at, and no
\* line is beyond the bytes of the buffer (Fl_Term.h 31-36, Fl_Term.cxx 475).
THEOREM BufferTypes == ShortLines => (Spec => []TypeOK)
<1>1. ASSUME ShortLines, BInv PROVE TypeOK
  <2>1. Good(buf) /\ size_y \in Rows /\ more \in 0..3
    BY <1>1 DEF BInv
  <2> DEFINE n == buf.line_size
             y == buf.cursor_y
             l == buf.line
  <2>2. /\ n \in Nat /\ n > 3 /\ n >= LineSize0 /\ n <= LineSizeMax
        /\ y \in Nat /\ y <= n - 3
        /\ l \in [0..(n - 1) -> Nat]
        /\ y + 1 \in 0..(y + 1)
        /\ \A i \in 0..(y + 1) : i \in 0..(n - 1) /\ l[i] \in Nat
    BY <2>1, GoodIs, SizeIs
  <2>3. l[y] \in Nat /\ l[y + 1] \in Nat /\ l[y + 1] <= l[y] + MaxLine
    BY <2>1, GoodIs DEF Start, End
  <2>4. l[y] + Slack <= Bytes(n)
    BY <2>1 DEF Good, Room, Start
  <2>5. \A i, j \in 0..(y + 1) : i <= j => l[i] <= l[j]
    BY <2>1 DEF Good, Index, Ascending
  <2>6. \A i \in (y + 2)..(n - 1) : l[i] = 0
    BY <2>1 DEF Good, Index, ZeroAfter
  <2>7. buf.screen_y \in 0..y
    <3>1. buf.screen_y \in Nat /\ buf.screen_y <= y
      BY <2>1, GoodIs
    <3> QED BY <2>2, <3>1
  <2>8. buf.bScrollbar \in BOOLEAN
    BY <2>1 DEF Good, View
  <2>9. buf.cursor_x \in Nat \cup {-1}
    <3>1. buf.cursor_x \in Int /\ Start(buf) \in Nat /\ Start(buf) - 1 <= buf.cursor_x
      BY <2>1, GoodIs
    <3> QED BY <3>1
  <2> HIDE DEF n, y, l
  <2>10. Bytes(n) \in Nat /\ Bytes(LineSizeMax) \in Nat /\ Bytes(n) <= Bytes(LineSizeMax)
    BY <2>2, Products, Constants
  <2>11. l[y + 1] <= Bytes(LineSizeMax)
    BY <1>1, <2>2, <2>3, <2>4, <2>10, Short, Constants
  <2>12. ASSUME NEW i \in 0..(n - 1) PROVE l[i] \in 0..Bytes(LineSizeMax)
    <3>1. CASE i \in 0..(y + 1)
      <4>1. i <= y + 1 /\ l[i] \in Nat
        BY <2>2, <3>1
      <4>2. l[i] <= l[y + 1]
        BY <2>2, <2>5, <3>1, <4>1
      <4> QED BY <2>3, <2>10, <2>11, <4>1, <4>2
    <3>2. CASE i \in (y + 2)..(n - 1)
      BY <2>6, <2>10, <3>2
    <3> QED BY <2>2, <3>1, <3>2
  <2>13. l \in [0..(n - 1) -> 0..Bytes(LineSizeMax)]
    BY <2>2, <2>12
  <2>14. n \in LineSize0..LineSizeMax /\ y \in 0..(n - 3)
    BY <2>2, Constants
  <2> QED BY <2>1, <2>7, <2>8, <2>9, <2>13, <2>14 DEF TypeOK, Bytes, n, y, l
<1>2. SUFFICES ASSUME ShortLines PROVE Spec => []TypeOK
  OBVIOUS
<1> QED BY <1>1, <1>2, BufferStaysGood, PTL

\* Each line ends where the next one starts, and the cursor is in the last one, or
\* one byte before a character that is cut (Fl_Term.cxx 469-473, 541-547).
THEOREM IndexInOrder == ShortLines => (Spec => []LinesInOrder)
<1>1. ASSUME BInv PROVE LinesInOrder
  <2>1. Good(buf)
    BY <1>1 DEF BInv
  <2>2. \A i \in 0..buf.cursor_y : i \in 0..(buf.cursor_y + 1) /\ i + 1 \in 0..(buf.cursor_y + 1) /\ i <= i + 1
    BY <2>1, GoodIs
  <2>3. \A i \in 0..buf.cursor_y : buf.line[i] <= buf.line[i + 1]
    BY <2>1, <2>2 DEF Good, Index, Ascending
  <2>4. \A i \in (buf.cursor_y + 2)..(buf.line_size - 1) : buf.line[i] = 0
    BY <2>1 DEF Good, Index, ZeroAfter
  <2> QED BY <2>1, <2>3, <2>4 DEF LinesInOrder, Good, Cursor
<1>2. SUFFICES ASSUME ShortLines PROVE Spec => []LinesInOrder
  OBVIOUS
<1> QED BY <1>1, <1>2, BufferStaysGood, PTL

\* The line that is being written started with Slack bytes left, and ends in the
\* buffer, in one that grows and loses its older half while the host writes on
\* (Fl_Term.cxx 475-513): as long as no line is longer than Slack, 1024 bytes, to
\* which the code does not hold the host (620), and half of the lines fit.
THEOREM RoomIsLeft == ShortLines => (Spec => [](RoomForLine /\ LineInBuffer))
<1>1. ASSUME ShortLines, BInv PROVE RoomForLine /\ LineInBuffer
  <2>1. Good(buf) /\ Start(buf) + Slack <= Bytes(buf.line_size)
    BY <1>1 DEF BInv, Good, Room
  <2>2. /\ Start(buf) \in Nat /\ End(buf) \in Nat /\ End(buf) <= Start(buf) + MaxLine
        /\ buf.line_size \in Nat
    BY <2>1, GoodIs
  <2>3. Bytes(buf.line_size) \in Nat
    BY <2>2, Products
  <2>4. Start(buf) <= Bytes(buf.line_size) - Slack
    BY <2>1, <2>2, <2>3, Constants
  <2>5. End(buf) <= Bytes(buf.line_size)
    BY <1>1, <2>1, <2>2, <2>3, Short, Constants
  <2> QED BY <2>4, <2>5 DEF RoomForLine, LineInBuffer, Bytes
<1>2. SUFFICES ASSUME ShortLines PROVE Spec => [](RoomForLine /\ LineInBuffer)
  OBVIOUS
<1> QED BY <1>1, <1>2, BufferStaysGood, PTL

\* Output never scrolls the line it writes out of a window that shows it, whatever
\* the buffer goes through (Fl_Term.cxx 472, 503-504).
THEOREM OutputIsFollowed == ShortLines => (Spec => FollowsOutput)
<1>1. ASSUME ShortLines, BInv, [Next]_vars
      PROVE  [Output /\ CursorShown(buf, size_y) => CursorShown(buf', size_y)]_vars
  BY <1>1, OutputStep DEF After, Follows
<1>2. SUFFICES ASSUME ShortLines PROVE Spec => FollowsOutput
  OBVIOUS
<1> QED BY <1>1, <1>2, BufferStaysGood, PTL DEF Spec, FollowsOutput

\* No output changes a finished line, but that half of the largest buffer goes at
\* once, or all of it when memory is refused (Fl_Term.cxx 477-511).
THEOREM FinishedLinesKept == ShortLines => (Spec => NoLineLost)
<1>1. ASSUME ShortLines, BInv, [Next]_vars
      PROVE  [Output => \/ KeptFrom(0)
                        \/ buf.line_size = LineSizeMax /\ KeptFrom(Half)
                        \/ buf'.line_size = LineSize0 /\ buf'.cursor_y = 0]_vars
  BY <1>1, OutputStep DEF After, LinesKept, KeptLines, KeptFrom
<1>2. SUFFICES ASSUME ShortLines PROVE Spec => NoLineLost
  OBVIOUS
<1> QED BY <1>1, <1>2, BufferStaysGood, PTL DEF Spec, NoLineLost
=============================================================================
