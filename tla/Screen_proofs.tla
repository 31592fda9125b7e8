---------------------------- MODULE Screen_proofs ----------------------------
(***************************************************************************)
(* The escape sequences of Screen, for windows of every size: no sequence  *)
(* pulls the rows of the alternate screen apart, or reaches the text that  *)
(* was scrolled back.                                                      *)
(***************************************************************************)
EXTENDS Screen, WellFoundedInduction, TLAPS

----------------------------------------------------------------------------
(* The inductive invariant *)

Char == Cells \cup {Blank, LF}

State ==
    [buff : [Bytes -> Char], line : [Lines -> Nat],
     cursor_x : Nat, cursor_y : Nat, screen_y : Nat,
     roll_top : Nat, roll_bot : Nat, save_x : Nat, save_y : Nat,
     bAltScreen : BOOLEAN, bInsert : BOOLEAN, bWraparound : BOOLEAN, bOriginMode : BOOLEAN]

\* The margins and the saved cursor are on the screen.
OfScreen(s) ==
    /\ s.roll_top < s.roll_bot /\ s.roll_bot < size_y
    /\ s.save_x <= size_x /\ s.save_y < size_y

\* The lines up to the first one that output may change are in order, and none
\* is longer than a row and its LF.
TextAbove(s) ==
    /\ Base(s) <= MaxLine
    /\ \A i \in 0..(Base(s) - 1) : s.line[i] <= s.line[i + 1]
    /\ s.line[Base(s)] <= Base(s) * (size_x + 1)

\* The alternate screen: rows of size_x bytes, and nothing behind the line that
\* the last next_line() began.
OnScreen(s) ==
    /\ \A r \in 0..(size_y - 1) : s.line[s.screen_y + r + 1] = s.line[s.screen_y + r] + size_x
    /\ \A i \in Lines : i > s.screen_y + size_y + 1 => s.line[i] = 0
    /\ Row(s) \in 0..(size_y - 1)

\* Elsewhere the cursor's line is the last, of a row at most.
InText(s) ==
    /\ s.screen_y <= s.cursor_y
    /\ \A i \in Lines : i > s.cursor_y + 1 => s.line[i] = 0
    /\ End(s) <= s.line[s.cursor_y] + size_x

Good(s) ==
    /\ s \in State
    /\ OfScreen(s)
    /\ TextAbove(s)
    /\ IF s.bAltScreen THEN OnScreen(s) ELSE InText(s)
    /\ Col(s) \in 0..size_x

\* What ScrollbackKept says of a step from s to t.
Kept(s, t) ==
    /\ IF s.bAltScreen \/ t.bAltScreen THEN Base(t) = Base(s) ELSE Base(t) >= Base(s)
    /\ \A i \in 0..Base(s) : t.line[i] = s.line[i]
    /\ \A i \in Bytes : i < s.line[Base(s)] => t.buff[i] = s.buff[i]

\* The mode and the margins stay.
SameScreen(s, t) ==
    t.bAltScreen = s.bAltScreen /\ t.roll_top = s.roll_top /\ t.roll_bot = s.roll_bot

----------------------------------------------------------------------------
(* Arithmetic *)

LEMMA Sizes == size_x \in Nat /\ size_x > 1 /\ size_y \in Nat /\ size_y > 1 /\ MaxLine \in Nat
BY ScreenAssumption

\* The bytes and lines that the text and a screen below it need are there.
LEMMA RoomForScreen ==
    ASSUME NEW y \in 0..MaxLine, NEW p \in Nat, p <= y * (size_x + 1),
           NEW d \in 0..(size_y * size_x + size_x)
    PROVE  p + d \in Bytes
<1>1. y * (size_x + 1) <= MaxLine * (size_x + 1)
  BY Sizes
<1>2. (MaxLine + 1) * (size_x + 2) = MaxLine * (size_x + 1) + MaxLine + size_x + 2
  BY Sizes
<1>3. (size_y + 1) * size_x = size_y * size_x + size_x
  BY Sizes
<1>4. y * (size_x + 1) \in Nat /\ MaxLine * (size_x + 1) \in Nat /\ size_y * size_x \in Nat
  BY Sizes
<1> HIDE DEF Bytes
<1>5. p + d <= MaxLine * (size_x + 1) + MaxLine + size_x + 2 + (size_y * size_x + size_x)
  BY <1>1, <1>4, Sizes
<1> QED BY <1>2, <1>3, <1>5, <1>4, Sizes DEF Bytes

LEMMA LineNumbers ==
    ASSUME NEW y \in Nat, y <= MaxLine + 2 * size_y + 2
    PROVE  y \in Lines
BY Sizes DEF Lines

LEMMA BytesAre == \A i \in Bytes : i \in Nat
BY DEF Bytes

LEMMA MaxOfTwo ==
    ASSUME NEW a \in Int, NEW b \in Int
    PROVE  Max({a, b}) = IF a >= b THEN a ELSE b
BY DEF Max

LEMMA MinOfTwo ==
    ASSUME NEW a \in Int, NEW b \in Int
    PROVE  Min({a, b}) = IF a <= b THEN a ELSE b
BY DEF Min

LEMMA Least ==
    ASSUME NEW K, K \subseteq Nat, NEW k0 \in K
    PROVE  \E k \in K : \A i \in K : k <= i
<1>1. PICK k \in K : \A i \in K : <<i, k>> \notin OpToRel(<, Nat)
  BY NatLessThanWellFounded, WFMin
<1>2. ASSUME NEW i \in K PROVE k <= i
  <2>1. ~(i < k)
    BY <1>1 DEF OpToRel
  <2> QED BY <2>1
<1> QED BY <1>2

\* Induction on the steps of a loop: S is the numbers a claim holds for.
LEMMA Induct ==
    ASSUME NEW S, 0 \in S, \A n \in Nat : n \in S => n + 1 \in S
    PROVE  Nat \subseteq S
<1>1. ASSUME NEW k0 \in Nat \ S PROVE FALSE
  <2>1. PICK m \in Nat \ S : \A i \in Nat \ S : m <= i
    BY Least
  <2>2. m # 0 /\ m - 1 \in Nat
    BY <2>1
  <2>3. m - 1 \in S
    BY <2>1, <2>2
  <2>4. m - 1 + 1 = m
    BY <2>1
  <2>5. m \in S
    BY <2>2, <2>3, <2>4
  <2> QED BY <2>1, <2>5
<1> QED BY <1>1

\* The rows of the alternate screen are laid out one after the other.
LEMMA RowsAre ==
    ASSUME NEW s, Good(s), s.bAltScreen
    PROVE  \A r \in 0..size_y : /\ s.line[s.screen_y + r] = s.line[s.screen_y] + r * size_x
                                /\ s.screen_y + r \in Lines
<1>1. s.screen_y \in Nat /\ s.screen_y <= MaxLine /\ s.line \in [Lines -> Nat]
  BY DEF Good, State, TextAbove, Base
<1>2. \A r \in 0..size_y : s.screen_y + r \in Lines
  BY <1>1, Sizes, LineNumbers
<1>3. \A r \in 0..(size_y - 1) : s.line[s.screen_y + r + 1] = s.line[s.screen_y + r] + size_x
  BY DEF Good, OnScreen
<1> DEFINE S == {r \in Nat : r <= size_y => s.line[s.screen_y + r] = s.line[s.screen_y] + r * size_x}
<1>4. 0 \in S
  BY <1>1, <1>2, Sizes
<1>5. ASSUME NEW r \in Nat, r \in S PROVE r + 1 \in S
  <2>1. CASE r + 1 <= size_y
    <3>1. s.line[s.screen_y + r] = s.line[s.screen_y] + r * size_x
      BY <1>5, <2>1, Sizes
    <3>2. s.line[s.screen_y + r + 1] = s.line[s.screen_y + r] + size_x
      BY <1>3, <2>1, Sizes
    <3>3. (r + 1) * size_x = r * size_x + size_x
      BY Sizes
    <3>4. s.line[s.screen_y] \in Nat /\ r * size_x \in Nat
      <4>1. s.screen_y \in Lines
        BY <1>1, Sizes, LineNumbers
      <4>2. r * size_x \in Nat
        BY Sizes
      <4> QED BY <1>1, <4>1, <4>2
    <3>5. s.screen_y + (r + 1) = s.screen_y + r + 1
      BY <1>1
    <3> QED BY <3>1, <3>2, <3>3, <3>4, <3>5, Sizes
  <2>2. CASE ~(r + 1 <= size_y)
    BY <2>2, Sizes
  <2> QED BY <2>1, <2>2
<1>6. Nat \subseteq S
  <2> HIDE DEF S
  <2> QED BY <1>4, <1>5, Induct
<1> QED BY <1>2, <1>6, Sizes

----------------------------------------------------------------------------
(* The loops *)

\* b: the buffer after each of the copies.
InTurn(b, buff, n, to, from, len) ==
    /\ b[0] = buff
    /\ \A k \in 1..n : b[k] = Copied(b[k - 1], to[k], from[k], len)
    /\ Copies(buff, to, from, len) = b[n]

\* Copies() carries out its copies one after the other.
LEMMA CopiesInTurn ==
    ASSUME NEW buff, NEW n \in Nat, NEW to, NEW from, NEW len, Len(to) = n
    PROVE  \E b : InTurn(b, buff, n, to, from, len)
<1> DEFINE Nth(b, k) == IF k = 0 THEN buff ELSE Copied(b[k - 1], to[k], from[k], len)
           S == {m \in Nat : \E b : b = [k \in 0..m |-> Nth(b, k)]}
<1>1. 0 \in S
  <2>1. [k \in 0..0 |-> buff] = [k \in 0..0 |-> Nth([j \in 0..0 |-> buff], k)]
    OBVIOUS
  <2> QED BY <2>1
<1>2. ASSUME NEW m \in Nat, m \in S PROVE m + 1 \in S
  <2>1. PICK b : b = [k \in 0..m |-> Nth(b, k)]
    BY <1>2
  <2> DEFINE c == [k \in 0..(m + 1) |-> IF k <= m THEN b[k] ELSE Nth(b, k)]
  <2>2. \A k \in 0..(m + 1) : k > 0 => c[k - 1] = b[k - 1]
    OBVIOUS
  <2>3. \A k \in 0..(m + 1) : Nth(c, k) = Nth(b, k)
    BY <2>2
  <2>4. \A k \in 0..(m + 1) : c[k] = Nth(b, k)
    BY <2>1
  <2>5. c = [k \in 0..(m + 1) |-> Nth(c, k)]
    BY <2>3, <2>4
  <2>6. \E x : x = [k \in 0..(m + 1) |-> Nth(x, k)]
    <3> HIDE DEF c, Nth
    <3> QED BY <2>5
  <2>7. m + 1 \in Nat
    OBVIOUS
  <2> HIDE DEF c, Nth
  <2> QED BY <2>6, <2>7
<1>3. n \in S
  <2> HIDE DEF S
  <2> QED BY <1>1, <1>2, Induct
<1> DEFINE a == CHOOSE x : x = [k \in 0..n |-> Nth(x, k)]
<1>4. a = [k \in 0..n |-> Nth(a, k)]
  BY <1>3
<1>5. Copies(buff, to, from, len) = a[n]
  BY DEF Copies
<1> HIDE DEF a
<1>6. a[0] = buff
  <2>1. 0 \in 0..n
    OBVIOUS
  <2> QED BY <1>4, <2>1
<1>7. \A k \in 1..n : a[k] = Copied(a[k - 1], to[k], from[k], len)
  <2>1. \A k \in 1..n : k \in 0..n /\ k # 0
    OBVIOUS
  <2> QED BY <1>4, <2>1
<1> HIDE DEF Nth, S
<1> WITNESS a
<1> QED
  BY <1>5, <1>6, <1>7 DEF InTurn

\* The places i and j, of len bytes each, have no byte in common.
Apart(i, j, len) == i + len <= j \/ j + len <= i

\* The copies stay in the buffer; none writes a byte again that another wrote,
\* or one that a later copy reads.
Orderly(n, to, from, len) ==
    /\ Len(to) = n
    /\ \A k \in 1..n : \A d \in 0..(len - 1) : from[k] + d \in Bytes
    /\ \A j, k \in 1..n : j < k => Apart(to[j], to[k], len) /\ Apart(to[j], from[k], len)

\* c is the buffer after all the copies at once.
AtOnce(c, buff, n, to, from, len) ==
    /\ \A i \in Bytes : \A k \in 1..n :
         i \in to[k]..(to[k] + len - 1) => c[i] = buff[i - to[k] + from[k]]
    /\ \A i \in Bytes : (\A k \in 1..n : i \notin to[k]..(to[k] + len - 1)) => c[i] = buff[i]

\* A loop of copies that writes no byte twice, and none it reads later, makes
\* all the copies at once.
LEMMA CopiesAtOnce ==
    ASSUME NEW Val, NEW buff \in [Bytes -> Val], NEW n \in Nat, NEW len \in Nat,
           NEW to \in [1..n -> Int], NEW from \in [1..n -> Int], Orderly(n, to, from, len)
    PROVE  /\ Copies(buff, to, from, len) \in [Bytes -> Val]
           /\ AtOnce(Copies(buff, to, from, len), buff, n, to, from, len)
<1>9. /\ Len(to) = n
      /\ \A k \in 1..n : \A d \in 0..(len - 1) : from[k] + d \in Bytes
      /\ \A j, k \in 1..n : j < k => Apart(to[j], to[k], len) /\ Apart(to[j], from[k], len)
  BY DEF Orderly
<1>0. PICK b : InTurn(b, buff, n, to, from, len)
  BY <1>9, CopiesInTurn
<1>1. /\ b[0] = buff
      /\ \A k \in 1..n : b[k] = Copied(b[k - 1], to[k], from[k], len)
      /\ Copies(buff, to, from, len) = b[n]
  BY <1>0 DEF InTurn
<1> DEFINE In(i, k) == i \in to[k]..(to[k] + len - 1)
           Done(m) == \A i \in Bytes : \A k \in 1..m : In(i, k) => b[m][i] = buff[i - to[k] + from[k]]
           Left(m) == \A i \in Bytes : (\A k \in 1..m : ~In(i, k)) => b[m][i] = buff[i]
           S == {m \in Nat : m <= n => b[m] \in [Bytes -> Val] /\ Done(m) /\ Left(m)}
<1>2. 0 \in S
  BY <1>1
<1>3. ASSUME NEW m \in Nat, m \in S, m + 1 <= n
      PROVE  b[m + 1] \in [Bytes -> Val] /\ Done(m + 1) /\ Left(m + 1)
  <2>1. b[m] \in [Bytes -> Val] /\ Done(m) /\ Left(m)
    <3>1. m <= n
      BY <1>3
    <3> HIDE DEF Done, Left
    <3> QED BY <1>3, <3>1
  <2> DEFINE p == m + 1
  <2>2. p \in 1..n /\ p - 1 = m
    BY <1>3
  <2>3. b[p] = Copied(b[m], to[p], from[p], len)
    BY <1>1, <2>2
  <2>4. to[p] \in Int /\ from[p] \in Int
    BY <2>2
  <2>5. \A i \in Bytes : In(i, p) => /\ i - to[p] + from[p] \in Bytes
                                     /\ \A k \in 1..m : ~In(i - to[p] + from[p], k)
                                     /\ \A k \in 1..m : ~In(i, k)
    <3> SUFFICES ASSUME NEW i \in Bytes, In(i, p)
                 PROVE  /\ i - to[p] + from[p] \in Bytes
                        /\ \A k \in 1..m : ~In(i - to[p] + from[p], k) /\ ~In(i, k)
      OBVIOUS
    <3>1. i \in Int
      BY BytesAre
    <3>2. i - to[p] \in 0..(len - 1)
      BY <2>4, <3>1
    <3>3. from[p] + (i - to[p]) \in Bytes
      BY <1>9, <2>2, <3>2
    <3>4. i - to[p] + from[p] = from[p] + (i - to[p])
      BY <2>4, <3>1
    <3>5. ASSUME NEW k \in 1..m PROVE ~In(i - to[p] + from[p], k) /\ ~In(i, k)
      <4>1. k \in 1..n /\ k < p /\ to[k] \in Int
        BY <2>2
      <4>2. Apart(to[k], to[p], len) /\ Apart(to[k], from[p], len)
        BY <1>9, <4>1, <2>2
      <4>3. to[p] <= i /\ i <= to[p] + len - 1
        BY <2>4, <3>1
      <4> DEFINE tk == to[k]  tp == to[p]  fp == from[p]
      <4>4. tk \in Int /\ tp \in Int /\ fp \in Int
        BY <4>1, <2>4
      <4>5. /\ tk + len <= tp \/ tp + len <= tk
            /\ tk + len <= fp \/ fp + len <= tk
            /\ tp <= i /\ i <= tp + len - 1
        BY <4>2, <4>3 DEF Apart
      <4> HIDE DEF tk, tp, fp
      <4>6. i - tp + fp \notin tk..(tk + len - 1) /\ i \notin tk..(tk + len - 1)
        BY ONLY <4>4, <4>5, <3>1, len \in Nat
      <4> QED BY <4>6 DEF tk, tp, fp
    <3> QED BY <3>3, <3>4, <3>5
  <2>6. \A i \in Bytes : In(i, p) => b[p][i] = buff[i - to[p] + from[p]]
    <3> SUFFICES ASSUME NEW i \in Bytes, In(i, p) PROVE b[p][i] = buff[i - to[p] + from[p]]
      OBVIOUS
    <3>1. b[p][i] = b[m][i - to[p] + from[p]]
      BY <2>3 DEF Copied
    <3>2. b[m][i - to[p] + from[p]] = buff[i - to[p] + from[p]]
      <4> HIDE DEF In
      <4> QED BY <2>1, <2>5
    <3> QED BY <3>1, <3>2
  <2>7. \A i \in Bytes : ~In(i, p) => b[p][i] = b[m][i]
    BY <2>3 DEF Copied
  <2> HIDE DEF In
  <2>8. b[p] \in [Bytes -> Val]
    <3>1. b[p] = [i \in Bytes |-> IF In(i, p) THEN b[m][i - to[p] + from[p]] ELSE b[m][i]]
      BY <2>3 DEF Copied, In
    <3>2. \A i \in Bytes : In(i, p) => i - to[p] + from[p] \in Bytes
      BY <2>5
    <3> QED BY ONLY <2>1, <3>1, <3>2
  <2>9. \A k \in 1..p : k = p \/ k \in 1..m
    BY <2>2
  <2>10. p \in 1..p /\ \A k \in 1..m : k \in 1..p
    BY <2>2
  <2> HIDE DEF p
  <2>11. Done(p)
    BY ONLY <2>1, <2>5, <2>6, <2>7, <2>9
  <2>12. Left(p)
    BY ONLY <2>1, <2>7, <2>10
  <2> QED BY <2>8, <2>11, <2>12 DEF p
<1>4. \A m \in Nat : m \in S => m + 1 \in S
  <2> SUFFICES ASSUME NEW m \in Nat, m \in S PROVE m + 1 \in S
    OBVIOUS
  <2>0. m + 1 \in Nat
    OBVIOUS
  <2>1. CASE m + 1 <= n
    <3>1. b[m + 1] \in [Bytes -> Val] /\ Done(m + 1) /\ Left(m + 1)
      BY <1>3, <2>1
    <3> HIDE DEF Done, Left
    <3> QED BY <2>0, <3>1
  <2>2. CASE ~(m + 1 <= n)
    <3> HIDE DEF Done, Left
    <3> QED BY <2>0, <2>2
  <2> QED BY <2>1, <2>2
<1>5. n \in S
  <2> HIDE DEF S
  <2> QED BY <1>2, <1>4, Induct
<1>6. b[n] \in [Bytes -> Val] /\ Done(n) /\ Left(n)
  BY <1>5
<1> QED
  BY <1>1, <1>6 DEF AtOnce

\* The length of a sequence of places.
LEMMA Places ==
    ASSUME NEW n \in Nat, NEW p \in [1..n -> Int]
    PROVE  Len(p) = n
<1>1. p \in Seq(Int)
  OBVIOUS
<1> QED BY <1>1

\* Records of the screen with the same fields are the same.
LEMMA SameFields ==
    ASSUME NEW s \in State, NEW t \in State,
           s.buff = t.buff, s.line = t.line, s.cursor_x = t.cursor_x, s.cursor_y = t.cursor_y,
           s.screen_y = t.screen_y, s.roll_top = t.roll_top, s.roll_bot = t.roll_bot,
           s.save_x = t.save_x, s.save_y = t.save_y, s.bAltScreen = t.bAltScreen,
           s.bInsert = t.bInsert, s.bWraparound = t.bWraparound, s.bOriginMode = t.bOriginMode
    PROVE  s = t
BY DEF State

\* s after k rounds of BlankLines(): k lines from the cursor's on.
LaidBuff(s, k) ==
    LET L == s.line[s.cursor_y]
    IN  [i \in Bytes |-> IF i \in L..(L + k * size_x - 1) THEN Blank ELSE s.buff[i]]
LaidLine(s, k) ==
    LET L == s.line[s.cursor_y]
    IN  [i \in Lines |-> IF i \in (s.cursor_y + 1)..(s.cursor_y + k) THEN L + (i - s.cursor_y) * size_x
                         ELSE IF k > 0 /\ i = s.cursor_y + k + 1 /\ s.line[i] < L + k * size_x
                         THEN L + k * size_x ELSE s.line[i]]
Laid(s, k) ==
    [s EXCEPT !.buff = LaidBuff(s, k), !.line = LaidLine(s, k),
              !.cursor_x = s.line[s.cursor_y] + k * size_x, !.cursor_y = s.cursor_y + k,
              !.screen_y = IF k > 0 /\ s.cursor_y + k = @ + size_y THEN @ + 1 ELSE @]

LEMMA BlankIsChar == Blank \in Char /\ LF \in Char /\ Cells \subseteq Char
BY DEF Char

\* Laying out rows keeps the types of the screen.
LEMMA LaidState ==
    ASSUME NEW s \in State, s.cursor_y \in Lines, NEW k \in Nat
    PROVE  Laid(s, k) \in State
<1>1. s.line \in [Lines -> Nat] /\ s.buff \in [Bytes -> Char] /\ s.cursor_y \in Nat /\ s.screen_y \in Nat
  BY DEF State
<1>2. s.line[s.cursor_y] \in Nat /\ k * size_x \in Nat
  BY <1>1, Sizes
<1>3. LaidBuff(s, k) \in [Bytes -> Char]
  BY <1>1, BlankIsChar DEF LaidBuff
<1>4. LaidLine(s, k) \in [Lines -> Nat]
  <2>1. \A i \in Lines : i \in (s.cursor_y + 1)..(s.cursor_y + k) => (i - s.cursor_y) * size_x \in Nat
    <3> SUFFICES ASSUME NEW i \in Lines, i \in (s.cursor_y + 1)..(s.cursor_y + k)
                 PROVE  (i - s.cursor_y) * size_x \in Nat
      OBVIOUS
    <3>1. i - s.cursor_y \in Nat
      BY <1>1
    <3> QED BY <3>1, Sizes
  <2> QED BY <2>1, <1>1, <1>2 DEF LaidLine
<1>5. s.line[s.cursor_y] + k * size_x \in Nat /\ s.cursor_y + k \in Nat
  BY <1>1, <1>2
<1>6. (IF k > 0 /\ s.cursor_y + k = s.screen_y + size_y THEN s.screen_y + 1 ELSE s.screen_y) \in Nat
  BY <1>1
<1> HIDE DEF LaidBuff, LaidLine
<1> QED
  BY ONLY <1>3, <1>4, <1>5, <1>6, s \in State DEF Laid, State

\* The body of BlankLines()'s loop.
LaidNext(u) == next_line([buff_clear(u, u.cursor_x, size_x) EXCEPT !.cursor_x = @ + size_x])

\* One round of BlankLines() lays out one row more.
LEMMA LaidOneMore ==
    ASSUME NEW s \in State, NEW k \in Nat,
           s.cursor_y + k < s.screen_y + size_y, s.cursor_y + k + 2 \in Lines
    PROVE  LaidNext(Laid(s, k)) = Laid(s, k + 1)
<1> DEFINE u == Laid(s, k)
           L == s.line[s.cursor_y]
           K == k * size_x
           y == s.cursor_y + k + 1
           x == L + K + size_x
<1>1. s.line \in [Lines -> Nat] /\ s.buff \in [Bytes -> Char] /\ s.cursor_y \in Nat /\ s.screen_y \in Nat
  BY DEF State
<1>2. s.cursor_y \in Lines /\ y \in Lines /\ y + 1 \in Lines
  <2>1. PICK h \in Int : Lines = 0..h
    BY Sizes DEF Lines
  <2>2. PICK c \in Nat : c = s.cursor_y
    BY <1>1
  <2>3. c + k + 2 \in 0..h
    BY <2>1, <2>2
  <2>4. c \in 0..h /\ c + k + 1 \in 0..h /\ c + k + 1 + 1 \in 0..h
    BY ONLY <2>3, c \in Nat, k \in Nat, h \in Int
  <2> QED BY <2>1, <2>2, <2>4
<1>3. L \in Nat /\ K \in Nat /\ (k + 1) * size_x = K + size_x /\ size_x \in Nat
  BY <1>1, <1>2, Sizes
<1>4. u \in State
  BY <1>2, LaidState
<1>5. /\ u.buff = LaidBuff(s, k) /\ u.line = LaidLine(s, k)
      /\ u.cursor_x = L + K /\ u.cursor_y = s.cursor_y + k /\ u.screen_y = s.screen_y
  BY <1>1 DEF Laid, State
<1> HIDE DEF u, L, K
<1> DEFINE b == [i \in Bytes |-> IF i \in u.cursor_x..(u.cursor_x + size_x - 1) THEN Blank ELSE u.buff[i]]
           l == [u.line EXCEPT ![y] = x, ![y + 1] = IF @ < x THEN x ELSE @]
           v == [u EXCEPT !.buff = b, !.cursor_x = x, !.cursor_y = y, !.line = l,
                          !.screen_y = IF @ = y - size_y THEN @ + 1 ELSE @]
<1>6. LaidNext(u) = v
  <2> DEFINE w == [u EXCEPT !.buff = b, !.cursor_x = x]
             z == next_line(w)
  <2>1. w = [buff_clear(u, u.cursor_x, size_x) EXCEPT !.cursor_x = @ + size_x]
    BY <1>4, <1>5 DEF buff_clear, State
  <2>2. b \in [Bytes -> Char]
    BY <1>4, BlankIsChar DEF State
  <2>3. x \in Nat /\ y \in Nat /\ y + 1 \in Nat
    BY <1>1, <1>3
  <2>4. w \in State /\ w.line = u.line /\ w.cursor_x = x /\ w.cursor_y = s.cursor_y + k /\ w.screen_y = u.screen_y
    <3> HIDE DEF b, x
    <3> QED BY <1>4, <1>5, <2>2, <2>3 DEF State
  <2>5. w.cursor_y + 1 = y
    BY <2>4, <1>1
  <2> HIDE DEF w, b, x, y
  <2>6. z = [w EXCEPT !.cursor_y = y, !.line[y] = x, !.line[y + 1] = IF @ < x THEN x ELSE @,
                      !.screen_y = IF @ = y - size_y THEN @ + 1 ELSE @]
    BY ONLY <2>4, <2>5 DEF next_line
  <2>7. z = [w EXCEPT !.cursor_y = y, !.line = l, !.screen_y = IF @ = y - size_y THEN @ + 1 ELSE @]
    BY ONLY <2>4, <2>6, <1>2, <2>3 DEF State
  <2> HIDE DEF z, l
  <2>8. z = v
    BY <2>7, <1>4, <2>4 DEF w, State
  <2> QED BY <2>1, <2>8 DEF LaidNext, z
<1>7. b = LaidBuff(s, k + 1)
  <2>1. \A i \in Bytes : b[i] = LaidBuff(s, k + 1)[i]
    <3> SUFFICES ASSUME NEW i \in Bytes PROVE b[i] = LaidBuff(s, k + 1)[i]
      OBVIOUS
    <3>1. LaidBuff(s, k)[i] = IF i \in L..(L + K - 1) THEN Blank ELSE s.buff[i]
      BY DEF LaidBuff, L, K
    <3>2. LaidBuff(s, k + 1)[i] = IF i \in L..(L + (K + size_x) - 1) THEN Blank ELSE s.buff[i]
      BY <1>3 DEF LaidBuff, L
    <3>3. b[i] = IF i \in (L + K)..(L + K + size_x - 1) THEN Blank ELSE LaidBuff(s, k)[i]
      BY <1>5
    <3>4. i \in Nat
      BY BytesAre
    <3> HIDE DEF b
    <3> QED BY <3>1, <3>2, <3>3, <3>4, <1>3
  <2>2. LaidBuff(s, k + 1) = [i \in Bytes |-> LaidBuff(s, k + 1)[i]]
    BY DEF LaidBuff
  <2> QED BY <2>1, <2>2
<1>8. l = LaidLine(s, k + 1)
  <2>1. \A i \in Lines : l[i] = LaidLine(s, k + 1)[i]
    <3> SUFFICES ASSUME NEW i \in Lines PROVE l[i] = LaidLine(s, k + 1)[i]
      OBVIOUS
    <3> DEFINE c == s.cursor_y
    <3>0. i \in Nat /\ c \in Nat /\ y \in Nat /\ y = c + k + 1 /\ x = L + (K + size_x)
      BY <1>1, <1>3 DEF Lines
    <3>1. LaidLine(s, k)[i] = IF i \in (c + 1)..(c + k) THEN L + (i - c) * size_x
                              ELSE IF k > 0 /\ i = c + k + 1 /\ s.line[i] < L + K THEN L + K ELSE s.line[i]
      BY DEF LaidLine, L, K
    <3>2. LaidLine(s, k + 1)[i] =
             IF i \in (c + 1)..(c + (k + 1)) THEN L + (i - c) * size_x
             ELSE IF k + 1 > 0 /\ i = c + (k + 1) + 1 /\ s.line[i] < L + (K + size_x)
             THEN L + (K + size_x) ELSE s.line[i]
      BY <1>3 DEF LaidLine, L
    <3>3. u.line \in [Lines -> Nat]
      BY <1>4 DEF State
    <3>4. l[i] = IF i = y + 1 THEN (IF u.line[i] < x THEN x ELSE u.line[i])
                 ELSE IF i = y THEN x ELSE u.line[i]
      BY <1>2, <3>3, <3>0
    <3>5. u.line[i] = LaidLine(s, k)[i] /\ s.line[i] \in Nat
      BY <1>5, <1>1
    <3> HIDE DEF l, c, x
    <3>6. CASE i = y
      <4>0. i - c = k + 1
        BY <3>6, <3>0
      <4>1. (i - c) * size_x = K + size_x
        BY <4>0, <1>3
      <4>2. i # y + 1 /\ i \in (c + 1)..(c + (k + 1))
        BY <3>6, <3>0
      <4> QED BY ONLY <4>1, <4>2, <3>2, <3>4, <3>6, <3>0
    <3>7. CASE i = y + 1
      <4>1. i \notin (c + 1)..(c + (k + 1)) /\ i = c + (k + 1) + 1 /\ i \notin (c + 1)..(c + k) /\ i # c + k + 1
        BY <3>7, <3>0
      <4>2. u.line[i] = s.line[i]
        BY ONLY <4>1, <3>1, <3>5
      <4>3. k + 1 > 0
        OBVIOUS
      <4> QED BY ONLY <4>1, <4>2, <4>3, <3>2, <3>4, <3>7, <3>0
    <3>8. CASE i # y /\ i # y + 1
      <4>1. /\ i # c + k + 1 /\ i # c + (k + 1) + 1
            /\ i \in (c + 1)..(c + (k + 1)) <=> i \in (c + 1)..(c + k)
        BY <3>8, <3>0
      <4> QED BY ONLY <4>1, <3>1, <3>2, <3>4, <3>5, <3>8
    <3> QED BY <3>6, <3>7, <3>8
  <2>2. LaidLine(s, k + 1) = [i \in Lines |-> LaidLine(s, k + 1)[i]]
    BY DEF LaidLine
  <2>3. l = [i \in Lines |-> l[i]]
    <3>1. u.line \in [Lines -> Nat]
      BY <1>4 DEF State
    <3> QED BY <3>1
  <2> HIDE DEF l
  <2> QED BY <2>1, <2>2, <2>3
<1>9. x = s.line[s.cursor_y] + (k + 1) * size_x /\ y = s.cursor_y + (k + 1)
  <2>1. x = L + (k + 1) * size_x
    BY ONLY <1>3
  <2> QED BY ONLY <2>1, <1>1, k \in Nat DEF L
<1>10. (IF u.screen_y = y - size_y THEN u.screen_y + 1 ELSE u.screen_y)
         = IF k + 1 > 0 /\ s.cursor_y + (k + 1) = s.screen_y + size_y THEN s.screen_y + 1 ELSE s.screen_y
  BY <1>1, <1>5, Sizes
<1> HIDE DEF b, l, x, y
<1>11. v = [u EXCEPT !.buff = LaidBuff(s, k + 1), !.cursor_x = s.line[s.cursor_y] + (k + 1) * size_x,
                     !.cursor_y = s.cursor_y + (k + 1), !.line = LaidLine(s, k + 1),
                     !.screen_y = IF k + 1 > 0 /\ s.cursor_y + (k + 1) = s.screen_y + size_y
                                  THEN s.screen_y + 1 ELSE s.screen_y]
  BY <1>7, <1>8, <1>9, <1>10
<1>12. Laid(s, k + 1) \in State
  BY <1>2, LaidState
<1> HIDE DEF v
<1>13. v \in State /\ v.buff = LaidBuff(s, k + 1) /\ v.line = LaidLine(s, k + 1)
  BY <1>11, <1>12, <1>4 DEF Laid, State
<1>14. v = Laid(s, k + 1)
  <2> DEFINE t == Laid(s, k + 1)
  <2>1. /\ t.buff = LaidBuff(s, k + 1) /\ t.line = LaidLine(s, k + 1)
        /\ t.cursor_x = s.line[s.cursor_y] + (k + 1) * size_x /\ t.cursor_y = s.cursor_y + (k + 1)
        /\ t.screen_y = IF k + 1 > 0 /\ s.cursor_y + (k + 1) = s.screen_y + size_y
                        THEN s.screen_y + 1 ELSE s.screen_y
    BY DEF Laid, State
  <2>2. /\ v.cursor_x = s.line[s.cursor_y] + (k + 1) * size_x /\ v.cursor_y = s.cursor_y + (k + 1)
        /\ v.screen_y = IF k + 1 > 0 /\ s.cursor_y + (k + 1) = s.screen_y + size_y
                        THEN s.screen_y + 1 ELSE s.screen_y
    BY <1>11, <1>4 DEF State
  <2>3. /\ t.roll_top = s.roll_top /\ t.roll_bot = s.roll_bot /\ t.save_x = s.save_x /\ t.save_y = s.save_y
        /\ t.bAltScreen = s.bAltScreen /\ t.bInsert = s.bInsert
        /\ t.bWraparound = s.bWraparound /\ t.bOriginMode = s.bOriginMode
    BY DEF Laid, State
  <2>4. /\ v.roll_top = u.roll_top /\ v.roll_bot = u.roll_bot /\ v.save_x = u.save_x /\ v.save_y = u.save_y
        /\ v.bAltScreen = u.bAltScreen /\ v.bInsert = u.bInsert
        /\ v.bWraparound = u.bWraparound /\ v.bOriginMode = u.bOriginMode
    BY <1>11, <1>4 DEF State
  <2>5. /\ u.roll_top = s.roll_top /\ u.roll_bot = s.roll_bot /\ u.save_x = s.save_x /\ u.save_y = s.save_y
        /\ u.bAltScreen = s.bAltScreen /\ u.bInsert = s.bInsert
        /\ u.bWraparound = s.bWraparound /\ u.bOriginMode = s.bOriginMode
    BY DEF u, Laid, State
  <2> HIDE DEF t
  <2>6. t \in State
    BY <1>12 DEF t
  <2>7. v = t
    BY ONLY <2>1, <2>2, <2>3, <2>4, <2>5, <2>6, <1>13, SameFields
  <2> QED BY <2>7 DEF t
<1> QED
  BY <1>6, <1>14 DEF u

\* What BlankLines() leaves, down to the screen's last row.
LEMMA BlankLinesAre ==
    ASSUME NEW s \in State, NEW n \in Nat,
           s.cursor_y + n <= s.screen_y + size_y, s.cursor_y + n + 1 \in Lines
    PROVE  BlankLines(s, n) = Laid(s, n) /\ Laid(s, n) \in State
<1> DEFINE Nth(t, k) == IF k = 0 THEN [s EXCEPT !.cursor_x = s.line[s.cursor_y]] ELSE LaidNext(t[k - 1])
           a == CHOOSE t : t = [k \in 0..n |-> Nth(t, k)]
           f == [k \in 0..n |-> Laid(s, k)]
<1>1. BlankLines(s, n) = a[n]
  BY DEF BlankLines, LaidNext
<1>2. s.cursor_y \in Nat /\ s.screen_y \in Nat /\ s.line \in [Lines -> Nat] /\ s.buff \in [Bytes -> Char]
  BY DEF State
<1>3. PICK h \in Int : Lines = 0..h
  BY Sizes DEF Lines
<1>4. s.cursor_y \in Lines /\ \A k \in Nat : k < n => s.cursor_y + k + 2 \in Lines
  <2>1. PICK c \in Nat : c = s.cursor_y
    BY <1>2
  <2>2. c + n + 1 \in 0..h
    BY <2>1, <1>3
  <2>3. c \in 0..h /\ \A k \in Nat : k < n => c + k + 2 \in 0..h
    BY ONLY <2>2, c \in Nat, n \in Nat, h \in Int
  <2> QED BY <2>1, <2>3, <1>3
<1>5. Laid(s, 0) = [s EXCEPT !.cursor_x = s.line[s.cursor_y]]
  <2> DEFINE t == [s EXCEPT !.cursor_x = s.line[s.cursor_y]]
             r == Laid(s, 0)
  <2>1. s.line[s.cursor_y] \in Nat /\ s.line[s.cursor_y] + 0 * size_x = s.line[s.cursor_y]
    BY <1>2, <1>4, Sizes
  <2>2. r \in State /\ t \in State
    BY <1>4, <2>1, LaidState DEF State
  <2>3. LaidBuff(s, 0) = s.buff
    <3>1. \A i \in Bytes : i \notin s.line[s.cursor_y]..(s.line[s.cursor_y] + 0 * size_x - 1)
      <4> DEFINE L == s.line[s.cursor_y]
                 z == 0 * size_x
      <4>1. L \in Nat /\ z = 0
        BY <2>1, Sizes
      <4> HIDE DEF L, z
      <4>2. \A i \in Bytes : i \notin L..(L + z - 1)
        BY <4>1, BytesAre
      <4> QED BY ONLY <4>2 DEF L, z
    <3> QED BY <3>1, <1>2 DEF LaidBuff
  <2>4. LaidLine(s, 0) = s.line
    <3>1. \A i \in Lines : i \notin (s.cursor_y + 1)..(s.cursor_y + 0)
      BY <1>2
    <3> QED BY <3>1, <1>2 DEF LaidLine
  <2>5. /\ t.buff = s.buff /\ t.line = s.line /\ t.cursor_x = s.line[s.cursor_y]
        /\ t.cursor_y = s.cursor_y /\ t.screen_y = s.screen_y
        /\ t.roll_top = s.roll_top /\ t.roll_bot = s.roll_bot /\ t.save_x = s.save_x /\ t.save_y = s.save_y
        /\ t.bAltScreen = s.bAltScreen /\ t.bInsert = s.bInsert
        /\ t.bWraparound = s.bWraparound /\ t.bOriginMode = s.bOriginMode
    BY DEF State
  <2>6. /\ r.buff = s.buff /\ r.line = s.line /\ r.cursor_x = s.line[s.cursor_y]
        /\ r.cursor_y = s.cursor_y /\ r.screen_y = s.screen_y
        /\ r.roll_top = s.roll_top /\ r.roll_bot = s.roll_bot /\ r.save_x = s.save_x /\ r.save_y = s.save_y
        /\ r.bAltScreen = s.bAltScreen /\ r.bInsert = s.bInsert
        /\ r.bWraparound = s.bWraparound /\ r.bOriginMode = s.bOriginMode
    BY <2>1, <2>3, <2>4, <1>2 DEF Laid, State
  <2> HIDE DEF t, r
  <2>7. r = t
    BY ONLY <2>2, <2>5, <2>6, SameFields
  <2> QED BY <2>7 DEF t, r
<1>6. \A k \in Nat : k < n => LaidNext(Laid(s, k)) = Laid(s, k + 1)
  <2> SUFFICES ASSUME NEW k \in Nat, k < n PROVE LaidNext(Laid(s, k)) = Laid(s, k + 1)
    OBVIOUS
  <2>1. s.cursor_y + k < s.screen_y + size_y
    BY <1>2, Sizes
  <2>2. s.cursor_y + k + 2 \in Lines
    BY <1>4
  <2> QED BY ONLY <2>1, <2>2, s \in State, k \in Nat, LaidOneMore
<1>7. f = [k \in 0..n |-> Nth(f, k)]
  <2>1. ASSUME NEW k \in 0..n PROVE Laid(s, k) = Nth(f, k)
    <3>1. CASE k = 0
      BY <3>1, <1>5
    <3>2. CASE k # 0
      <4>1. k - 1 \in Nat /\ k - 1 < n /\ k - 1 \in 0..n /\ k - 1 + 1 = k
        BY <3>2
      <4>2. f[k - 1] = Laid(s, k - 1)
        BY <4>1
      <4>3. LaidNext(Laid(s, k - 1)) = Laid(s, k)
        BY <4>1, <1>6
      <4> QED BY <3>2, <4>2, <4>3
    <3> QED BY <3>1, <3>2
  <2> HIDE DEF Nth
  <2> QED BY <2>1
<1>8. a = [k \in 0..n |-> Nth(a, k)]
  <2> HIDE DEF f, Nth
  <2> QED BY <1>7
<1> HIDE DEF a
<1> DEFINE S == {k \in Nat : k <= n => a[k] = Laid(s, k)}
<1>9. 0 \in S
  <2>1. 0 \in 0..n
    OBVIOUS
  <2>2. a[0] = [s EXCEPT !.cursor_x = s.line[s.cursor_y]]
    BY <2>1, <1>8
  <2> QED BY <2>2, <1>5
<1>10. ASSUME NEW k \in Nat, k \in S PROVE k + 1 \in S
  <2>1. CASE k + 1 <= n
    <3>1. k + 1 \in 0..n /\ k + 1 # 0 /\ k + 1 - 1 = k /\ k < n /\ k <= n
      BY <2>1
    <3>2. a[k + 1] = LaidNext(a[k])
      BY <3>1, <1>8
    <3>3. a[k] = Laid(s, k)
      BY <3>1, <1>10
    <3> QED BY <3>1, <3>2, <3>3, <1>6
  <2>2. CASE ~(k + 1 <= n)
    BY <2>2
  <2> QED BY <2>1, <2>2
<1>11. n \in S
  <2> HIDE DEF S
  <2> QED BY <1>9, <1>10, Induct
<1>12. Laid(s, n) \in State
  BY <1>4, LaidState
<1> QED BY <1>1, <1>11, <1>12

----------------------------------------------------------------------------
(* Where rows and columns are *)

LEMMA GoodFacts ==
    ASSUME NEW s, Good(s)
    PROVE  /\ s \in State /\ s.line \in [Lines -> Nat] /\ s.buff \in [Bytes -> Char]
           /\ s.cursor_x \in Nat /\ s.cursor_y \in Nat /\ s.screen_y \in Nat
           /\ s.cursor_y \in Lines /\ s.cursor_y + 1 \in Lines /\ s.cursor_y + 2 \in Lines
           /\ s.line[s.cursor_y] \in Nat /\ End(s) \in Nat
           /\ Col(s) \in 0..size_x /\ s.cursor_x = s.line[s.cursor_y] + Col(s)
           /\ Base(s) \in 0..MaxLine /\ Base(s) \in Lines /\ s.line[Base(s)] \in Nat
           /\ s.cursor_y <= MaxLine + size_y
<1>1. s \in State /\ s.line \in [Lines -> Nat] /\ s.buff \in [Bytes -> Char]
      /\ s.cursor_x \in Nat /\ s.cursor_y \in Nat /\ s.screen_y \in Nat
  BY DEF Good, State
<1>2. Base(s) \in 0..MaxLine
  BY <1>1, Sizes DEF Good, TextAbove, Base
<1>3. s.cursor_y <= MaxLine + size_y
  <2>1. CASE s.bAltScreen
    <3>1. s.cursor_y - s.screen_y \in 0..(size_y - 1) /\ s.screen_y <= MaxLine
      BY <2>1, <1>2 DEF Good, OnScreen, Row, Base
    <3> QED BY <3>1, <1>1, Sizes
  <2>2. CASE ~s.bAltScreen
    <3>1. s.cursor_y <= MaxLine
      BY <2>2, <1>2 DEF Base
    <3> QED BY <3>1, <1>1, Sizes
  <2> QED BY <2>1, <2>2
<1>4. s.cursor_y \in Lines /\ s.cursor_y + 1 \in Lines /\ s.cursor_y + 2 \in Lines
  BY <1>1, <1>3, Sizes, LineNumbers
<1>5. Base(s) \in Lines
  BY <1>2, Sizes, LineNumbers
<1>6. Col(s) \in 0..size_x
  BY DEF Good
<1>7. s.line[s.cursor_y] \in Nat /\ End(s) \in Nat /\ s.line[Base(s)] \in Nat
  BY <1>1, <1>4, <1>5 DEF End
<1>8. s.cursor_x = s.line[s.cursor_y] + Col(s)
  BY <1>1, <1>7 DEF Col
<1> QED BY <1>1, <1>2, <1>3, <1>4, <1>5, <1>6, <1>7, <1>8

\* The bytes of the screen and one row more are there, behind the text above.
LEMMA Place ==
    ASSUME NEW s, Good(s), s.bAltScreen, NEW r \in 0..(size_y - 1)
    PROVE  /\ s.screen_y + r \in Lines /\ s.line[s.screen_y + r] \in Nat
           /\ s.line[s.screen_y] \in Nat /\ s.line[s.screen_y] <= s.line[s.screen_y + r]
           /\ \A c \in 0..(2 * size_x) : s.line[s.screen_y + r] + c \in Bytes
<1>1. s.line[s.screen_y + r] = s.line[s.screen_y] + r * size_x /\ s.screen_y + r \in Lines
  BY RowsAre, Sizes
<1>2. s.line \in [Lines -> Nat] /\ s.screen_y \in 0..MaxLine /\ s.screen_y \in Lines
  BY GoodFacts DEF Base
<1>3. s.line[s.screen_y] <= s.screen_y * (size_x + 1)
  BY DEF Good, TextAbove, Base
<1>4. r * size_x \in Nat /\ r * size_x + size_x <= size_y * size_x
  <2>1. (r + 1) * size_x <= size_y * size_x
    BY Sizes
  <2>2. (r + 1) * size_x = r * size_x + size_x
    BY Sizes
  <2> QED BY <2>1, <2>2, Sizes
<1>5. ASSUME NEW c \in 0..(2 * size_x) PROVE s.line[s.screen_y + r] + c \in Bytes
  <2>1. size_y * size_x \in Nat
    BY Sizes
  <2>2. PICK p \in Nat : p = s.line[s.screen_y]
    BY <1>2
  <2>3. PICK q \in Nat : q = r * size_x
    BY <1>4
  <2>4. q + c \in 0..(size_y * size_x + size_x)
    BY <2>1, <2>3, <1>4, Sizes
  <2>5. p + (q + c) \in Bytes
    BY <2>2, <2>4, <1>2, <1>3, RoomForScreen
  <2>6. s.line[s.screen_y + r] + c = p + (q + c)
    BY <1>1, <2>2, <2>3
  <2> QED BY <2>5, <2>6
<1>6. s.line[s.screen_y] \in Nat /\ s.line[s.screen_y + r] \in Nat
  BY <1>1, <1>2
<1> QED BY <1>1, <1>4, <1>5, <1>6

\* Rows further down begin whole rows further on.
LEMMA RowsFollow ==
    ASSUME NEW s, Good(s), s.bAltScreen, NEW q \in 0..size_y, NEW r \in 0..size_y, q < r
    PROVE  /\ s.line[s.screen_y + q] + size_x <= s.line[s.screen_y + r]
           /\ s.line[s.screen_y + r] = s.line[s.screen_y + q] + (r - q) * size_x
           /\ s.line[s.screen_y + q] \in Nat /\ s.line[s.screen_y + r] \in Nat
<1>1. /\ s.line[s.screen_y + q] = s.line[s.screen_y] + q * size_x
      /\ s.line[s.screen_y + r] = s.line[s.screen_y] + r * size_x
      /\ s.screen_y + q \in Lines /\ s.screen_y + r \in Lines
  BY RowsAre
<1>2. s.line \in [Lines -> Nat]
  BY GoodFacts
<1>3. s.screen_y \in Lines
  BY GoodFacts DEF Base
<1>4. q * size_x \in Nat /\ r * size_x \in Nat /\ (r - q) * size_x = r * size_x - q * size_x
  BY Sizes
<1>5. (q + 1) * size_x <= r * size_x
  BY Sizes
<1>6. (q + 1) * size_x = q * size_x + size_x
  BY Sizes
<1>7. s.line[s.screen_y] \in Nat /\ s.line[s.screen_y + q] \in Nat /\ s.line[s.screen_y + r] \in Nat
  BY <1>1, <1>2, <1>3
<1> QED BY <1>1, <1>4, <1>5, <1>6, <1>7, Sizes

----------------------------------------------------------------------------
(* Steps that leave the lines alone *)

\* The buffer b has kept the text above.
KeepsText(s, b) ==
    /\ b \in [Bytes -> Char]
    /\ \A i \in Bytes : i < s.line[Base(s)] => b[i] = s.buff[i]

\* Line y, column x is a place for the cursor.
CursorAt(s, y, x) ==
    /\ x \in 0..size_x
    /\ IF s.bAltScreen THEN y \in s.screen_y..(s.screen_y + size_y - 1) ELSE y = s.cursor_y

Drawn(s, b, y, x) == [s EXCEPT !.buff = b, !.cursor_y = y, !.cursor_x = s.line[y] + x]

\* The fields of a screen that was drawn on.
LEMMA DrawnState ==
    ASSUME NEW s, Good(s), NEW b \in [Bytes -> Char], NEW y, NEW x, CursorAt(s, y, x)
    PROVE  LET t == Drawn(s, b, y, x) IN
           /\ t \in State
           /\ y \in Lines /\ y \in Nat /\ s.line[y] \in Nat /\ x \in Nat
           /\ t.buff = b /\ t.line = s.line /\ t.cursor_x = s.line[y] + x /\ t.cursor_y = y
           /\ t.screen_y = s.screen_y /\ t.roll_top = s.roll_top /\ t.roll_bot = s.roll_bot
           /\ t.save_x = s.save_x /\ t.save_y = s.save_y /\ t.bAltScreen = s.bAltScreen
           /\ t.bInsert = s.bInsert /\ t.bWraparound = s.bWraparound /\ t.bOriginMode = s.bOriginMode
<1> DEFINE t == Drawn(s, b, y, x)
<1>1. s \in State /\ s.line \in [Lines -> Nat] /\ s.screen_y \in Nat /\ s.cursor_y \in Nat /\ s.cursor_y \in Lines
  BY GoodFacts
<1>2. y \in Nat /\ y \in Lines
  <2>1. CASE s.bAltScreen
    <3>1. y \in s.screen_y..(s.screen_y + size_y - 1) /\ s.screen_y <= MaxLine
      BY <2>1, GoodFacts DEF CursorAt, Base
    <3> QED BY <3>1, <1>1, Sizes, LineNumbers
  <2>2. CASE ~s.bAltScreen
    BY <2>2, <1>1 DEF CursorAt
  <2> QED BY <2>1, <2>2
<1>3. x \in Nat /\ s.line[y] \in Nat
  BY <1>1, <1>2, Sizes DEF CursorAt
<1>4. s.line[y] + x \in Nat
  BY <1>3
<1>5. t \in State
  BY ONLY <1>1, <1>2, <1>4, b \in [Bytes -> Char] DEF Drawn, State
<1>6. /\ t.buff = b /\ t.line = s.line /\ t.cursor_x = s.line[y] + x /\ t.cursor_y = y
      /\ t.screen_y = s.screen_y /\ t.roll_top = s.roll_top /\ t.roll_bot = s.roll_bot
      /\ t.save_x = s.save_x /\ t.save_y = s.save_y /\ t.bAltScreen = s.bAltScreen
      /\ t.bInsert = s.bInsert /\ t.bWraparound = s.bWraparound /\ t.bOriginMode = s.bOriginMode
  BY ONLY <1>1 DEF Drawn, State
<1> HIDE DEF t
<1>7. t = Drawn(s, b, y, x)
  BY DEF t
<1> QED BY <1>2, <1>3, <1>5, <1>6 DEF t

\* Bytes below the text and a cursor on the screen: the invariant stays.
LEMMA DrawnGood ==
    ASSUME NEW s, Good(s), NEW b, KeepsText(s, b), NEW y, NEW x, CursorAt(s, y, x)
    PROVE  Good(Drawn(s, b, y, x)) /\ Kept(s, Drawn(s, b, y, x)) /\ SameScreen(s, Drawn(s, b, y, x))
<1> DEFINE t == Drawn(s, b, y, x)
<1>1. b \in [Bytes -> Char]
  BY DEF KeepsText
<1>2. /\ t \in State
      /\ y \in Lines /\ y \in Nat /\ s.line[y] \in Nat /\ x \in Nat
      /\ t.buff = b /\ t.line = s.line /\ t.cursor_x = s.line[y] + x /\ t.cursor_y = y
      /\ t.screen_y = s.screen_y /\ t.roll_top = s.roll_top /\ t.roll_bot = s.roll_bot
      /\ t.save_x = s.save_x /\ t.save_y = s.save_y /\ t.bAltScreen = s.bAltScreen
  BY <1>1, DrawnState
<1> HIDE DEF t
<1>3. s.screen_y \in Nat /\ s.cursor_y \in Nat
  BY GoodFacts
<1>4. Base(t) = Base(s)
  BY <1>2 DEF Base, CursorAt
<1>5. OfScreen(t)
  BY <1>2 DEF Good, OfScreen
<1>6. TextAbove(t)
  <2>1. TextAbove(s)
    BY DEF Good
  <2> QED BY ONLY <2>1, <1>2, <1>4 DEF TextAbove
<1>7. Col(t) = x
  BY ONLY <1>2 DEF Col
<1>8. x \in 0..size_x
  BY DEF CursorAt
<1>9. CASE s.bAltScreen
  <2>1. OnScreen(s)
    BY <1>9 DEF Good
  <2>2. Row(t) \in 0..(size_y - 1)
    <3>1. y \in s.screen_y..(s.screen_y + size_y - 1)
      BY <1>9 DEF CursorAt
    <3>2. Row(t) = y - s.screen_y
      BY <1>2 DEF Row
    <3> QED BY <3>1, <3>2, <1>2, <1>3, Sizes
  <2>3. OnScreen(t)
    BY ONLY <2>1, <2>2, <1>2 DEF OnScreen
  <2> QED BY <1>9, <2>3, <1>2, <1>5, <1>6, <1>7, <1>8, <1>4 DEF Good, Kept, KeepsText, SameScreen, t
<1>10. CASE ~s.bAltScreen
  <2>1. InText(s) /\ y = s.cursor_y
    BY <1>10 DEF Good, CursorAt
  <2>2. InText(t)
    BY ONLY <2>1, <1>2 DEF InText, End
  <2>3. Base(t) >= Base(s)
    BY <1>4, GoodFacts
  <2> QED BY <1>10, <2>2, <2>3, <1>2, <1>5, <1>6, <1>7, <1>8, <1>4 DEF Good, Kept, KeepsText, SameScreen, t
<1> QED BY <1>9, <1>10

\* A step that changes only the buffer.
LEMMA DrawnHere ==
    ASSUME NEW s, Good(s), NEW b \in [Bytes -> Char]
    PROVE  /\ CursorAt(s, s.cursor_y, Col(s))
           /\ [s EXCEPT !.buff = b] = Drawn(s, b, s.cursor_y, Col(s))
<1>1. s \in State /\ s.cursor_x = s.line[s.cursor_y] + Col(s) /\ Col(s) \in 0..size_x
      /\ s.cursor_y \in Nat /\ s.screen_y \in Nat
  BY GoodFacts
<1>2. CursorAt(s, s.cursor_y, Col(s))
  <2>1. CASE s.bAltScreen
    <3>1. s.cursor_y - s.screen_y \in 0..(size_y - 1)
      BY <2>1 DEF Good, OnScreen, Row
    <3> QED BY <3>1, <2>1, <1>1, Sizes DEF CursorAt
  <2>2. CASE ~s.bAltScreen
    BY <2>2, <1>1 DEF CursorAt
  <2> QED BY <2>1, <2>2
<1>3. [s EXCEPT !.buff = b] = [s EXCEPT !.buff = b, !.cursor_y = s.cursor_y, !.cursor_x = s.cursor_x]
  BY ONLY <1>1 DEF State
<1> QED BY <1>1, <1>2, <1>3 DEF Drawn

----------------------------------------------------------------------------
(* What the sequences do to the bytes *)

Cleared(b, o, n) == [i \in Bytes |-> IF i \in o..(o + n - 1) THEN Blank ELSE b[i]]

\* buff_clear() changes the bytes alone.
LEMMA ClearIs ==
    ASSUME NEW s, NEW o, NEW n
    PROVE  buff_clear(s, o, n) = [s EXCEPT !.buff = Cleared(s.buff, o, n)]
BY DEF buff_clear, Cleared

\* Clearing behind the text above keeps that text.
LEMMA ClearKeeps ==
    ASSUME NEW s, Good(s), NEW b, KeepsText(s, b), NEW o \in Int, NEW n \in Int, s.line[Base(s)] <= o
    PROVE  KeepsText(s, Cleared(b, o, n))
<1>1. s.line[Base(s)] \in Nat
  BY GoodFacts
<1>2. Cleared(b, o, n) \in [Bytes -> Char]
  BY BlankIsChar DEF Cleared, KeepsText
<1>3. ASSUME NEW i \in Bytes, i < s.line[Base(s)] PROVE Cleared(b, o, n)[i] = s.buff[i]
  <2>1. i \in Nat /\ ~(i \in o..(o + n - 1))
    BY <1>1, <1>3, BytesAre
  <2> QED BY <2>1, <1>3 DEF Cleared, KeepsText
<1> QED BY <1>2, <1>3 DEF KeepsText

\* The bytes as they are keep the text.
LEMMA SameText ==
    ASSUME NEW s, Good(s)
    PROVE  KeepsText(s, s.buff)
BY GoodFacts DEF KeepsText

\* The bytes p to q move n further, from the last to the first.
LEMMA MovedOn ==
    ASSUME NEW s \in State, NEW p \in Int, NEW q \in Int, NEW n \in Nat, n >= 1,
           \A i \in p..q : i \in Bytes
    PROVE  \E b \in [Bytes -> Char] :
              /\ MoveBytes(s, Descending(q, p), n) = [s EXCEPT !.buff = b]
              /\ \A i \in Bytes : b[i] = IF i \in (p + n)..(q + n) THEN s.buff[i - n] ELSE s.buff[i]
<1> DEFINE N == IF q < p THEN 0 ELSE q - p + 1
           from == [k \in 1..N |-> q - k + 1]
           to == [k \in 1..N |-> q - k + 1 + n]
           b == Copies(s.buff, to, from, 1)
<1>0. N \in Nat
  OBVIOUS
<1>1. from = Descending(q, p) /\ from \in [1..N -> Int] /\ to \in [1..N -> Int]
  BY DEF Descending
<1>2. Len(from) = N /\ Len(to) = N
  BY <1>0, <1>1, Places
<1>3. to = [k \in 1..Len(from) |-> from[k] + n]
  BY <1>2
<1>4. MoveBytes(s, Descending(q, p), n) = [s EXCEPT !.buff = b]
  BY <1>1, <1>3 DEF MoveBytes
<1>5. s.buff \in [Bytes -> Char]
  BY DEF State
<1>6. \A k \in 1..N : \A d \in 0..(1 - 1) : from[k] + d \in Bytes
  <2> SUFFICES ASSUME NEW k \in 1..N PROVE from[k] + 0 \in Bytes
    OBVIOUS
  <2>1. q - k + 1 \in p..q
    OBVIOUS
  <2>2. from[k] + 0 = q - k + 1
    OBVIOUS
  <2> QED BY <2>1, <2>2
<1>7. \A j, k \in 1..N : j < k => Apart(to[j], to[k], 1) /\ Apart(to[j], from[k], 1)
  BY DEF Apart
<1>8. /\ b \in [Bytes -> Char]
      /\ \A i \in Bytes : \A k \in 1..N :
           i \in to[k]..(to[k] + 1 - 1) => b[i] = s.buff[i - to[k] + from[k]]
      /\ \A i \in Bytes : (\A k \in 1..N : i \notin to[k]..(to[k] + 1 - 1)) => b[i] = s.buff[i]
  <2> HIDE DEF N, to, from
  <2>1. Orderly(N, to, from, 1) /\ 1 \in Nat
    BY <1>2, <1>6, <1>7 DEF Orderly
  <2>2. b \in [Bytes -> Char] /\ AtOnce(b, s.buff, N, to, from, 1)
    BY ONLY <1>0, <1>1, <1>5, <2>1, CopiesAtOnce
  <2> HIDE DEF b
  <2> QED BY <2>2 DEF AtOnce
<1> HIDE DEF b
<1>9. ASSUME NEW i \in Bytes
      PROVE  b[i] = IF i \in (p + n)..(q + n) THEN s.buff[i - n] ELSE s.buff[i]
  <2>1. i \in Int
    BY BytesAre
  <2>2. CASE i \in (p + n)..(q + n)
    <3> DEFINE k == q + n - i + 1
    <3>1. k \in 1..N /\ to[k] = i /\ from[k] = i - n
      BY <2>1, <2>2
    <3>2. i \in to[k]..(to[k] + 1 - 1)
      BY <2>1, <3>1
    <3>3. i - to[k] + from[k] = i - n
      BY <2>1, <3>1
    <3> HIDE DEF k, to, from, N
    <3>4. b[i] = s.buff[i - to[k] + from[k]]
      BY <1>8, <3>1, <3>2
    <3> QED BY <2>2, <3>3, <3>4
  <2>3. CASE i \notin (p + n)..(q + n)
    <3>1. \A k \in 1..N : i \notin to[k]..(to[k] + 1 - 1)
      BY <2>1, <2>3
    <3> HIDE DEF to, from, N
    <3> QED BY <1>8, <2>3, <3>1
  <2> QED BY <2>2, <2>3
<1> HIDE DEF N, to, from
<1> QED BY <1>4, <1>8, <1>9

\* The bytes p to q move n back, from the first to the last.
LEMMA MovedBack ==
    ASSUME NEW s \in State, NEW p \in Int, NEW q \in Int, NEW n \in Nat, n >= 1,
           \A i \in p..q : i \in Bytes
    PROVE  \E b \in [Bytes -> Char] :
              /\ MoveBytes(s, Ascending(p, q), -n) = [s EXCEPT !.buff = b]
              /\ \A i \in Bytes : b[i] = IF i \in (p - n)..(q - n) THEN s.buff[i + n] ELSE s.buff[i]
<1> DEFINE N == IF q < p THEN 0 ELSE q - p + 1
           from == [k \in 1..N |-> p + k - 1]
           to == [k \in 1..N |-> p + k - 1 + (-n)]
           b == Copies(s.buff, to, from, 1)
<1>0. N \in Nat
  OBVIOUS
<1>1. from = Ascending(p, q) /\ from \in [1..N -> Int] /\ to \in [1..N -> Int]
  BY DEF Ascending
<1>2. Len(from) = N /\ Len(to) = N
  BY <1>0, <1>1, Places
<1>3. to = [k \in 1..Len(from) |-> from[k] + (-n)]
  BY <1>2
<1>4. MoveBytes(s, Ascending(p, q), -n) = [s EXCEPT !.buff = b]
  BY <1>1, <1>3 DEF MoveBytes
<1>5. s.buff \in [Bytes -> Char]
  BY DEF State
<1>6. \A k \in 1..N : \A d \in 0..(1 - 1) : from[k] + d \in Bytes
  <2> SUFFICES ASSUME NEW k \in 1..N PROVE from[k] + 0 \in Bytes
    OBVIOUS
  <2>1. p + k - 1 \in p..q
    OBVIOUS
  <2>2. from[k] + 0 = p + k - 1
    OBVIOUS
  <2> QED BY <2>1, <2>2
<1>7. \A j, k \in 1..N : j < k => Apart(to[j], to[k], 1) /\ Apart(to[j], from[k], 1)
  BY DEF Apart
<1>8. /\ b \in [Bytes -> Char]
      /\ \A i \in Bytes : \A k \in 1..N :
           i \in to[k]..(to[k] + 1 - 1) => b[i] = s.buff[i - to[k] + from[k]]
      /\ \A i \in Bytes : (\A k \in 1..N : i \notin to[k]..(to[k] + 1 - 1)) => b[i] = s.buff[i]
  <2> HIDE DEF N, to, from
  <2>1. Orderly(N, to, from, 1) /\ 1 \in Nat
    BY <1>2, <1>6, <1>7 DEF Orderly
  <2>2. b \in [Bytes -> Char] /\ AtOnce(b, s.buff, N, to, from, 1)
    BY ONLY <1>0, <1>1, <1>5, <2>1, CopiesAtOnce
  <2> HIDE DEF b
  <2> QED BY <2>2 DEF AtOnce
<1> HIDE DEF b
<1>9. ASSUME NEW i \in Bytes
      PROVE  b[i] = IF i \in (p - n)..(q - n) THEN s.buff[i + n] ELSE s.buff[i]
  <2>1. i \in Int
    BY BytesAre
  <2>2. CASE i \in (p - n)..(q - n)
    <3> DEFINE k == i + n - p + 1
    <3>1. k \in 1..N /\ to[k] = i /\ from[k] = i + n
      BY <2>1, <2>2
    <3>2. i \in to[k]..(to[k] + 1 - 1)
      BY <2>1, <3>1
    <3>3. i - to[k] + from[k] = i + n
      BY <2>1, <3>1
    <3> HIDE DEF k, to, from, N
    <3>4. b[i] = s.buff[i - to[k] + from[k]]
      BY <1>8, <3>1, <3>2
    <3> QED BY <2>2, <3>3, <3>4
  <2>3. CASE i \notin (p - n)..(q - n)
    <3>1. \A k \in 1..N : i \notin to[k]..(to[k] + 1 - 1)
      BY <2>1, <2>3
    <3> HIDE DEF to, from, N
    <3> QED BY <1>8, <2>3, <3>1
  <2> QED BY <2>2, <2>3
<1> HIDE DEF N, to, from
<1> QED BY <1>4, <1>8, <1>9

\* The cells of the screen with b for its buffer.
CellsOf(s, b) ==
    [r \in 0..(size_y - 1) |-> [c \in 0..(size_x - 1) |-> b[s.line[s.screen_y + r] + c]]]

\* In b the rows tr[k] are what the rows fr[k] were, and the others the same.
RowsAs(s, b, N, tr, fr) ==
    /\ \A k \in 1..N : CellsOf(s, b)[tr[k]] = CellsOf(s, s.buff)[fr[k]]
    /\ \A r \in 0..(size_y - 1) : (\A k \in 1..N : tr[k] # r) => CellsOf(s, b)[r] = CellsOf(s, s.buff)[r]

\* No row is written twice, or before it is copied.
RowsInTurn(N, tr, fr) ==
    \A j, k \in 1..N : j < k => tr[j] # tr[k] /\ tr[j] # fr[k]

\* Rows that are copied in turn, none of them to where a row is yet to be copied
\* from, are copied at once.
LEMMA RowsCopied ==
    ASSUME NEW s, Good(s), s.bAltScreen, NEW N \in Nat,
           NEW tr \in [1..N -> 0..(size_y - 1)], NEW fr \in [1..N -> 0..(size_y - 1)],
           NEW to, NEW from,
           to = [k \in 1..N |-> s.line[s.screen_y + tr[k]]],
           from = [k \in 1..N |-> s.line[s.screen_y + fr[k]]],
           RowsInTurn(N, tr, fr)
    PROVE  /\ KeepsText(s, Copies(s.buff, to, from, size_x))
           /\ RowsAs(s, Copies(s.buff, to, from, size_x), N, tr, fr)
<1> DEFINE b == Copies(s.buff, to, from, size_x)
           at(r) == s.line[s.screen_y + r]
<1>1. \A r \in 0..(size_y - 1) : /\ at(r) \in Nat /\ s.line[s.screen_y] <= at(r)
                                 /\ \A c \in 0..(2 * size_x) : at(r) + c \in Bytes
  BY Place
<1>2. \A q, r \in 0..(size_y - 1) : q # r => Apart(at(q), at(r), size_x)
  <2> SUFFICES ASSUME NEW q \in 0..(size_y - 1), NEW r \in 0..(size_y - 1), q # r
               PROVE  Apart(at(q), at(r), size_x)
    OBVIOUS
  <2>1. q \in 0..size_y /\ r \in 0..size_y
    BY Sizes
  <2>2. CASE q < r
    BY <2>1, <2>2, RowsFollow DEF Apart
  <2>3. CASE r < q
    BY <2>1, <2>3, RowsFollow DEF Apart
  <2> QED BY <2>2, <2>3, Sizes
<1> HIDE DEF at
<1>3. \A k \in 1..N : /\ tr[k] \in 0..(size_y - 1) /\ fr[k] \in 0..(size_y - 1)
                      /\ to[k] = at(tr[k]) /\ from[k] = at(fr[k])
  BY DEF at
<1>4. to \in [1..N -> Int] /\ from \in [1..N -> Int]
  <2>1. \A k \in 1..N : to[k] \in Int /\ from[k] \in Int
    BY <1>1, <1>3
  <2> QED BY <2>1
<1>5. Len(to) = N
  BY <1>4, Places
<1>6. \A k \in 1..N : \A d \in 0..(size_x - 1) : from[k] + d \in Bytes
  <2> SUFFICES ASSUME NEW k \in 1..N, NEW d \in 0..(size_x - 1) PROVE from[k] + d \in Bytes
    OBVIOUS
  <2>1. d \in 0..(2 * size_x)
    BY Sizes
  <2> QED BY <2>1, <1>1, <1>3
<1>7. \A j, k \in 1..N : j < k => Apart(to[j], to[k], size_x) /\ Apart(to[j], from[k], size_x)
  BY <1>2, <1>3 DEF RowsInTurn
<1>8. Orderly(N, to, from, size_x)
  BY <1>5, <1>6, <1>7 DEF Orderly
<1>9. s.buff \in [Bytes -> Char] /\ size_x \in Nat
  BY GoodFacts, Sizes
<1>10. b \in [Bytes -> Char] /\ AtOnce(b, s.buff, N, to, from, size_x)
  BY ONLY <1>4, <1>8, <1>9, N \in Nat, CopiesAtOnce
<1> HIDE DEF b
<1>11. KeepsText(s, b)
  <2> SUFFICES ASSUME NEW i \in Bytes, i < s.line[Base(s)] PROVE b[i] = s.buff[i]
    BY <1>10 DEF KeepsText
  <2>1. s.line[s.screen_y] \in Nat /\ i \in Nat /\ i < s.line[s.screen_y]
    BY GoodFacts, BytesAre DEF Base
  <2>2. ASSUME NEW k \in 1..N PROVE i \notin to[k]..(to[k] + size_x - 1)
    <3>1. to[k] \in Nat /\ s.line[s.screen_y] <= to[k]
      BY <1>1, <1>3
    <3>2. PICK p \in Nat, L \in Nat : p = to[k] /\ L = s.line[s.screen_y]
      BY <3>1, <2>1
    <3> QED BY <2>1, <3>1, <3>2
  <2> QED BY <2>2, <1>10 DEF AtOnce
<1>12. ASSUME NEW k \in 1..N PROVE CellsOf(s, b)[tr[k]] = CellsOf(s, s.buff)[fr[k]]
  <2>1. ASSUME NEW c \in 0..(size_x - 1) PROVE b[at(tr[k]) + c] = s.buff[at(fr[k]) + c]
    <3> DEFINE i == at(tr[k]) + c
    <3>1. at(tr[k]) \in Nat /\ at(fr[k]) \in Nat /\ c \in 0..(2 * size_x)
      BY <1>1, <1>3, Sizes
    <3>2. i \in Bytes
      BY <3>1, <1>1, <1>3
    <3>3. i \in to[k]..(to[k] + size_x - 1)
      <4>1. PICK p \in Nat : p = to[k] /\ p = at(tr[k])
        BY <3>1, <1>3
      <4>2. p + c \in p..(p + size_x - 1)
        BY Sizes
      <4> QED BY <4>1, <4>2
    <3>4. i - to[k] + from[k] = at(fr[k]) + c
      BY <3>1, <1>3
    <3> HIDE DEF i
    <3>5. b[i] = s.buff[i - to[k] + from[k]]
      BY <3>2, <3>3, <1>10 DEF AtOnce
    <3> QED BY <3>4, <3>5 DEF i
  <2> QED BY <2>1, <1>3 DEF CellsOf, at
<1>13. ASSUME NEW r \in 0..(size_y - 1), \A k \in 1..N : tr[k] # r
       PROVE  CellsOf(s, b)[r] = CellsOf(s, s.buff)[r]
  <2>1. ASSUME NEW c \in 0..(size_x - 1) PROVE b[at(r) + c] = s.buff[at(r) + c]
    <3>1. at(r) \in Nat /\ c \in 0..(2 * size_x)
      BY <1>1, Sizes
    <3>2. at(r) + c \in Bytes
      BY <3>1, <1>1
    <3>3. \A k \in 1..N : at(r) + c \notin to[k]..(to[k] + size_x - 1)
      <4> SUFFICES ASSUME NEW k \in 1..N PROVE at(r) + c \notin to[k]..(to[k] + size_x - 1)
        OBVIOUS
      <4>1. Apart(to[k], at(r), size_x) /\ to[k] \in Nat
        BY <1>1, <1>2, <1>3, <1>13
      <4>2. PICK p \in Nat, q \in Nat : p = to[k] /\ q = at(r)
        BY <4>1, <3>1
      <4>3. p + size_x <= q \/ q + size_x <= p
        BY <4>1, <4>2 DEF Apart
      <4>4. q + c \notin p..(p + size_x - 1)
        BY <4>3, Sizes
      <4> QED BY <4>2, <4>4
    <3> QED BY <3>2, <3>3, <1>10 DEF AtOnce
  <2> QED BY <2>1 DEF CellsOf, at
<1>14. RowsAs(s, b, N, tr, fr)
  BY <1>12, <1>13 DEF RowsAs
<1> QED BY <1>11, <1>14 DEF b

\* t is s with rows a to z as the rows d further were.
ShiftedBy(s, t, a, z, d) ==
    \E b : /\ t = [s EXCEPT !.buff = b]
           /\ KeepsText(s, b)
           /\ \A r \in 0..(size_y - 1) :
                CellsOf(s, b)[r] = CellsOf(s, s.buff)[IF r \in a..z THEN r + d ELSE r]

\* Rows a to z become those n further down, from the first on.
LEMMA RowsUp ==
    ASSUME NEW s, Good(s), s.bAltScreen, NEW a \in Nat, NEW z \in Int, NEW n \in Nat,
           n >= 1, a <= z + 1, z + n < size_y
    PROVE  ShiftedBy(s, CopyLines(s, Ascending(s.screen_y + a, s.screen_y + z), n), a, z, n)
<1> DEFINE N == z - a + 1
           y == s.screen_y
           lines == Ascending(y + a, y + z)
           tr == [k \in 1..N |-> a + k - 1]
           fr == [k \in 1..N |-> a + k - 1 + n]
           to == [k \in 1..Len(lines) |-> s.line[lines[k]]]
           from == [k \in 1..Len(lines) |-> s.line[lines[k] + n]]
           b == Copies(s.buff, to, from, size_x)
<1>1. y \in Nat /\ N \in Nat /\ size_y \in Nat
  BY GoodFacts, Sizes
<1>2. lines = [k \in 1..N |-> y + a + k - 1]
  <2>1. (IF y + z < y + a THEN 0 ELSE (y + z) - (y + a) + 1) = N
    BY <1>1
  <2> HIDE DEF N, y
  <2> QED BY ONLY <2>1 DEF Ascending
<1>3. Len(lines) = N
  <2>1. [k \in 1..N |-> y + a + k - 1] \in [1..N -> Int]
    BY <1>1
  <2> HIDE DEF lines, N, y
  <2> QED BY <2>1, <1>1, <1>2, Places
<1>4. tr \in [1..N -> 0..(size_y - 1)] /\ fr \in [1..N -> 0..(size_y - 1)]
  BY <1>1
<1>5. \A k \in 1..N : lines[k] = y + tr[k] /\ lines[k] + n = y + fr[k]
  <2>1. \A k \in 1..N : y + a + k - 1 = y + tr[k] /\ y + a + k - 1 + n = y + fr[k]
    BY <1>1
  <2> HIDE DEF lines, N, y, tr, fr
  <2> QED BY <2>1, <1>2
<1>6. RowsInTurn(N, tr, fr)
  BY <1>1 DEF RowsInTurn
<1>7. \A r \in 0..(size_y - 1) : r \in a..z => \E k \in 1..N : tr[k] = r /\ fr[k] = r + n
  <2> SUFFICES ASSUME NEW r \in 0..(size_y - 1), r \in a..z PROVE \E k \in 1..N : tr[k] = r /\ fr[k] = r + n
    OBVIOUS
  <2>1. r - a + 1 \in 1..N
    OBVIOUS
  <2> QED BY <2>1
<1>8. \A r \in 0..(size_y - 1) : r \notin a..z => \A k \in 1..N : tr[k] # r
  OBVIOUS
<1> HIDE DEF lines, tr, fr, N
<1>9. /\ to = [k \in 1..N |-> s.line[y + tr[k]]]
      /\ from = [k \in 1..N |-> s.line[y + fr[k]]]
  BY <1>3, <1>5
<1>10. CopyLines(s, lines, n) = [s EXCEPT !.buff = b]
  BY DEF CopyLines
<1> HIDE DEF to, from
<1>11. KeepsText(s, b) /\ RowsAs(s, b, N, tr, fr)
  BY <1>1, <1>4, <1>6, <1>9, RowsCopied
<1> HIDE DEF b
<1>12. \A r \in 0..(size_y - 1) : CellsOf(s, b)[r] = CellsOf(s, s.buff)[IF r \in a..z THEN r + n ELSE r]
  BY <1>7, <1>8, <1>11 DEF RowsAs
<1> QED BY <1>10, <1>11, <1>12 DEF lines, ShiftedBy

\* Rows a to z become those n further up, from the last on.
LEMMA RowsDown ==
    ASSUME NEW s, Good(s), s.bAltScreen, NEW a \in Int, NEW z \in Int, NEW n \in Nat,
           n >= 1, a <= z + 1, n <= a, z < size_y
    PROVE  ShiftedBy(s, CopyLines(s, Descending(s.screen_y + z, s.screen_y + a), -n), a, z, -n)
<1> DEFINE N == z - a + 1
           y == s.screen_y
           lines == Descending(y + z, y + a)
           tr == [k \in 1..N |-> z - k + 1]
           fr == [k \in 1..N |-> z - k + 1 - n]
           to == [k \in 1..Len(lines) |-> s.line[lines[k]]]
           from == [k \in 1..Len(lines) |-> s.line[lines[k] + (-n)]]
           b == Copies(s.buff, to, from, size_x)
<1>1. y \in Nat /\ N \in Nat /\ size_y \in Nat
  BY GoodFacts, Sizes
<1>2. lines = [k \in 1..N |-> y + z - k + 1]
  <2>1. (IF y + z < y + a THEN 0 ELSE (y + z) - (y + a) + 1) = N
    BY <1>1
  <2> HIDE DEF N, y
  <2>2. lines = [k \in 1..N |-> (y + z) - k + 1]
    BY ONLY <2>1 DEF Descending
  <2>3. \A k \in 1..N : (y + z) - k + 1 = y + z - k + 1
    BY <1>1
  <2> HIDE DEF lines
  <2> QED BY ONLY <2>2, <2>3
<1>3. Len(lines) = N
  <2>1. [k \in 1..N |-> y + z - k + 1] \in [1..N -> Int]
    BY <1>1
  <2> HIDE DEF lines, N, y
  <2> QED BY <2>1, <1>1, <1>2, Places
<1>4. tr \in [1..N -> 0..(size_y - 1)] /\ fr \in [1..N -> 0..(size_y - 1)]
  BY <1>1
<1>5. \A k \in 1..N : lines[k] = y + tr[k] /\ lines[k] + (-n) = y + fr[k]
  <2>1. \A k \in 1..N : y + z - k + 1 = y + tr[k] /\ (y + z - k + 1) + (-n) = y + fr[k]
    BY <1>1
  <2> HIDE DEF lines, N, y, tr, fr
  <2> QED BY <2>1, <1>2
<1>6. RowsInTurn(N, tr, fr)
  BY <1>1 DEF RowsInTurn
<1>7. \A r \in 0..(size_y - 1) : r \in a..z => \E k \in 1..N : tr[k] = r /\ fr[k] = r + (-n)
  <2> SUFFICES ASSUME NEW r \in 0..(size_y - 1), r \in a..z PROVE \E k \in 1..N : tr[k] = r /\ fr[k] = r + (-n)
    OBVIOUS
  <2>1. z - r + 1 \in 1..N
    OBVIOUS
  <2> QED BY <2>1
<1>8. \A r \in 0..(size_y - 1) : r \notin a..z => \A k \in 1..N : tr[k] # r
  OBVIOUS
<1> HIDE DEF lines, tr, fr, N
<1>9. /\ to = [k \in 1..N |-> s.line[y + tr[k]]]
      /\ from = [k \in 1..N |-> s.line[y + fr[k]]]
  BY <1>3, <1>5
<1>10. CopyLines(s, lines, -n) = [s EXCEPT !.buff = b]
  BY DEF CopyLines
<1> HIDE DEF to, from
<1>11. KeepsText(s, b) /\ RowsAs(s, b, N, tr, fr)
  BY <1>1, <1>4, <1>6, <1>9, RowsCopied
<1> HIDE DEF b
<1>12. \A r \in 0..(size_y - 1) : CellsOf(s, b)[r] = CellsOf(s, s.buff)[IF r \in a..z THEN r + (-n) ELSE r]
  BY <1>7, <1>8, <1>11 DEF RowsAs
<1> QED BY <1>10, <1>11, <1>12 DEF lines, ShiftedBy

----------------------------------------------------------------------------
(* Rows and cells that are cleared or scroll *)

BlankRow == [c \in 0..(size_x - 1) |-> Blank]

\* The rows t to b of the cells g, n further up or down.
UpBy(g, t, b, n) ==
    [r \in 0..(size_y - 1) |-> IF r \notin t..b THEN g[r] ELSE IF r + n <= b THEN g[r + n] ELSE BlankRow]
DownBy(g, t, b, n) ==
    [r \in 0..(size_y - 1) |-> IF r \notin t..b THEN g[r] ELSE IF r - n >= t THEN g[r - n] ELSE BlankRow]

\* Clearing n times size_x bytes clears n rows.
LEMMA RowsCleared ==
    ASSUME NEW s, Good(s), s.bAltScreen, NEW b, KeepsText(s, b),
           NEW a \in 0..(size_y - 1), NEW n \in Nat, a + n <= size_y, NEW e, e = n * size_x
    PROVE  LET d == Cleared(b, s.line[s.screen_y + a], e) IN
           /\ KeepsText(s, d)
           /\ \A r \in 0..(size_y - 1) :
                CellsOf(s, d)[r] = IF r \in a..(a + n - 1) THEN BlankRow ELSE CellsOf(s, b)[r]
<1> DEFINE at(r) == s.line[s.screen_y + r]
           d == Cleared(b, at(a), e)
<1>1. \A r \in 0..(size_y - 1) : /\ at(r) \in Nat /\ s.line[s.screen_y] <= at(r)
                                 /\ \A c \in 0..(2 * size_x) : at(r) + c \in Bytes
  BY Place
<1>2. e \in Nat
  BY Sizes
<1>3. KeepsText(s, d)
  <2>1. at(a) \in Int /\ e \in Int /\ s.line[Base(s)] <= at(a)
    BY <1>1, <1>2 DEF Base
  <2> HIDE DEF at
  <2> QED BY <2>1, ClearKeeps
<1>4. ASSUME NEW r \in 0..(size_y - 1), NEW c \in 0..(size_x - 1)
      PROVE  d[at(r) + c] = IF r \in a..(a + n - 1) THEN Blank ELSE b[at(r) + c]
  <2>1. at(r) + c \in Bytes
    BY <1>1, Sizes
  <2>2. PICK p \in Nat, q \in Nat : p = at(r) /\ q = at(a)
    BY <1>1
  <2>3. p + c \in q..(q + e - 1) <=> r \in a..(a + n - 1)
    <3>1. CASE r < a
      <4>1. p + size_x <= q
        BY <3>1, <2>2, RowsFollow, Sizes
      <4> QED BY <3>1, <4>1, <2>2, <1>2, Sizes
    <3>2. CASE r = a
      <4>1. p = q
        BY <3>2, <2>2
      <4>2. CASE n = 0
        <5>1. e = 0
          BY <4>2, Sizes
        <5> QED BY ONLY <3>2, <4>1, <4>2, <5>1, p \in Nat, q \in Nat, a \in 0..(size_y - 1),
                   c \in 0..(size_x - 1), Sizes
      <4>3. CASE n >= 1
        <5>1. (n - 1) * size_x \in Nat /\ e = (n - 1) * size_x + size_x
          BY <4>3, Sizes
        <5> QED BY ONLY <3>2, <4>1, <4>3, <5>1, <1>2, p \in Nat, q \in Nat, n \in Nat,
                   a \in 0..(size_y - 1), c \in 0..(size_x - 1), Sizes
      <4> QED BY <4>2, <4>3
    <3>3. CASE r > a
      <4> DEFINE k == r - a
      <4>1. p = q + k * size_x
        BY <3>3, <2>2, RowsFollow, Sizes
      <4>2. k \in Nat
        BY <3>3
      <4>3. CASE k < n
        <5>1. (k + 1) * size_x <= n * size_x /\ (k + 1) * size_x = k * size_x + size_x /\ k * size_x \in Nat
          BY <4>2, <4>3, Sizes
        <5>2. PICK m \in Nat : m = k * size_x
          BY <5>1
        <5>3. p + c \in q..(q + e - 1)
          BY ONLY <4>1, <5>1, <5>2, e = n * size_x, <1>2, p \in Nat, q \in Nat, c \in 0..(size_x - 1), Sizes
        <5>4. r \in a..(a + n - 1)
          BY <3>3, <4>3
        <5> QED BY <5>3, <5>4
      <4>4. CASE ~(k < n)
        <5>1. n * size_x <= k * size_x /\ k * size_x \in Nat
          BY <4>2, <4>4, Sizes
        <5>2. PICK m \in Nat : m = k * size_x
          BY <5>1
        <5>3. ~(p + c \in q..(q + e - 1))
          BY ONLY <4>1, <5>1, <5>2, e = n * size_x, <1>2, p \in Nat, q \in Nat, c \in 0..(size_x - 1), Sizes
        <5>4. ~(r \in a..(a + n - 1))
          BY <3>3, <4>4
        <5> QED BY <5>3, <5>4
      <4> QED BY <4>3, <4>4
    <3> QED BY <3>1, <3>2, <3>3
  <2>4. d[at(r) + c] = IF p + c \in q..(q + e - 1) THEN Blank ELSE b[at(r) + c]
    BY <2>1, <2>2 DEF Cleared
  <2> HIDE DEF at, d
  <2> QED BY <2>3, <2>4
<1>5. ASSUME NEW r \in 0..(size_y - 1)
      PROVE  CellsOf(s, d)[r] = IF r \in a..(a + n - 1) THEN BlankRow ELSE CellsOf(s, b)[r]
  <2>1. CellsOf(s, d)[r] = [c \in 0..(size_x - 1) |-> d[at(r) + c]]
    BY DEF CellsOf
  <2>2. CellsOf(s, b)[r] = [c \in 0..(size_x - 1) |-> b[at(r) + c]]
    BY DEF CellsOf
  <2> HIDE DEF at, d
  <2> QED BY <1>4, <2>1, <2>2 DEF BlankRow
<1> HIDE DEF d
<1>6. d = Cleared(b, s.line[s.screen_y + a], e)
  BY DEF d
<1> QED BY ONLY <1>3, <1>5, <1>6

\* Clearing within a row.
LEMMA CellsCleared ==
    ASSUME NEW s, Good(s), s.bAltScreen, NEW b, KeepsText(s, b),
           NEW a \in 0..(size_y - 1), NEW x \in Nat, NEW n \in Int, x + n <= size_x,
           NEW o, o = s.line[s.screen_y + a] + x
    PROVE  LET d == Cleared(b, o, n) IN
           /\ KeepsText(s, d)
           /\ \A r \in 0..(size_y - 1) :
                CellsOf(s, d)[r] = [c \in 0..(size_x - 1) |->
                                      IF r = a /\ c \in x..(x + n - 1) THEN Blank ELSE CellsOf(s, b)[r][c]]
<1> DEFINE at(r) == s.line[s.screen_y + r]
           d == Cleared(b, o, n)
<1>1. \A r \in 0..(size_y - 1) : /\ at(r) \in Nat /\ s.line[s.screen_y] <= at(r)
                                 /\ \A c \in 0..(2 * size_x) : at(r) + c \in Bytes
  BY Place
<1>2. KeepsText(s, d)
  <2>1. at(a) \in Nat /\ s.line[s.screen_y] <= at(a) /\ s.line[s.screen_y] \in Nat
    BY <1>1, Place
  <2>2. o \in Int /\ n \in Int /\ s.line[Base(s)] <= o
    BY <2>1 DEF Base
  <2> QED BY ONLY <2>2, Good(s), KeepsText(s, b), ClearKeeps
<1>3. ASSUME NEW r \in 0..(size_y - 1), NEW c \in 0..(size_x - 1)
      PROVE  d[at(r) + c] = IF r = a /\ c \in x..(x + n - 1) THEN Blank ELSE b[at(r) + c]
  <2>1. at(r) + c \in Bytes
    BY <1>1, Sizes
  <2>2. PICK p \in Nat, q \in Nat : p = at(r) /\ q = at(a)
    BY <1>1
  <2>3. p + c \in (q + x)..(q + x + n - 1) <=> r = a /\ c \in x..(x + n - 1)
    <3>1. CASE r < a
      <4>1. p + size_x <= q
        BY <3>1, <2>2, RowsFollow, Sizes
      <4> QED BY <3>1, <4>1, <2>2, Sizes
    <3>2. CASE r = a
      <4>1. p = q
        BY <3>2, <2>2
      <4> QED BY ONLY <3>2, <4>1, x \in Nat, n \in Int, p \in Nat, q \in Nat, c \in 0..(size_x - 1), Sizes
    <3>3. CASE r > a
      <4>1. q + size_x <= p
        BY <3>3, <2>2, RowsFollow, Sizes
      <4> QED BY ONLY <3>3, <4>1, x \in Nat, n \in Int, x + n <= size_x, p \in Nat, q \in Nat,
                      c \in 0..(size_x - 1), a \in 0..(size_y - 1), Sizes
    <3> QED BY <3>1, <3>2, <3>3
  <2>4. d[at(r) + c] = IF p + c \in (q + x)..(q + x + n - 1) THEN Blank ELSE b[at(r) + c]
    BY <2>1, <2>2 DEF Cleared
  <2> HIDE DEF at, d
  <2> QED BY <2>3, <2>4
<1>4. ASSUME NEW r \in 0..(size_y - 1)
      PROVE  CellsOf(s, d)[r] = [c \in 0..(size_x - 1) |->
                                   IF r = a /\ c \in x..(x + n - 1) THEN Blank ELSE CellsOf(s, b)[r][c]]
  <2>1. CellsOf(s, d)[r] = [c \in 0..(size_x - 1) |-> d[at(r) + c]]
    BY DEF CellsOf
  <2>2. CellsOf(s, b)[r] = [c \in 0..(size_x - 1) |-> b[at(r) + c]]
    BY DEF CellsOf
  <2> HIDE DEF at, d
  <2> QED BY <1>3, <2>1, <2>2
<1> HIDE DEF d
<1>5. d = Cleared(b, o, n)
  BY DEF d
<1> QED BY ONLY <1>2, <1>4, <1>5

\* The screen from s with cursor at line y, column x, and with the cells g.
Draws(s, t, y, x, g) == \E b : t = Drawn(s, b, y, x) /\ KeepsText(s, b) /\ CellsOf(s, b) = g

\* IL, DL, SU and SD: lines are copied, and the rows that come in are cleared.
LEMMA ScrollUp ==
    ASSUME NEW s, Good(s), s.bAltScreen, NEW t \in Nat, NEW z \in 0..(size_y - 1), t <= z,
           NEW n \in Nat, n >= 1, n <= z - t + 1, NEW e, e = n * size_x
    PROVE  \E b : /\ b = Cleared(CopyLines(s, Ascending(s.screen_y + t, s.screen_y + z - n), n).buff,
                                 s.line[s.screen_y + z - n + 1], e)
                  /\ CopyLines(s, Ascending(s.screen_y + t, s.screen_y + z - n), n)
                       = [s EXCEPT !.buff = CopyLines(s, Ascending(s.screen_y + t, s.screen_y + z - n), n).buff]
                  /\ KeepsText(s, b)
                  /\ CellsOf(s, b) = UpBy(CellsOf(s, s.buff), t, z, n)
<1> DEFINE g == CellsOf(s, s.buff)
           y == s.screen_y
           a == CopyLines(s, Ascending(y + t, y + z - n), n)
           d == Cleared(a.buff, s.line[y + z - n + 1], e)
<1>1. y \in Nat /\ s \in State /\ size_y \in Nat
  BY GoodFacts, Sizes
<1>2. y + z - n = y + (z - n) /\ y + z - n + 1 = y + (z - n + 1)
  BY <1>1
<1>3. PICK b : /\ CopyLines(s, Ascending(y + t, y + (z - n)), n) = [s EXCEPT !.buff = b]
               /\ KeepsText(s, b)
               /\ \A r \in 0..(size_y - 1) : CellsOf(s, b)[r] = g[IF r \in t..(z - n) THEN r + n ELSE r]
  <2>0. SUFFICES ShiftedBy(s, CopyLines(s, Ascending(y + t, y + (z - n)), n), t, z - n, n)
    BY DEF ShiftedBy
  <2>1. z - n \in Int /\ t <= (z - n) + 1 /\ (z - n) + n < size_y
    BY <1>1
  <2> QED BY <2>1, RowsUp
<1>4. a = [s EXCEPT !.buff = b] /\ a.buff = b
  <2>1. a = [s EXCEPT !.buff = b]
    BY <1>2, <1>3
  <2> QED BY <2>1, <1>1 DEF State
<1> HIDE DEF a, g, y
<1>5. d = Cleared(b, s.line[s.screen_y + (z - n + 1)], e)
  BY <1>2, <1>4 DEF y
<1>6. /\ KeepsText(s, d)
      /\ \A r \in 0..(size_y - 1) :
           CellsOf(s, d)[r] = IF r \in (z - n + 1)..((z - n + 1) + n - 1) THEN BlankRow ELSE CellsOf(s, b)[r]
  <2>1. z - n + 1 \in 0..(size_y - 1) /\ (z - n + 1) + n <= size_y
    BY <1>1
  <2> HIDE DEF d
  <2> QED BY <2>1, <1>3, <1>5, RowsCleared
<1> HIDE DEF d
<1>7. ASSUME NEW r \in 0..(size_y - 1) PROVE CellsOf(s, d)[r] = UpBy(g, t, z, n)[r]
  <2>1. /\ r \in (z - n + 1)..((z - n + 1) + n - 1) <=> r \in t..z /\ ~(r + n <= z)
        /\ r \in t..(z - n) <=> r \in t..z /\ r + n <= z
    BY <1>1
  <2>2. CellsOf(s, b)[r] = g[IF r \in t..(z - n) THEN r + n ELSE r]
    BY <1>3
  <2> QED BY ONLY <2>1, <2>2, <1>6, r \in 0..(size_y - 1) DEF UpBy
<1>8. CellsOf(s, d) = UpBy(g, t, z, n)
  <2>1. /\ CellsOf(s, d) = [r \in 0..(size_y - 1) |-> CellsOf(s, d)[r]]
        /\ UpBy(g, t, z, n) = [r \in 0..(size_y - 1) |-> UpBy(g, t, z, n)[r]]
    BY DEF CellsOf, UpBy
  <2> QED BY <1>7, <2>1
<1> QED BY <1>4, <1>6, <1>8 DEF a, d, g, y

\* ScrollUp the other way: rows t to z move down by n.
LEMMA ScrollDown ==
    ASSUME NEW s, Good(s), s.bAltScreen, NEW t \in Nat, NEW z \in 0..(size_y - 1), t <= z,
           NEW n \in Nat, n >= 1, n <= z - t + 1, NEW e, e = n * size_x
    PROVE  \E b : /\ b = Cleared(CopyLines(s, Descending(s.screen_y + z, s.screen_y + t + n), -n).buff,
                                 s.line[s.screen_y + t], e)
                  /\ CopyLines(s, Descending(s.screen_y + z, s.screen_y + t + n), -n)
                       = [s EXCEPT !.buff = CopyLines(s, Descending(s.screen_y + z, s.screen_y + t + n), -n).buff]
                  /\ KeepsText(s, b)
                  /\ CellsOf(s, b) = DownBy(CellsOf(s, s.buff), t, z, n)
<1> DEFINE g == CellsOf(s, s.buff)
           y == s.screen_y
           a == CopyLines(s, Descending(y + z, y + t + n), -n)
           d == Cleared(a.buff, s.line[y + t], e)
<1>1. y \in Nat /\ s \in State /\ size_y \in Nat
  BY GoodFacts, Sizes
<1>2. y + t + n = y + (t + n)
  BY <1>1
<1>3. PICK b : /\ CopyLines(s, Descending(y + z, y + (t + n)), -n) = [s EXCEPT !.buff = b]
               /\ KeepsText(s, b)
               /\ \A r \in 0..(size_y - 1) : CellsOf(s, b)[r] = g[IF r \in (t + n)..z THEN r + (-n) ELSE r]
  <2>0. SUFFICES ShiftedBy(s, CopyLines(s, Descending(y + z, y + (t + n)), -n), t + n, z, -n)
    BY DEF ShiftedBy
  <2>1. t + n \in Int /\ t + n <= z + 1 /\ n <= t + n /\ z \in Int /\ z < size_y
    BY <1>1
  <2> QED BY <2>1, RowsDown
<1>4. a = [s EXCEPT !.buff = b] /\ a.buff = b
  <2>1. a = [s EXCEPT !.buff = b]
    BY <1>2, <1>3
  <2> QED BY <2>1, <1>1 DEF State
<1> HIDE DEF a, g, y
<1>5. d = Cleared(b, s.line[s.screen_y + t], e)
  BY <1>4 DEF y
<1>6. /\ KeepsText(s, d)
      /\ \A r \in 0..(size_y - 1) :
           CellsOf(s, d)[r] = IF r \in t..(t + n - 1) THEN BlankRow ELSE CellsOf(s, b)[r]
  <2>1. t \in 0..(size_y - 1) /\ t + n <= size_y
    BY <1>1
  <2> HIDE DEF d
  <2> QED BY <2>1, <1>3, <1>5, RowsCleared
<1> HIDE DEF d
<1>7. ASSUME NEW r \in 0..(size_y - 1) PROVE CellsOf(s, d)[r] = DownBy(g, t, z, n)[r]
  <2>1. /\ r \in t..(t + n - 1) <=> r \in t..z /\ ~(r - n >= t)
        /\ r \in (t + n)..z <=> r \in t..z /\ r - n >= t
    BY <1>1
  <2>2. CellsOf(s, b)[r] = g[IF r \in (t + n)..z THEN r + (-n) ELSE r] /\ r + (-n) = r - n
    BY <1>3
  <2> QED BY ONLY <2>1, <2>2, <1>6, r \in 0..(size_y - 1) DEF DownBy
<1>8. CellsOf(s, d) = DownBy(g, t, z, n)
  <2>1. /\ CellsOf(s, d) = [r \in 0..(size_y - 1) |-> CellsOf(s, d)[r]]
        /\ DownBy(g, t, z, n) = [r \in 0..(size_y - 1) |-> DownBy(g, t, z, n)[r]]
    BY DEF CellsOf, DownBy
  <2> QED BY <1>7, <2>1
<1> QED BY <1>4, <1>6, <1>8 DEF a, d, g, y

----------------------------------------------------------------------------
(* Sequences on the alternate screen: inserting, deleting and scrolling lines *)

LEMMA BuffDraws ==
    ASSUME NEW s, Good(s), NEW b, KeepsText(s, b)
    PROVE  Draws(s, [s EXCEPT !.buff = b], s.cursor_y, Col(s), CellsOf(s, b))
<1>1. b \in [Bytes -> Char]
  BY DEF KeepsText
<1>2. [s EXCEPT !.buff = b] = Drawn(s, b, s.cursor_y, Col(s))
  BY <1>1, DrawnHere
<1> QED BY <1>2 DEF Draws

\* Moving the cursor draws nothing.
LEMMA AtDraws ==
    ASSUME NEW s, Good(s), NEW y, NEW x
    PROVE  Draws(s, At(s, y, x), y, x, CellsOf(s, s.buff))
<1>1. s \in State
  BY GoodFacts
<1>2. At(s, y, x) = Drawn(s, s.buff, y, x)
  BY <1>1 DEF At, Drawn, State
<1> QED BY <1>2, SameText DEF Draws

\* Clearing after the cursor has moved, as IL and DL do.
LEMMA BuffThenAt ==
    ASSUME NEW s \in State, NEW b, NEW y, NEW o, NEW n
    PROVE  buff_clear(At([s EXCEPT !.buff = b], y, 0), o, n) = Drawn(s, Cleared(b, o, n), y, 0)
<1>1. [s EXCEPT !.buff = b].line = s.line
  BY DEF State
<1>2. At([s EXCEPT !.buff = b], y, 0) = [[s EXCEPT !.buff = b] EXCEPT !.cursor_y = y, !.cursor_x = s.line[y] + 0]
  BY <1>1 DEF At
<1> DEFINE a == At([s EXCEPT !.buff = b], y, 0)
<1>3. a.buff = b
  BY <1>2 DEF State
<1>4. buff_clear(a, o, n) = [a EXCEPT !.buff = Cleared(b, o, n)]
  BY <1>3, ClearIs
<1>5. [a EXCEPT !.buff = Cleared(b, o, n)]
        = [[[s EXCEPT !.buff = b] EXCEPT !.cursor_y = y, !.cursor_x = s.line[y] + 0] EXCEPT !.buff = Cleared(b, o, n)]
  BY <1>2
<1> HIDE DEF a
<1>6. [a EXCEPT !.buff = Cleared(b, o, n)] = Drawn(s, Cleared(b, o, n), y, 0)
  BY ONLY <1>5, s \in State DEF Drawn, State
<1> QED BY <1>4, <1>6 DEF a

\* The margins and the cursor's row on the alternate screen.
LEMMA RowFacts ==
    ASSUME NEW s, Good(s), s.bAltScreen
    PROVE  /\ s.roll_top \in Nat /\ s.roll_bot \in Nat /\ s.roll_top < s.roll_bot /\ s.roll_bot < size_y
           /\ Top(s) = s.screen_y + s.roll_top /\ Bot(s) = s.screen_y + s.roll_bot
           /\ Row(s) \in 0..(size_y - 1) /\ s.cursor_y = s.screen_y + Row(s) /\ s.screen_y \in Nat
           /\ End(s) = s.line[s.cursor_y] + size_x
<1>1. s.screen_y \in Nat /\ s.cursor_y \in Nat /\ s \in State
  BY GoodFacts
<1>2. OfScreen(s) /\ OnScreen(s)
  BY DEF Good
<1>3. s.roll_top \in Nat /\ s.roll_bot \in Nat /\ s.roll_top < s.roll_bot /\ s.roll_bot < size_y
  BY <1>1, <1>2 DEF OfScreen, State
<1>4. Row(s) \in 0..(size_y - 1) /\ s.cursor_y = s.screen_y + Row(s)
  <2>1. Row(s) \in 0..(size_y - 1)
    BY <1>2 DEF OnScreen
  <2> QED BY <1>1, <2>1 DEF Row
<1>5. End(s) = s.line[s.cursor_y] + size_x
  <2>1. s.line[s.screen_y + Row(s) + 1] = s.line[s.screen_y + Row(s)] + size_x
    BY <1>2, <1>4 DEF OnScreen
  <2> QED BY <2>1, <1>4 DEF End
<1> QED BY <1>1, <1>3, <1>4, <1>5 DEF Top, Bot

\* The first column and the cursor's own are places for the cursor.
LEMMA FirstColumn ==
    ASSUME NEW s, Good(s)
    PROVE  CursorAt(s, s.cursor_y, 0) /\ CursorAt(s, s.cursor_y, Col(s))
<1>1. CursorAt(s, s.cursor_y, Col(s))
  BY GoodFacts, DrawnHere
<1> QED BY <1>1, Sizes DEF CursorAt

\* IL
LEMMA InsertLinesDraws ==
    ASSUME NEW s, Good(s), s.bAltScreen, s.cursor_y \in Top(s)..Bot(s), NEW n0 \in Counts
    PROVE  Draws(s, IL(s, n0), s.cursor_y, 0, DownBy(CellsOf(s, s.buff), Row(s), s.roll_bot, n0))
<1> DEFINE n == Min({n0, Bot(s) - s.cursor_y + 1})
           t == Row(s)
           z == s.roll_bot
           g == CellsOf(s, s.buff)
<1>1. /\ z \in Nat /\ z < size_y /\ t \in 0..(size_y - 1) /\ s.screen_y \in Nat /\ s.cursor_y = s.screen_y + t
      /\ Bot(s) = s.screen_y + z /\ s \in State /\ n0 \in Nat /\ n0 >= 1 /\ s.roll_top \in Nat
      /\ Top(s) = s.screen_y + s.roll_top
  BY RowFacts, GoodFacts, ScreenAssumption
<1>2. t <= z
  BY ONLY <1>1, s.cursor_y \in Top(s)..Bot(s)
<1>3. Bot(s) - s.cursor_y + 1 = z - t + 1
  BY <1>1
<1>4. n \in Nat /\ n >= 1 /\ n <= z - t + 1 /\ n = IF n0 <= z - t + 1 THEN n0 ELSE z - t + 1
  <2>1. n = IF n0 <= z - t + 1 THEN n0 ELSE z - t + 1
    BY <1>1, <1>3, MinOfTwo
  <2> HIDE DEF n
  <2> QED BY <2>1, <1>1, <1>2
<1> HIDE DEF n, t, z
<1>5. DownBy(g, t, z, n) = DownBy(g, t, z, n0)
  <2>1. ASSUME NEW r \in 0..(size_y - 1) PROVE DownBy(g, t, z, n)[r] = DownBy(g, t, z, n0)[r]
    <3>1. CASE r \notin t..z
      BY <3>1 DEF DownBy
    <3>2. CASE r \in t..z
      <4>1. n = n0 \/ (~(r - n >= t) /\ ~(r - n0 >= t))
        BY <1>1, <1>4, <3>2
      <4> QED BY <4>1, <3>2 DEF DownBy
    <3> QED BY <3>1, <3>2
  <2>2. \A m : DownBy(g, t, z, m) = [r \in 0..(size_y - 1) |-> DownBy(g, t, z, m)[r]]
    BY DEF DownBy
  <2> QED BY <2>1, <2>2
<1>6. s.cursor_y + n = s.screen_y + t + n
  BY <1>1
<1> DEFINE a == CopyLines(s, Descending(s.screen_y + z, s.screen_y + t + n), -n)
<1>7. size_x * n = n * size_x
  BY <1>4, Sizes
<1>8. PICK b : /\ b = Cleared(a.buff, s.line[s.screen_y + t], size_x * n)
               /\ a = [s EXCEPT !.buff = a.buff]
               /\ KeepsText(s, b)
               /\ CellsOf(s, b) = DownBy(g, t, z, n)
  <2>1. t \in Nat /\ z \in 0..(size_y - 1)
    BY <1>1, Sizes
  <2> QED BY <2>1, <1>2, <1>4, <1>7, ScrollDown
<1>9. IL(s, n0) = buff_clear(At(a, s.cursor_y, 0), s.line[s.cursor_y], size_x * n)
  BY <1>1, <1>6 DEF IL, n
<1> HIDE DEF a, g
<1>10. IL(s, n0) = Drawn(s, b, s.cursor_y, 0)
  BY <1>1, <1>8, <1>9, BuffThenAt
<1> QED BY <1>5, <1>8, <1>10 DEF Draws, g, t, z

\* DL
LEMMA DeleteLinesDraws ==
    ASSUME NEW s, Good(s), s.bAltScreen, s.cursor_y \in Top(s)..Bot(s), NEW n0 \in Counts
    PROVE  Draws(s, DL(s, n0), s.cursor_y, 0, UpBy(CellsOf(s, s.buff), Row(s), s.roll_bot, n0))
<1> DEFINE n == Min({n0, Bot(s) - s.cursor_y + 1})
           t == Row(s)
           z == s.roll_bot
           g == CellsOf(s, s.buff)
<1>1. /\ z \in Nat /\ z < size_y /\ t \in 0..(size_y - 1) /\ s.screen_y \in Nat /\ s.cursor_y = s.screen_y + t
      /\ Bot(s) = s.screen_y + z /\ s \in State /\ n0 \in Nat /\ n0 >= 1 /\ s.roll_top \in Nat
      /\ Top(s) = s.screen_y + s.roll_top
  BY RowFacts, GoodFacts, ScreenAssumption
<1>2. t <= z
  BY ONLY <1>1, s.cursor_y \in Top(s)..Bot(s)
<1>3. Bot(s) - s.cursor_y + 1 = z - t + 1
  BY <1>1
<1>4. n \in Nat /\ n >= 1 /\ n <= z - t + 1 /\ n = IF n0 <= z - t + 1 THEN n0 ELSE z - t + 1
  <2>1. n = IF n0 <= z - t + 1 THEN n0 ELSE z - t + 1
    BY <1>1, <1>3, MinOfTwo
  <2> HIDE DEF n
  <2> QED BY <2>1, <1>1, <1>2
<1> HIDE DEF n, t, z
<1>5. UpBy(g, t, z, n) = UpBy(g, t, z, n0)
  <2>1. ASSUME NEW r \in 0..(size_y - 1) PROVE UpBy(g, t, z, n)[r] = UpBy(g, t, z, n0)[r]
    <3>1. CASE r \notin t..z
      BY <3>1 DEF UpBy
    <3>2. CASE r \in t..z
      <4>1. n = n0 \/ (~(r + n <= z) /\ ~(r + n0 <= z))
        BY <1>1, <1>4, <3>2
      <4> QED BY <4>1, <3>2 DEF UpBy
    <3> QED BY <3>1, <3>2
  <2>2. \A m : UpBy(g, t, z, m) = [r \in 0..(size_y - 1) |-> UpBy(g, t, z, m)[r]]
    BY DEF UpBy
  <2> QED BY <2>1, <2>2
<1>6. Bot(s) - n = s.screen_y + z - n /\ Bot(s) - n + 1 = s.screen_y + z - n + 1
  BY <1>1, <1>4
<1> DEFINE a == CopyLines(s, Ascending(s.screen_y + t, s.screen_y + z - n), n)
<1>7. size_x * n = n * size_x
  BY <1>4, Sizes
<1>8. PICK b : /\ b = Cleared(a.buff, s.line[s.screen_y + z - n + 1], size_x * n)
               /\ a = [s EXCEPT !.buff = a.buff]
               /\ KeepsText(s, b)
               /\ CellsOf(s, b) = UpBy(g, t, z, n)
  <2>1. t \in Nat /\ z \in 0..(size_y - 1)
    BY <1>1, Sizes
  <2> QED BY <2>1, <1>2, <1>4, <1>7, ScrollUp
<1>9. DL(s, n0) = buff_clear(At(a, s.cursor_y, 0), s.line[s.screen_y + z - n + 1], size_x * n)
  BY <1>1, <1>6 DEF DL, n
<1> HIDE DEF a, g
<1>10. DL(s, n0) = Drawn(s, b, s.cursor_y, 0)
  BY <1>1, <1>8, <1>9, BuffThenAt
<1> QED BY <1>5, <1>8, <1>10 DEF Draws, g, t, z

\* SU and SD by no more rows than there are between the margins.
LEMMA ScrollRowsDraws ==
    ASSUME NEW s, Good(s), s.bAltScreen, NEW n \in Nat, n >= 1, n <= s.roll_bot - s.roll_top + 1
    PROVE  /\ Draws(s, SU(s, n), s.cursor_y, Col(s), UpBy(CellsOf(s, s.buff), s.roll_top, s.roll_bot, n))
           /\ Draws(s, SD(s, n), s.cursor_y, Col(s), DownBy(CellsOf(s, s.buff), s.roll_top, s.roll_bot, n))
<1> DEFINE t == s.roll_top
           z == s.roll_bot
           y == s.screen_y
           e == n * size_x
           u == CopyLines(s, Ascending(y + t, y + z - n), n)
           d == CopyLines(s, Descending(y + z, y + t + n), -n)
<1>1. /\ t \in Nat /\ z \in Nat /\ t < z /\ z < size_y /\ y \in Nat
      /\ Bot(s) = y + z /\ Top(s) = y + t /\ s \in State
  BY RowFacts, GoodFacts
<1>2. t <= z /\ z \in 0..(size_y - 1)
  BY <1>1, Sizes
<1>3. PICK b : /\ b = Cleared(u.buff, s.line[y + z - n + 1], e)
               /\ u = [s EXCEPT !.buff = u.buff]
               /\ KeepsText(s, b)
               /\ CellsOf(s, b) = UpBy(CellsOf(s, s.buff), t, z, n)
  <2> HIDE DEF t, z, e
  <2> QED BY <1>1, <1>2, ScrollUp DEF t, z, e
<1>4. PICK c : /\ c = Cleared(d.buff, s.line[y + t], e)
               /\ d = [s EXCEPT !.buff = d.buff]
               /\ KeepsText(s, c)
               /\ CellsOf(s, c) = DownBy(CellsOf(s, s.buff), t, z, n)
  <2> HIDE DEF t, z, e
  <2> QED BY <1>1, <1>2, ScrollDown DEF t, z, e
<1>5. Bot(s) - n = y + z - n /\ Bot(s) - n + 1 = y + z - n + 1 /\ Top(s) + n = y + t + n
  BY <1>1
<1>6. SU(s, n) = buff_clear(u, s.line[y + z - n + 1], e) /\ SD(s, n) = buff_clear(d, s.line[y + t], e)
  BY <1>1, <1>5 DEF SU, SD
<1> HIDE DEF u, d, e
<1>7. SU(s, n) = [u EXCEPT !.buff = b] /\ SD(s, n) = [d EXCEPT !.buff = c]
  BY <1>3, <1>4, <1>6, ClearIs
<1>8. [u EXCEPT !.buff = b] = [s EXCEPT !.buff = b] /\ [d EXCEPT !.buff = c] = [s EXCEPT !.buff = c]
  <2>1. [[s EXCEPT !.buff = u.buff] EXCEPT !.buff = b] = [s EXCEPT !.buff = b]
    BY <1>1 DEF State
  <2>2. [[s EXCEPT !.buff = d.buff] EXCEPT !.buff = c] = [s EXCEPT !.buff = c]
    BY <1>1 DEF State
  <2> QED BY <2>1, <2>2, <1>3, <1>4
<1> QED BY <1>3, <1>4, <1>7, <1>8, BuffDraws

----------------------------------------------------------------------------
(* What such a sequence keeps and shows *)

LEMMA DrawsGood ==
    ASSUME NEW s, Good(s), NEW t, NEW y, NEW x, NEW g, Draws(s, t, y, x, g), CursorAt(s, y, x)
    PROVE  Good(t) /\ Kept(s, t) /\ SameScreen(s, t)
<1>1. PICK b : t = Drawn(s, b, y, x) /\ KeepsText(s, b)
  BY DEF Draws
<1> QED BY <1>1, DrawnGood

\* t shows the cells g and the cursor in row r, column x; margins and the rest
\* are those of s.
Shows(s, t, r, x, g) ==
    /\ t.bAltScreen
    /\ CellsOf(t, t.buff) = g /\ Row(t) = r /\ Col(t) = x
    /\ t.roll_top = s.roll_top /\ t.roll_bot = s.roll_bot

\* What was drawn in the buffer is what the window shows.
LEMMA DrawsShows ==
    ASSUME NEW s, Good(s), s.bAltScreen, NEW t, NEW y, NEW x, NEW g,
           Draws(s, t, y, x, g), CursorAt(s, y, x)
    PROVE  Shows(s, t, y - s.screen_y, x, g)
<1>1. PICK b : t = Drawn(s, b, y, x) /\ KeepsText(s, b) /\ CellsOf(s, b) = g
  BY DEF Draws
<1>2. b \in [Bytes -> Char]
  BY <1>1 DEF KeepsText
<1> DEFINE u == Drawn(s, b, y, x)
<1>0. /\ y \in Lines /\ y \in Nat /\ s.line[y] \in Nat /\ x \in Nat
      /\ u.buff = b /\ u.line = s.line /\ u.cursor_x = s.line[y] + x /\ u.cursor_y = y
      /\ u.screen_y = s.screen_y /\ u.roll_top = s.roll_top /\ u.roll_bot = s.roll_bot
      /\ u.bAltScreen = s.bAltScreen
  BY ONLY <1>2, Good(s), CursorAt(s, y, x), DrawnState
<1> HIDE DEF u
<1>3. /\ y \in Lines /\ y \in Nat /\ s.line[y] \in Nat /\ x \in Nat
      /\ t.buff = b /\ t.line = s.line /\ t.cursor_x = s.line[y] + x /\ t.cursor_y = y
      /\ t.screen_y = s.screen_y /\ t.roll_top = s.roll_top /\ t.roll_bot = s.roll_bot
      /\ t.bAltScreen = s.bAltScreen
  BY <1>0, <1>1 DEF u
<1>4. CellsOf(t, t.buff) = CellsOf(s, b)
  BY ONLY <1>3 DEF CellsOf
<1>5. Row(t) = y - s.screen_y /\ Col(t) = x
  BY ONLY <1>3 DEF Row, Col
<1> QED BY <1>1, <1>3, <1>4, <1>5 DEF Shows

\* A row of the screen is a place for the cursor.
LEMMA OnRow ==
    ASSUME NEW s, Good(s), s.bAltScreen, NEW r \in 0..(size_y - 1), NEW x \in 0..size_x
    PROVE  CursorAt(s, s.screen_y + r, x)
<1>1. s.screen_y \in Nat
  BY GoodFacts
<1> QED BY <1>1, Sizes DEF CursorAt

\* check_cursor_y() keeps the cursor on the screen.
LEMMA CheckedRow ==
    ASSUME NEW s, Good(s), s.bAltScreen, NEW y \in Int, NEW x \in 0..size_x
    PROVE  CursorAt(s, check_cursor_y(s, y), x)
<1> DEFINE top == s.screen_y
           end == s.screen_y + size_y - 1
           shown == Min({Max({y, top}), end})
<1>1. /\ s.roll_top \in Nat /\ s.roll_bot \in Nat /\ s.roll_top < s.roll_bot /\ s.roll_bot < size_y
      /\ Top(s) = top + s.roll_top /\ Bot(s) = top + s.roll_bot /\ top \in Nat
  BY RowFacts
<1>2. shown \in top..end
  <2>1. Max({y, top}) = IF y >= top THEN y ELSE top
    BY <1>1, MaxOfTwo
  <2>2. Max({y, top}) \in Int /\ Max({y, top}) >= top
    BY <2>1, <1>1
  <2>3. shown = IF Max({y, top}) <= end THEN Max({y, top}) ELSE end
    <3>1. end \in Int
      BY <1>1, Sizes
    <3> HIDE DEF end
    <3> QED BY <2>2, <3>1, MinOfTwo
  <2> QED BY <2>2, <2>3, <1>1, Sizes
<1> HIDE DEF shown
<1>3. Min({Max({shown, Top(s)}), Bot(s)}) \in top..end
  <2>0. shown \in Int /\ Top(s) \in Int /\ Bot(s) \in Int
    BY <1>1, <1>2, Sizes
  <2>1. Max({shown, Top(s)}) = IF shown >= Top(s) THEN shown ELSE Top(s)
    BY <2>0, MaxOfTwo
  <2>2. Max({shown, Top(s)}) \in Int
    BY <2>0, <2>1
  <2>3. Min({Max({shown, Top(s)}), Bot(s)})
          = IF Max({shown, Top(s)}) <= Bot(s) THEN Max({shown, Top(s)}) ELSE Bot(s)
    BY <2>0, <2>2, MinOfTwo
  <2> QED BY <1>1, <1>2, <2>0, <2>1, <2>3, Sizes
<1>4. check_cursor_y(s, y) = IF s.bOriginMode THEN Min({Max({shown, Top(s)}), Bot(s)}) ELSE shown
  BY DEF check_cursor_y, shown
<1>5. check_cursor_y(s, y) \in top..end
  BY <1>2, <1>3, <1>4
<1> QED BY <1>5 DEF CursorAt

\* ESC D in the row of the bottom margin moves the rows between the margins up.
LEMMA IndexDraws ==
    ASSUME NEW s, Good(s), s.bAltScreen, s.cursor_y = Bot(s)
    PROVE  Draws(s, IND(s), s.cursor_y, Col(s), UpBy(CellsOf(s, s.buff), s.roll_top, s.roll_bot, 1))
<1> DEFINE t == s.roll_top
           z == s.roll_bot
           y == s.screen_y
           at(r) == s.line[y + r]
           b == Copied(s.buff, at(t), at(t + 1), (z - t) * size_x)
           d == Cleared(b, at(z), size_x)
<1>1. /\ t \in Nat /\ z \in Nat /\ t < z /\ z < size_y /\ y \in Nat
      /\ Bot(s) = y + z /\ Top(s) = y + t /\ s \in State
  BY RowFacts, GoodFacts
<1>2. t \in 0..(size_y - 1) /\ z \in 0..(size_y - 1) /\ t + 1 \in 0..(size_y - 1)
      /\ t + 1 \in 0..size_y /\ z + 1 \in 0..size_y /\ size_y \in Nat
  BY <1>1, Sizes
<1>3. \A r \in 0..(size_y - 1) : /\ at(r) \in Nat /\ s.line[s.screen_y] <= at(r)
                                 /\ \A c \in 0..(2 * size_x) : at(r) + c \in Bytes
  BY Place
<1>4. \A r \in 0..(size_y - 1) : at(r + 1) = at(r) + size_x
  <2> SUFFICES ASSUME NEW r \in 0..(size_y - 1) PROVE at(r + 1) = at(r) + size_x
    OBVIOUS
  <2>1. s.line[s.screen_y + r + 1] = s.line[s.screen_y + r] + size_x
    BY DEF Good, OnScreen
  <2>2. s.screen_y + r + 1 = y + (r + 1)
    BY <1>1
  <2> QED BY <2>1, <2>2
<1>5. s.buff \in [Bytes -> Char] /\ s.line \in [Lines -> Nat]
  BY GoodFacts
<1>6. /\ s.line[Top(s)] = at(t) /\ s.line[Top(s) + 1] = at(t + 1)
      /\ s.line[Bot(s)] = at(z) /\ s.line[Bot(s) + 1] = at(z + 1)
  <2>1. y + t + 1 = y + (t + 1) /\ y + z + 1 = y + (z + 1)
    BY <1>1
  <2> QED BY <1>1, <2>1
<1>7. at(z + 1) - at(t + 1) = (z - t) * size_x
  <2>1. /\ at(z + 1) = at(t + 1) + ((z + 1) - (t + 1)) * size_x
        /\ at(t + 1) \in Nat /\ at(z + 1) \in Nat
    BY <1>1, <1>2, RowsFollow
  <2>2. (z + 1) - (t + 1) = z - t
    BY <1>1
  <2>3. (z - t) * size_x \in Nat
    BY <1>1, Sizes
  <2> QED BY <2>1, <2>2, <2>3
<1>8. KeepsText(s, b) /\ \A r \in 0..(size_y - 1) :
        CellsOf(s, b)[r] = CellsOf(s, s.buff)[IF r \in t..(z - 1) THEN r + 1 ELSE r]
  <2> DEFINE e == (z - t) * size_x
  <2>0. e \in Nat
    BY <1>1, Sizes
  <2>1. ASSUME NEW r \in 0..(size_y - 1), NEW c \in 0..(size_x - 1)
        PROVE  b[at(r) + c] = s.buff[at(IF r \in t..(z - 1) THEN r + 1 ELSE r) + c]
    <3>1. at(r) + c \in Bytes
      BY <1>3, Sizes
    <3>2. PICK p \in Nat, q \in Nat : p = at(r) /\ q = at(t)
      BY <1>2, <1>3
    <3>3. b[at(r) + c] = IF p + c \in q..(q + e - 1) THEN s.buff[p + c - q + at(t + 1)] ELSE s.buff[p + c]
      BY <3>1, <3>2 DEF Copied
    <3>4. at(t + 1) = q + size_x
      BY <1>2, <1>4, <3>2
    <3>5. CASE r < t
      <4>1. p + size_x <= q
        BY <1>2, <3>5, <3>2, RowsFollow, Sizes
      <4>2. ~(p + c \in q..(q + e - 1)) /\ r \notin t..(z - 1)
        BY ONLY <4>1, <3>5, <1>1, r \in 0..(size_y - 1), <2>0, p \in Nat, q \in Nat, c \in 0..(size_x - 1), Sizes
      <4> QED BY ONLY <4>2, <3>2, <3>3
    <3>6. CASE r \in t..(z - 1)
      <4> DEFINE k == r - t
      <4>1. k \in Nat /\ k + 1 <= z - t
        BY <3>6, <1>1
      <4>2. p = q + k * size_x
        <5>1. CASE r = t
          BY <5>1, <3>2, Sizes
        <5>2. CASE t < r
          BY <5>2, <1>2, <3>2, RowsFollow, Sizes
        <5> QED BY <5>1, <5>2, <3>6, <1>1
      <4>3. (k + 1) * size_x <= e /\ (k + 1) * size_x = k * size_x + size_x /\ k * size_x \in Nat
        BY <4>1, <1>1, Sizes
      <4> HIDE DEF k
      <4>4. PICK m \in Nat : m = k * size_x
        BY <4>3
      <4>5. p + c \in q..(q + e - 1)
        BY ONLY <4>2, <4>3, <4>4, <2>0, p \in Nat, q \in Nat, c \in 0..(size_x - 1), Sizes
      <4>6. at(r + 1) = p + size_x
        BY <3>2, <1>4
      <4>7. p + c - q + (q + size_x) = p + size_x + c
        BY ONLY p \in Nat, q \in Nat, c \in 0..(size_x - 1), Sizes
      <4>8. b[at(r) + c] = s.buff[p + c - q + (q + size_x)]
        BY ONLY <3>3, <3>4, <4>5
      <4> QED BY ONLY <3>6, <4>6, <4>7, <4>8
    <3>7. CASE z <= r
      <4> DEFINE k == r - t
      <4>1. k \in Nat /\ z - t <= k
        BY <3>7, <1>1
      <4>2. p = q + k * size_x
        BY <3>7, <1>1, <1>2, <3>2, RowsFollow, Sizes
      <4>3. e <= k * size_x /\ k * size_x \in Nat
        BY <4>1, <1>1, Sizes
      <4> HIDE DEF k
      <4>4. PICK m \in Nat : m = k * size_x
        BY <4>3
      <4>5. ~(p + c \in q..(q + e - 1))
        BY ONLY <4>2, <4>3, <4>4, <2>0, p \in Nat, q \in Nat, c \in 0..(size_x - 1), Sizes
      <4>6. r \notin t..(z - 1)
        BY <3>7, <1>1
      <4> QED BY ONLY <4>5, <4>6, <3>2, <3>3
    <3> QED BY <3>5, <3>6, <3>7, <1>1
  <2>2. ASSUME NEW r \in 0..(size_y - 1)
        PROVE  CellsOf(s, b)[r] = CellsOf(s, s.buff)[IF r \in t..(z - 1) THEN r + 1 ELSE r]
    <3> DEFINE q == IF r \in t..(z - 1) THEN r + 1 ELSE r
    <3>1. q \in 0..(size_y - 1)
      BY <1>1, Sizes
    <3>2. CellsOf(s, b)[r] = [c \in 0..(size_x - 1) |-> b[at(r) + c]]
      BY DEF CellsOf
    <3>3. CellsOf(s, s.buff)[q] = [c \in 0..(size_x - 1) |-> s.buff[at(q) + c]]
      BY <3>1 DEF CellsOf
    <3> HIDE DEF at, b
    <3> QED BY <2>1, <3>2, <3>3
  <2>3. b \in [Bytes -> Char]
    <3> SUFFICES ASSUME NEW i \in Bytes, i \in at(t)..(at(t) + e - 1)
                 PROVE  i - at(t) + at(t + 1) \in Bytes
      BY <1>5 DEF Copied
    <3>1. PICK p \in Nat : p = at(t)
      BY <1>2, <1>3
    <3>2. i \in Nat /\ p <= i /\ i <= p + e - 1
      BY <3>1, BytesAre
    <3>3. i - at(t) + at(t + 1) = i + size_x
      BY <3>1, <3>2, <1>2, <1>4, Sizes
    <3>4. at(z) = p + e
      BY <1>1, <1>2, <3>1, RowsFollow
    <3>5. PICK h \in Int : Bytes = 0..h
      <4>1. (MaxLine + 1) * (size_x + 2) + (size_y + 1) * size_x \in Int
        BY Sizes
      <4> QED BY <4>1 DEF Bytes
    <3>6. at(z) + size_x \in Bytes
      BY <1>2, <1>3, Sizes
    <3>7. p + e + size_x <= h
      BY <3>4, <3>5, <3>6, <2>0, Sizes
    <3>8. i + size_x \in 0..h
      BY ONLY <3>2, <3>7, <2>0, p \in Nat, h \in Int, Sizes
    <3> QED BY <3>3, <3>5, <3>8
  <2>4. ASSUME NEW i \in Bytes, i < s.line[Base(s)] PROVE b[i] = s.buff[i]
    <3>1. i \in Nat /\ s.line[Base(s)] <= at(t) /\ at(t) \in Nat /\ s.line[Base(s)] \in Nat
      BY <1>2, <1>3, BytesAre, GoodFacts DEF Base
    <3>2. ~(i \in at(t)..(at(t) + e - 1))
      BY <3>1, <2>4, <2>0
    <3> QED BY <3>2 DEF Copied
  <2> QED BY <2>2, <2>3, <2>4 DEF KeepsText
<1>9. /\ KeepsText(s, d)
      /\ \A r \in 0..(size_y - 1) :
           CellsOf(s, d)[r] = IF r \in z..(z + 1 - 1) THEN BlankRow ELSE CellsOf(s, b)[r]
  <2>1. z + 1 <= size_y /\ size_x = 1 * size_x
    BY <1>1, Sizes
  <2> HIDE DEF b, z
  <2> QED BY <1>2, <1>8, <2>1, RowsCleared
<1>10. CellsOf(s, d) = UpBy(CellsOf(s, s.buff), t, z, 1)
  <2> HIDE DEF b, d
  <2>1. ASSUME NEW r \in 0..(size_y - 1) PROVE CellsOf(s, d)[r] = UpBy(CellsOf(s, s.buff), t, z, 1)[r]
    <3>1. /\ r \in z..(z + 1 - 1) <=> r \in t..z /\ ~(r + 1 <= z)
          /\ r \in t..(z - 1) <=> r \in t..z /\ r + 1 <= z
      BY <1>1
    <3> HIDE DEF t, z
    <3> QED BY <3>1, <1>8, <1>9 DEF UpBy
  <2>2. /\ CellsOf(s, d) = [r \in 0..(size_y - 1) |-> CellsOf(s, d)[r]]
        /\ UpBy(CellsOf(s, s.buff), t, z, 1) = [r \in 0..(size_y - 1) |-> UpBy(CellsOf(s, s.buff), t, z, 1)[r]]
    BY DEF CellsOf, UpBy
  <2> QED BY <2>1, <2>2
<1>11. IND(s) = Drawn(s, d, s.cursor_y, Col(s))
  <2> DEFINE len == s.line[Top(s) + 1] - s.line[Top(s)]
             a == [s EXCEPT !.buff = Copied(@, s.line[Top(s)], s.line[Top(s) + 1],
                                               s.line[Bot(s) + 1] - s.line[Top(s) + 1])]
             l == [i \in Lines |-> IF i \in (Top(s) + 1)..Bot(s) THEN s.line[i + 1] - len ELSE s.line[i]]
             e == [a EXCEPT !.line = l]
             c == buff_clear(e, e.line[Bot(s)], e.line[Bot(s) + 1] - e.line[Bot(s)])
  <2>1. IND(s) = At(c, c.cursor_y, Col(s))
    <3>1. ~(s.cursor_y < Bot(s))
      BY <1>1
    <3> QED BY <3>1 DEF IND
  <2>2. a = [s EXCEPT !.buff = b]
    BY <1>6, <1>7
  <2>3. l = s.line
    <3>1. ASSUME NEW i \in Lines PROVE l[i] = s.line[i]
      <4>1. CASE i \in (Top(s) + 1)..Bot(s)
        <5>0. Lines \subseteq Int
          BY DEF Lines
        <5>1. i - y \in 0..(size_y - 1) /\ y + (i - y) = i /\ y + (i - y + 1) = i + 1
          BY <4>1, <5>0, <1>1, Sizes
        <5>2. s.line[i + 1] = s.line[i] + size_x
          <6>1. at(i - y + 1) = at(i - y) + size_x
            BY <1>4, <5>1
          <6> QED BY <5>1, <6>1
        <5>3. len = size_x
          BY <1>2, <1>3, <1>4, <1>6, Sizes
        <5>4. s.line[i] \in Nat
          BY <1>5
        <5>5. l[i] = s.line[i + 1] - len
          BY <4>1
        <5> QED BY <5>2, <5>3, <5>4, <5>5, Sizes
      <4>2. CASE ~(i \in (Top(s) + 1)..Bot(s))
        BY <4>2
      <4> QED BY <4>1, <4>2
    <3>2. l = [i \in Lines |-> l[i]]
      OBVIOUS
    <3> HIDE DEF l
    <3> QED BY <3>1, <3>2, <1>5
  <2> HIDE DEF a, l
  <2>4. e = [s EXCEPT !.buff = b]
    BY <2>2, <2>3, <1>1 DEF State
  <2>5. e.line = s.line /\ e.buff = b /\ e.cursor_y = s.cursor_y
    BY <2>4, <1>1 DEF State
  <2> HIDE DEF e
  <2>6. e.line[Bot(s) + 1] - e.line[Bot(s)] = size_x
    BY <2>5, <1>6, <1>2, <1>3, <1>4, Sizes
  <2>7. c = [e EXCEPT !.buff = d]
    BY <2>5, <2>6, <1>6, ClearIs
  <2>8. c = [s EXCEPT !.buff = d]
    BY <2>4, <2>7, <1>1 DEF State
  <2> HIDE DEF c, d
  <2>9. c.line = s.line /\ c.cursor_y = s.cursor_y
    BY <2>8, <1>1 DEF State
  <2> QED BY <2>1, <2>8, <2>9, <1>1 DEF At, Drawn, State
<1> HIDE DEF d
<1> QED BY <1>9, <1>10, <1>11 DEF Draws

----------------------------------------------------------------------------
(* Sequences on the alternate screen: within a row *)

\* The row w with n cells more or less from column x on, or columns a to z blank.
RowInserted(w, x, n) ==
    [c \in 0..(size_x - 1) |-> IF c < x THEN w[c] ELSE IF c < x + n THEN Blank ELSE w[c - n]]
RowDeleted(w, x, n) ==
    [c \in 0..(size_x - 1) |-> IF c < x THEN w[c] ELSE IF c + n < size_x THEN w[c + n] ELSE Blank]
RowErased(w, a, z) == [c \in 0..(size_x - 1) |-> IF c \in a..z THEN Blank ELSE w[c]]

\* b is the buffer with the row r of the screen as w.
RowIs(s, b, r, w) ==
    /\ b \in [Bytes -> Char]
    /\ \A c \in 0..(size_x - 1) : b[s.line[s.screen_y + r] + c] = w[c]
    /\ \A i \in Bytes : i < s.line[s.screen_y + r] \/ i >= s.line[s.screen_y + r] + size_x => b[i] = s.buff[i]

IsRow(w) == w = [c \in 0..(size_x - 1) |-> w[c]]

\* When one row alone was edited, the others show what they did.
LEMMA RowEdited ==
    ASSUME NEW s, Good(s), s.bAltScreen, NEW b, NEW r \in 0..(size_y - 1),
           NEW w, IsRow(w), RowIs(s, b, r, w)
    PROVE  KeepsText(s, b) /\ CellsOf(s, b) = [CellsOf(s, s.buff) EXCEPT ![r] = w]
<1> DEFINE at(q) == s.line[s.screen_y + q]
           g == CellsOf(s, s.buff)
<1>1. \A q \in 0..(size_y - 1) : /\ at(q) \in Nat /\ s.line[s.screen_y] <= at(q)
                                 /\ \A c \in 0..(2 * size_x) : at(q) + c \in Bytes
  BY Place
<1>2. /\ b \in [Bytes -> Char]
      /\ \A c \in 0..(size_x - 1) : b[at(r) + c] = w[c]
      /\ \A i \in Bytes : i < at(r) \/ i >= at(r) + size_x => b[i] = s.buff[i]
  BY DEF RowIs
<1>3. KeepsText(s, b)
  <2>1. s.line[Base(s)] \in Nat /\ s.line[Base(s)] <= at(r)
    BY <1>1, GoodFacts DEF Base
  <2>2. ASSUME NEW i \in Bytes, i < s.line[Base(s)] PROVE b[i] = s.buff[i]
    <3>1. i < at(r)
      BY <1>1, <2>1, <2>2, BytesAre
    <3> QED BY <3>1, <1>2
  <2> QED BY <1>2, <2>2 DEF KeepsText
<1>4. ASSUME NEW q \in 0..(size_y - 1), q # r PROVE CellsOf(s, b)[q] = g[q]
  <2>1. ASSUME NEW c \in 0..(size_x - 1) PROVE b[at(q) + c] = s.buff[at(q) + c]
    <3>1. at(q) + c \in Bytes
      BY <1>1, Sizes
    <3>2. at(q) + size_x <= at(r) \/ at(r) + size_x <= at(q)
      <4>1. q \in 0..size_y /\ r \in 0..size_y /\ (q < r \/ r < q)
        BY <1>4, Sizes
      <4> QED BY <4>1, RowsFollow
    <3>3. at(q) + c < at(r) \/ at(q) + c >= at(r) + size_x
      <4> HIDE DEF at
      <4>1. at(q) \in Nat /\ at(r) \in Nat
        BY <1>1
      <4> QED BY <4>1, <3>2, Sizes
    <3> QED BY <1>2, <3>1, <3>3
  <2> QED BY <2>1 DEF CellsOf
<1>5. CellsOf(s, b)[r] = w
  <2>1. CellsOf(s, b)[r] = [c \in 0..(size_x - 1) |-> b[at(r) + c]]
    BY DEF CellsOf
  <2>2. w = [c \in 0..(size_x - 1) |-> w[c]]
    BY DEF IsRow
  <2> HIDE DEF at
  <2> QED BY <1>2, <2>1, <2>2
<1>6. /\ CellsOf(s, b) = [q \in 0..(size_y - 1) |-> CellsOf(s, b)[q]]
      /\ g = [q \in 0..(size_y - 1) |-> g[q]]
  BY DEF CellsOf
<1> HIDE DEF g
<1> QED BY <1>3, <1>4, <1>5, <1>6 DEF g

\* The bytes of the cursor's row.
LEMMA CursorRow ==
    ASSUME NEW s, Good(s), s.bAltScreen
    PROVE  /\ s.line[s.cursor_y] = s.line[s.screen_y + Row(s)] /\ Row(s) \in 0..(size_y - 1)
           /\ s.line[s.cursor_y] \in Nat /\ End(s) = s.line[s.cursor_y] + size_x
           /\ s.cursor_x = s.line[s.cursor_y] + Col(s) /\ Col(s) \in 0..size_x
           /\ \A i \in s.line[s.cursor_y]..(s.line[s.cursor_y] + 2 * size_x) : i \in Bytes
           /\ CellsOf(s, s.buff)[Row(s)] = [c \in 0..(size_x - 1) |-> s.buff[s.line[s.cursor_y] + c]]
           /\ s.cursor_y - s.screen_y = Row(s)
<1>1. Row(s) \in 0..(size_y - 1) /\ s.cursor_y = s.screen_y + Row(s) /\ End(s) = s.line[s.cursor_y] + size_x
  BY RowFacts
<1>2. \A c \in 0..(2 * size_x) : s.line[s.screen_y + Row(s)] + c \in Bytes
  BY <1>1, Place
<1>3. s.line[s.cursor_y] \in Nat /\ s.cursor_x = s.line[s.cursor_y] + Col(s) /\ Col(s) \in 0..size_x
  BY GoodFacts
<1>4. ASSUME NEW i \in s.line[s.cursor_y]..(s.line[s.cursor_y] + 2 * size_x) PROVE i \in Bytes
  <2>1. PICK p \in Nat : p = s.line[s.cursor_y]
    BY <1>3
  <2>2. i \in p..(p + 2 * size_x)
    BY <2>1
  <2>3. i - p \in 0..(2 * size_x) /\ p + (i - p) = i
    BY ONLY <2>2, p \in Nat, Sizes
  <2>4. s.line[s.screen_y + Row(s)] = p
    BY <1>1, <2>1
  <2> QED BY <1>2, <2>3, <2>4
<1>5. CellsOf(s, s.buff)[Row(s)] = [c \in 0..(size_x - 1) |-> s.buff[s.line[s.cursor_y] + c]]
  BY <1>1 DEF CellsOf
<1> QED BY <1>1, <1>3, <1>4, <1>5 DEF Row

CellSet(g, r, x, ch) == [g EXCEPT ![r][x] = ch]

\* A character written at column x of row r.
LEMMA CellWritten ==
    ASSUME NEW s, Good(s), s.bAltScreen, NEW b, KeepsText(s, b), NEW r \in 0..(size_y - 1),
           NEW x \in 0..(size_x - 1), NEW ch \in Char
    PROVE  LET d == [b EXCEPT ![s.line[s.screen_y + r] + x] = ch]
           IN  KeepsText(s, d) /\ CellsOf(s, d) = CellSet(CellsOf(s, b), r, x, ch)
<1> DEFINE at(q) == s.line[s.screen_y + q]
           p == at(r) + x
           d == [b EXCEPT ![p] = ch]
           g == CellsOf(s, b)
<1>1. \A q \in 0..(size_y - 1) : /\ at(q) \in Nat /\ s.line[s.screen_y] <= at(q)
                                 /\ \A c \in 0..(2 * size_x) : at(q) + c \in Bytes
  BY Place
<1>2. p \in Bytes /\ b \in [Bytes -> Char]
  BY <1>1, Sizes DEF KeepsText
<1>3. KeepsText(s, d)
  <2>1. s.line[Base(s)] \in Nat /\ s.line[Base(s)] <= at(r) /\ at(r) \in Nat
    BY <1>1, GoodFacts DEF Base
  <2>2. ASSUME NEW i \in Bytes, i < s.line[Base(s)] PROVE d[i] = s.buff[i]
    <3>1. i # p
      BY <2>1, <2>2, BytesAre
    <3> HIDE DEF p
    <3>2. d[i] = b[i]
      BY <3>1, <1>2
    <3> QED BY <3>2, <2>2 DEF KeepsText
  <2>3. d \in [Bytes -> Char]
    BY <1>2
  <2> HIDE DEF d
  <2> QED BY <2>2, <2>3 DEF KeepsText
<1>4. ASSUME NEW q \in 0..(size_y - 1), NEW c \in 0..(size_x - 1)
      PROVE  d[at(q) + c] = IF q = r /\ c = x THEN ch ELSE b[at(q) + c]
  <2>1. at(q) + c \in Bytes
    BY <1>1, Sizes
  <2>2. PICK m \in Nat, n \in Nat : m = at(q) /\ n = at(r)
    BY <1>1
  <2>3. m + c = n + x <=> q = r /\ c = x
    <3>1. CASE q = r
      <4>1. m = n
        BY <3>1, <2>2
      <4> QED BY ONLY <3>1, <4>1, m \in Nat, n \in Nat, c \in 0..(size_x - 1), x \in 0..(size_x - 1)
    <3>2. CASE q < r
      <4>1. m + size_x <= n
        BY <3>2, <2>2, RowsFollow, Sizes
      <4> QED BY ONLY <3>2, <4>1, m \in Nat, n \in Nat, c \in 0..(size_x - 1),
                 x \in 0..(size_x - 1), q \in 0..(size_y - 1), r \in 0..(size_y - 1), Sizes
    <3>3. CASE r < q
      <4>1. n + size_x <= m
        BY <3>3, <2>2, RowsFollow, Sizes
      <4> QED BY ONLY <3>3, <4>1, m \in Nat, n \in Nat, c \in 0..(size_x - 1),
                 x \in 0..(size_x - 1), q \in 0..(size_y - 1), r \in 0..(size_y - 1), Sizes
    <3> QED BY <3>1, <3>2, <3>3
  <2>4. d[m + c] = IF m + c = n + x THEN ch ELSE b[m + c]
    BY <1>2, <2>1, <2>2
  <2> HIDE DEF d
  <2> QED BY ONLY <2>2, <2>3, <2>4
<1> HIDE DEF d, p
<1>5. ASSUME NEW q \in 0..(size_y - 1) PROVE CellsOf(s, d)[q] = [g EXCEPT ![r][x] = ch][q]
  <2>1. CellsOf(s, d)[q] = [c \in 0..(size_x - 1) |-> d[at(q) + c]]
    BY DEF CellsOf
  <2>2. g[q] = [c \in 0..(size_x - 1) |-> b[at(q) + c]]
    BY DEF CellsOf
  <2>3. g = [z \in 0..(size_y - 1) |-> g[z]]
    BY DEF CellsOf
  <2> HIDE DEF g, at
  <2>4. CASE q = r
    <3>1. [g EXCEPT ![r][x] = ch][q] = [g[r] EXCEPT ![x] = ch]
      BY <2>3, <2>4
    <3>2. \A c \in 0..(size_x - 1) : d[at(q) + c] = IF c = x THEN ch ELSE b[at(q) + c]
      BY <1>4, <2>4
    <3>3. g[r] = [c \in 0..(size_x - 1) |-> b[at(q) + c]]
      BY <2>2, <2>4
    <3>4. [g[r] EXCEPT ![x] = ch] = [c \in 0..(size_x - 1) |-> IF c = x THEN ch ELSE b[at(q) + c]]
      BY <3>3
    <3> QED BY <2>1, <3>1, <3>2, <3>4
  <2>5. CASE q # r
    <3>1. [g EXCEPT ![r][x] = ch][q] = g[q]
      BY <2>3, <2>5
    <3> QED BY <1>4, <2>1, <2>2, <2>5, <3>1
  <2> QED BY <2>4, <2>5
<1>6. CellsOf(s, d) = [g EXCEPT ![r][x] = ch]
  <2>1. g = [z \in 0..(size_y - 1) |-> g[z]]
    BY DEF CellsOf
  <2>2. CellsOf(s, d) = [q \in 0..(size_y - 1) |-> CellsOf(s, d)[q]]
    BY DEF CellsOf
  <2> HIDE DEF g
  <2>3. [g EXCEPT ![r][x] = ch] = [q \in 0..(size_y - 1) |-> [g EXCEPT ![r][x] = ch][q]]
    BY <2>1
  <2> QED BY <1>5, <2>2, <2>3
<1> QED BY <1>3, <1>6 DEF d, p, CellSet

\* A step that only changes the row of the cursor.
LEMMA RowDraws ==
    ASSUME NEW s, Good(s), s.bAltScreen, NEW b, NEW w, IsRow(w),
           RowIs(s, b, Row(s), w)
    PROVE  /\ Draws(s, [s EXCEPT !.buff = b], s.cursor_y, Col(s), [CellsOf(s, s.buff) EXCEPT ![Row(s)] = w])
           /\ KeepsText(s, b)
<1>1. Row(s) \in 0..(size_y - 1)
  BY CursorRow
<1> DEFINE h == [CellsOf(s, s.buff) EXCEPT ![Row(s)] = w]
<1>2. KeepsText(s, b) /\ CellsOf(s, b) = h
  BY <1>1, RowEdited
<1> HIDE DEF h
<1>3. Draws(s, [s EXCEPT !.buff = b], s.cursor_y, Col(s), h)
  BY <1>2, BuffDraws
<1> QED BY <1>2, <1>3 DEF h

\* ESC [ n @ where n more cells fit into the row
LEMMA SpacesDraw ==
    ASSUME NEW s, Good(s), s.bAltScreen, NEW n \in Nat, n >= 1, Col(s) + n <= size_x
    PROVE  Draws(s, InsertSpaces(s, n), s.cursor_y, Col(s),
                 [CellsOf(s, s.buff) EXCEPT ![Row(s)] = RowInserted(@, Col(s), n)])
<1> DEFINE L == s.line[s.cursor_y]
           x == Col(s)
           q == End(s) - n - 1
           g == CellsOf(s, s.buff)
           w == RowInserted(g[Row(s)], x, n)
<1>1. /\ L = s.line[s.screen_y + Row(s)] /\ Row(s) \in 0..(size_y - 1) /\ L \in Nat
      /\ End(s) = L + size_x /\ s.cursor_x = L + x /\ x \in 0..size_x
      /\ \A i \in L..(L + 2 * size_x) : i \in Bytes
      /\ g[Row(s)] = [c \in 0..(size_x - 1) |-> s.buff[L + c]]
  BY CursorRow
<1>2. s \in State /\ s.buff \in [Bytes -> Char]
  BY GoodFacts
<1>9. L \in Nat /\ x \in 0..size_x /\ s.cursor_x = L + x /\ End(s) = L + size_x
  BY CursorRow
<1> HIDE DEF L, x, g
<1>3. PICK b \in [Bytes -> Char] :
        /\ MoveBytes(s, Descending(q, s.cursor_x), n) = [s EXCEPT !.buff = b]
        /\ \A i \in Bytes : b[i] = IF i \in (s.cursor_x + n)..(q + n) THEN s.buff[i - n] ELSE s.buff[i]
  <2>1. s.cursor_x \in Int /\ q \in Int
    BY ONLY <1>9, n \in Nat, Sizes
  <2>2. \A i \in s.cursor_x..q : i \in Bytes
    <3> SUFFICES ASSUME NEW i \in s.cursor_x..q PROVE i \in L..(L + 2 * size_x)
      BY <1>1
    <3> QED BY <1>9, Sizes
  <2> HIDE DEF q
  <2> QED BY <2>1, <2>2, <1>2, MovedOn
<1> DEFINE d == Cleared(b, s.cursor_x, n)
<1>4. InsertSpaces(s, n) = [s EXCEPT !.buff = d]
  <2> DEFINE moved == MoveBytes(s, Descending(q, s.cursor_x), n)
  <2>1. InsertSpaces(s, n) = buff_clear(moved, s.cursor_x, n)
    BY DEF InsertSpaces
  <2>2. moved.buff = b
    BY <1>2, <1>3 DEF State
  <2>3. buff_clear(moved, s.cursor_x, n) = [moved EXCEPT !.buff = d]
    BY <2>2, ClearIs
  <2> HIDE DEF moved, d
  <2> QED BY <2>1, <2>3, <1>2, <1>3 DEF moved, State
<1>5. RowIs(s, d, Row(s), w)
  <2>1. d \in [Bytes -> Char]
    BY BlankIsChar DEF Cleared
  <2>2. ASSUME NEW c \in 0..(size_x - 1) PROVE d[L + c] = w[c]
    <3>1. L + c \in Bytes
      <4>1. L + c \in L..(L + 2 * size_x)
        BY ONLY <1>9, n \in Nat, c \in 0..(size_x - 1), Sizes
      <4> QED BY <4>1, <1>1
    <3>2. d[L + c] = IF L + c \in (L + x)..(L + x + n - 1) THEN Blank ELSE b[L + c]
      BY <3>1, <1>1 DEF Cleared
    <3>3. b[L + c] = IF L + c \in (L + x + n)..(q + n) THEN s.buff[L + c - n] ELSE s.buff[L + c]
      BY <3>1, <1>3, <1>9
    <3>4. q + n = L + size_x - 1
      BY ONLY <1>9, n \in Nat, Sizes
    <3>5. w[c] = IF c < x THEN s.buff[L + c] ELSE IF c < x + n THEN Blank ELSE g[Row(s)][c - n]
      BY <1>1 DEF RowInserted
    <3>6. CASE c < x
      <4>1. ~(L + c \in (L + x)..(L + x + n - 1)) /\ ~(L + c \in (L + x + n)..(L + size_x - 1))
        BY ONLY <3>6, <1>9, n \in Nat, c \in 0..(size_x - 1), Sizes
      <4> QED BY ONLY <4>1, <3>2, <3>3, <3>4, <3>5, <3>6
    <3>7. CASE c >= x /\ c < x + n
      <4>1. L + c \in (L + x)..(L + x + n - 1) /\ ~(c < x)
        BY ONLY <3>7, <1>9, n \in Nat, c \in 0..(size_x - 1), Sizes
      <4> QED BY ONLY <4>1, <3>2, <3>5, <3>7
    <3>8. CASE c >= x + n
      <4>1. /\ ~(L + c \in (L + x)..(L + x + n - 1)) /\ L + c \in (L + x + n)..(L + size_x - 1)
            /\ ~(c < x) /\ ~(c < x + n) /\ c - n \in 0..(size_x - 1) /\ L + c - n = L + (c - n)
        BY ONLY <3>8, <1>9, n \in Nat, c \in 0..(size_x - 1), Sizes
      <4>2. g[Row(s)][c - n] = s.buff[L + (c - n)]
        BY <4>1, <1>1
      <4> QED BY ONLY <4>1, <4>2, <3>2, <3>3, <3>4, <3>5
    <3> QED BY ONLY <3>6, <3>7, <3>8, <1>9, n \in Nat, c \in 0..(size_x - 1), Sizes
  <2>3. ASSUME NEW i \in Bytes, i < L \/ i >= L + size_x PROVE d[i] = s.buff[i]
    <3>1. i \in Nat
      BY BytesAre
    <3>2. ~(i \in s.cursor_x..(s.cursor_x + n - 1)) /\ ~(i \in (s.cursor_x + n)..(q + n))
      BY ONLY <3>1, <2>3, <1>9, n \in Nat, Col(s) + n <= size_x, Sizes DEF x
    <3> QED BY <3>2, <1>3 DEF Cleared
  <2> QED BY <2>1, <2>2, <2>3, <1>1 DEF RowIs
<1>6. IsRow(w)
  BY DEF IsRow, RowInserted
<1>7. [g EXCEPT ![Row(s)] = RowInserted(@, x, n)] = [g EXCEPT ![Row(s)] = w]
  OBVIOUS
<1> HIDE DEF w, d
<1>8. Draws(s, [s EXCEPT !.buff = d], s.cursor_y, Col(s), [CellsOf(s, s.buff) EXCEPT ![Row(s)] = w])
  BY <1>5, <1>6, RowDraws
<1> QED BY <1>4, <1>7, <1>8 DEF g, x

\* ESC [ n P
DCH(s, n) == buff_clear(MoveBytes(s, Ascending(s.cursor_x + n, End(s) - 1), -n), End(s) - n, n)

\* P on the alternate screen deletes cells of the cursor's row.
LEMMA DeletedDraws ==
    ASSUME NEW s, Good(s), s.bAltScreen, NEW n \in Nat, n >= 1, s.cursor_x + n <= End(s)
    PROVE  Draws(s, DCH(s, n), s.cursor_y, Col(s),
                 [CellsOf(s, s.buff) EXCEPT ![Row(s)] = RowDeleted(@, Col(s), n)])
<1> DEFINE L == s.line[s.cursor_y]
           x == Col(s)
           p == s.cursor_x + n
           q == End(s) - 1
           g == CellsOf(s, s.buff)
           w == RowDeleted(g[Row(s)], x, n)
<1>1. /\ L = s.line[s.screen_y + Row(s)] /\ Row(s) \in 0..(size_y - 1) /\ L \in Nat
      /\ End(s) = L + size_x /\ s.cursor_x = L + x /\ x \in 0..size_x
      /\ \A i \in L..(L + 2 * size_x) : i \in Bytes
      /\ g[Row(s)] = [c \in 0..(size_x - 1) |-> s.buff[L + c]]
  BY CursorRow
<1>2. s \in State /\ s.buff \in [Bytes -> Char]
  BY GoodFacts
<1>9. L \in Nat /\ x \in 0..size_x /\ s.cursor_x = L + x /\ End(s) = L + size_x
  BY CursorRow
<1> HIDE DEF L, x, g
<1>0. x + n <= size_x
  BY ONLY <1>9, s.cursor_x + n <= End(s), n \in Nat, Sizes
<1>3. PICK b \in [Bytes -> Char] :
        /\ MoveBytes(s, Ascending(p, q), -n) = [s EXCEPT !.buff = b]
        /\ \A i \in Bytes : b[i] = IF i \in (p - n)..(q - n) THEN s.buff[i + n] ELSE s.buff[i]
  <2>1. p \in Int /\ q \in Int
    BY ONLY <1>9, n \in Nat, Sizes
  <2>2. \A i \in p..q : i \in Bytes
    <3> SUFFICES ASSUME NEW i \in p..q PROVE i \in L..(L + 2 * size_x)
      BY <1>1
    <3> QED BY <1>9, Sizes
  <2> HIDE DEF p, q
  <2> QED BY <2>1, <2>2, <1>2, MovedBack
<1> DEFINE o == End(s) - n
           d == Cleared(b, o, n)
<1>4. DCH(s, n) = [s EXCEPT !.buff = d]
  <2> DEFINE moved == MoveBytes(s, Ascending(p, q), -n)
  <2>1. DCH(s, n) = buff_clear(moved, o, n)
    BY DEF DCH
  <2>2. moved.buff = b
    BY <1>2, <1>3 DEF State
  <2>3. buff_clear(moved, o, n) = [moved EXCEPT !.buff = d]
    BY <2>2, ClearIs
  <2> HIDE DEF moved, d
  <2> QED BY <2>1, <2>3, <1>2, <1>3 DEF moved, State
<1>5. RowIs(s, d, Row(s), w)
  <2>0. p - n = L + x /\ q - n = L + size_x - n - 1 /\ o = L + size_x - n
    BY ONLY <1>9, n \in Nat, Sizes
  <2>1. d \in [Bytes -> Char]
    BY BlankIsChar DEF Cleared
  <2> HIDE DEF p, q, o
  <2>2. ASSUME NEW c \in 0..(size_x - 1) PROVE d[L + c] = w[c]
    <3>1. L + c \in Bytes
      <4>1. L + c \in L..(L + 2 * size_x)
        BY ONLY <1>9, n \in Nat, c \in 0..(size_x - 1), Sizes
      <4> QED BY <4>1, <1>1
    <3>2. d[L + c] = IF L + c \in o..(o + n - 1) THEN Blank ELSE b[L + c]
      BY <3>1 DEF Cleared
    <3>3. b[L + c] = IF L + c \in (p - n)..(q - n) THEN s.buff[L + c + n] ELSE s.buff[L + c]
      BY <3>1, <1>3
    <3>5. w[c] = IF c < x THEN s.buff[L + c] ELSE IF c + n < size_x THEN g[Row(s)][c + n] ELSE Blank
      BY <1>1 DEF RowDeleted
    <3>6. CASE c < x
      <4>1. ~(L + c \in o..(o + n - 1)) /\ ~(L + c \in (p - n)..(q - n))
        BY ONLY <3>6, <1>9, <1>0, <2>0, n \in Nat, c \in 0..(size_x - 1), Sizes
      <4> QED BY ONLY <4>1, <3>2, <3>3, <3>5, <3>6
    <3>7. CASE c >= x /\ c + n < size_x
      <4>1. /\ ~(L + c \in o..(o + n - 1)) /\ L + c \in (p - n)..(q - n)
            /\ ~(c < x) /\ c + n \in 0..(size_x - 1) /\ L + c + n = L + (c + n)
        BY ONLY <3>7, <1>9, <2>0, n \in Nat, c \in 0..(size_x - 1), Sizes
      <4>2. g[Row(s)][c + n] = s.buff[L + (c + n)]
        BY <4>1, <1>1
      <4> QED BY ONLY <4>1, <4>2, <3>2, <3>3, <3>5, <3>7
    <3>8. CASE c + n >= size_x
      <4>1. L + c \in o..(o + n - 1) /\ ~(c < x) /\ ~(c + n < size_x)
        BY ONLY <3>8, <1>9, <1>0, <2>0, n \in Nat, c \in 0..(size_x - 1), Sizes
      <4> QED BY ONLY <4>1, <3>2, <3>5
    <3> QED BY ONLY <3>6, <3>7, <3>8, <1>9, n \in Nat, c \in 0..(size_x - 1), Sizes
  <2>3. ASSUME NEW i \in Bytes, i < L \/ i >= L + size_x PROVE d[i] = s.buff[i]
    <3>1. i \in Nat
      BY BytesAre
    <3>2. ~(i \in o..(o + n - 1)) /\ ~(i \in (p - n)..(q - n))
      BY ONLY <3>1, <2>3, <1>9, <1>0, <2>0, n \in Nat, Sizes
    <3> QED BY <3>2, <1>3 DEF Cleared
  <2> QED BY <2>1, <2>2, <2>3, <1>1 DEF RowIs
<1>6. IsRow(w)
  BY DEF IsRow, RowDeleted
<1>7. [g EXCEPT ![Row(s)] = RowDeleted(@, x, n)] = [g EXCEPT ![Row(s)] = w]
  OBVIOUS
<1> HIDE DEF w, d
<1>8. Draws(s, [s EXCEPT !.buff = d], s.cursor_y, Col(s), [CellsOf(s, s.buff) EXCEPT ![Row(s)] = w])
  BY <1>5, <1>6, RowDraws
<1> QED BY <1>4, <1>7, <1>8 DEF g, x

\* ECH and EL
LEMMA ErasedDraws ==
    ASSUME NEW s, Good(s), s.bAltScreen, NEW a \in Nat, NEW n \in Nat, a + n <= size_x,
           NEW o, o = s.line[s.cursor_y] + a
    PROVE  Draws(s, buff_clear(s, o, n), s.cursor_y, Col(s),
                 [CellsOf(s, s.buff) EXCEPT ![Row(s)] = RowErased(@, a, a + n - 1)])
<1> DEFINE L == s.line[s.cursor_y]
           g == CellsOf(s, s.buff)
           w == RowErased(g[Row(s)], a, a + n - 1)
           d == Cleared(s.buff, o, n)
<1>1. /\ L = s.line[s.screen_y + Row(s)] /\ Row(s) \in 0..(size_y - 1) /\ L \in Nat
      /\ \A i \in L..(L + 2 * size_x) : i \in Bytes
      /\ g[Row(s)] = [c \in 0..(size_x - 1) |-> s.buff[L + c]]
  BY CursorRow
<1>2. s \in State /\ s.buff \in [Bytes -> Char] /\ o = L + a
  BY GoodFacts
<1>9. L \in Nat /\ o = L + a
  BY CursorRow
<1> HIDE DEF L, g
<1>3. RowIs(s, d, Row(s), w)
  <2>1. d \in [Bytes -> Char]
    BY <1>2, BlankIsChar DEF Cleared
  <2>2. ASSUME NEW c \in 0..(size_x - 1) PROVE d[L + c] = w[c]
    <3>1. L + c \in Bytes
      <4>1. L + c \in L..(L + 2 * size_x)
        BY ONLY <1>9, n \in Nat, c \in 0..(size_x - 1), Sizes
      <4> QED BY <4>1, <1>1
    <3>2. d[L + c] = IF L + c \in (L + a)..(L + a + n - 1) THEN Blank ELSE s.buff[L + c]
      BY <3>1, <1>2 DEF Cleared
    <3>3. w[c] = IF c \in a..(a + n - 1) THEN Blank ELSE s.buff[L + c]
      BY <1>1 DEF RowErased
    <3>4. L + c \in (L + a)..(L + a + n - 1) <=> c \in a..(a + n - 1)
      BY ONLY <1>9, a \in Nat, n \in Nat, c \in 0..(size_x - 1), Sizes
    <3> QED BY ONLY <3>2, <3>3, <3>4
  <2>3. ASSUME NEW i \in Bytes, i < L \/ i >= L + size_x PROVE d[i] = s.buff[i]
    <3>1. i \in Nat
      BY BytesAre
    <3>2. ~(i \in o..(o + n - 1))
      BY ONLY <3>1, <2>3, <1>9, a \in Nat, n \in Nat, a + n <= size_x, Sizes
    <3> QED BY <3>2 DEF Cleared
  <2> QED BY <2>1, <2>2, <2>3, <1>1 DEF RowIs
<1>4. IsRow(w)
  BY DEF IsRow, RowErased
<1>5. [g EXCEPT ![Row(s)] = RowErased(@, a, a + n - 1)] = [g EXCEPT ![Row(s)] = w]
  OBVIOUS
<1>6. buff_clear(s, o, n) = [s EXCEPT !.buff = d]
  BY ClearIs
<1> HIDE DEF w, d
<1>7. Draws(s, [s EXCEPT !.buff = d], s.cursor_y, Col(s), [CellsOf(s, s.buff) EXCEPT ![Row(s)] = w])
  BY <1>3, <1>4, RowDraws
<1> QED BY <1>5, <1>6, <1>7 DEF g

----------------------------------------------------------------------------
(* Sequences on the alternate screen: characters *)

\* What Put() does once the cursor is where the character goes.
Written(b, ch) ==
    [b EXCEPT !.buff[b.cursor_x] = ch, !.cursor_x = @ + 1,
              !.line[b.cursor_y + 1] = IF @ < b.cursor_x + 1 THEN b.cursor_x + 1 ELSE @]

\* A character that is written shows in its cell.
LEMMA WrittenDraws ==
    ASSUME NEW s, Good(s), s.bAltScreen, NEW b, KeepsText(s, b), NEW r \in 0..(size_y - 1),
           NEW x \in 0..(size_x - 1), NEW ch \in Char
    PROVE  Draws(s, Written(Drawn(s, b, s.screen_y + r, x), ch), s.screen_y + r, x + 1,
                 CellSet(CellsOf(s, b), r, x, ch))
<1> DEFINE y == s.screen_y + r
           u == Drawn(s, b, y, x)
           p == s.line[y] + x
           d == [b EXCEPT ![p] = ch]
           t == Drawn(s, d, y, x + 1)
           v == Written(u, ch)
<1>1. CursorAt(s, y, x) /\ CursorAt(s, y, x + 1)
  BY OnRow, Sizes
<1>2. b \in [Bytes -> Char]
  BY DEF KeepsText
<1>3. /\ KeepsText(s, d)
      /\ CellsOf(s, d) = CellSet(CellsOf(s, b), r, x, ch)
  BY CellWritten
<1>4. d \in [Bytes -> Char]
  BY <1>3 DEF KeepsText
<1> HIDE DEF d, u, y
<1>5. /\ u \in State
      /\ y \in Lines /\ y \in Nat /\ s.line[y] \in Nat /\ x \in Nat
      /\ u.buff = b /\ u.line = s.line /\ u.cursor_x = s.line[y] + x /\ u.cursor_y = y
      /\ u.screen_y = s.screen_y /\ u.roll_top = s.roll_top /\ u.roll_bot = s.roll_bot
      /\ u.save_x = s.save_x /\ u.save_y = s.save_y /\ u.bAltScreen = s.bAltScreen
      /\ u.bInsert = s.bInsert /\ u.bWraparound = s.bWraparound /\ u.bOriginMode = s.bOriginMode
  BY ONLY <1>1, <1>2, Good(s), DrawnState DEF u
<1>6. s.line[y + 1] = s.line[y] + size_x /\ s.line \in [Lines -> Nat]
  <2>1. s.line[s.screen_y + r + 1] = s.line[s.screen_y + r] + size_x
    BY DEF Good, OnScreen
  <2> QED BY <2>1, GoodFacts DEF y
<1>7. ~(u.line[u.cursor_y + 1] < u.cursor_x + 1)
  BY ONLY <1>5, <1>6, x \in 0..(size_x - 1), Sizes
<1> HIDE DEF t, v
<1>8. /\ v \in State
      /\ v.buff = d /\ v.line = u.line /\ v.cursor_x = s.line[y] + (x + 1) /\ v.cursor_y = y
      /\ v.screen_y = s.screen_y /\ v.roll_top = s.roll_top /\ v.roll_bot = s.roll_bot
      /\ v.save_x = s.save_x /\ v.save_y = s.save_y /\ v.bAltScreen = s.bAltScreen
      /\ v.bInsert = s.bInsert /\ v.bWraparound = s.bWraparound /\ v.bOriginMode = s.bOriginMode
  <2> DEFINE l == [u.line EXCEPT ![u.cursor_y + 1] = u.line[u.cursor_y + 1]]
  <2>1. v = [u EXCEPT !.buff = [@ EXCEPT ![u.cursor_x] = ch], !.cursor_x = @ + 1, !.line = l]
    BY ONLY <1>7, <1>5 DEF v, Written, State
  <2>2. l = u.line
    BY <1>5, <1>6
  <2> HIDE DEF l
  <2>3. [u.buff EXCEPT ![u.cursor_x] = ch] = d
    BY <1>5 DEF d
  <2>4. v = [u EXCEPT !.buff = d, !.cursor_x = s.line[y] + (x + 1), !.line = u.line]
    <3>1. u.cursor_x + 1 = s.line[y] + (x + 1)
      BY ONLY <1>5
    <3> QED BY <2>1, <2>2, <2>3, <3>1
  <2>5. s.line[y] + (x + 1) \in Nat
    BY ONLY <1>5
  <2> QED BY ONLY <2>4, <2>5, <1>4, <1>5 DEF State
<1>9. /\ t \in State
      /\ t.buff = d /\ t.line = s.line /\ t.cursor_x = s.line[y] + (x + 1) /\ t.cursor_y = y
      /\ t.screen_y = s.screen_y /\ t.roll_top = s.roll_top /\ t.roll_bot = s.roll_bot
      /\ t.save_x = s.save_x /\ t.save_y = s.save_y /\ t.bAltScreen = s.bAltScreen
      /\ t.bInsert = s.bInsert /\ t.bWraparound = s.bWraparound /\ t.bOriginMode = s.bOriginMode
  BY ONLY <1>1, <1>4, Good(s), DrawnState DEF t
<1>10. v = t
  BY ONLY <1>5, <1>8, <1>9, SameFields
<1>11. Draws(s, v, y, x + 1, CellSet(CellsOf(s, b), r, x, ch))
  BY ONLY <1>3, <1>10 DEF Draws, t
<1> QED BY ONLY <1>11 DEF v, u, y

\* next_line() from behind the last column of a row that another follows
LEMMA NextRowIs ==
    ASSUME NEW s, Good(s), s.bAltScreen, Col(s) = size_x, Row(s) < size_y - 1
    PROVE  next_line(s) = Drawn(s, s.buff, s.screen_y + (Row(s) + 1), 0)
<1> DEFINE y == s.cursor_y + 1
           t == Drawn(s, s.buff, y, 0)
           v == next_line(s)
<1>1. /\ Row(s) \in 0..(size_y - 1) /\ s.cursor_y = s.screen_y + Row(s) /\ s.screen_y \in Nat
      /\ End(s) = s.line[s.cursor_y] + size_x
  BY RowFacts
<1>2. y = s.screen_y + (Row(s) + 1) /\ Row(s) + 1 \in 0..(size_y - 1)
  BY <1>1, Sizes
<1>3. /\ s.cursor_x = s.line[s.cursor_y] + size_x /\ s.line[s.cursor_y] \in Nat
      /\ s \in State /\ s.buff \in [Bytes -> Char] /\ s.line \in [Lines -> Nat] /\ y \in Lines
  BY GoodFacts
<1>4. s.line[y] = s.cursor_x /\ s.cursor_x \in Nat
  BY <1>1, <1>3, GoodFacts DEF End
<1>5. s.line[y + 1] = s.line[y] + size_x
  <2>1. s.line[s.screen_y + (Row(s) + 1) + 1] = s.line[s.screen_y + (Row(s) + 1)] + size_x
    BY <1>2 DEF Good, OnScreen
  <2> QED BY <2>1, <1>2
<1>6. CursorAt(s, y, 0)
  BY <1>2, OnRow, Sizes
<1>7. ~(s.screen_y = y - size_y)
  BY <1>1, <1>2, Sizes
<1>8. ~(s.line[y + 1] < s.cursor_x)
  BY <1>3, <1>4, <1>5, Sizes
<1> HIDE DEF t, v
<1>9. v = [s EXCEPT !.cursor_y = y, !.line = [[@ EXCEPT ![y] = s.cursor_x] EXCEPT ![y + 1] = s.line[y + 1]]]
  <2>1. y # y + 1
    BY <1>1
  <2>2. [s.line EXCEPT ![y] = s.cursor_x][y + 1] = s.line[y + 1]
    <3>1. y + 1 \in Lines
      BY GoodFacts, <1>1
    <3> QED BY <2>1, <3>1, <1>3
  <2> HIDE DEF y
  <2>3. v = [s EXCEPT !.cursor_y = y, !.line[y] = s.cursor_x,
                      !.line[y + 1] = IF @ < s.cursor_x THEN s.cursor_x ELSE @,
                      !.screen_y = IF @ = y - size_y THEN @ + 1 ELSE @]
    BY DEF v, next_line, y
  <2> QED BY ONLY <2>2, <2>3, <1>3, <1>7, <1>8 DEF State
<1>10. [[s.line EXCEPT ![y] = s.cursor_x] EXCEPT ![y + 1] = s.line[y + 1]] = s.line
  BY ONLY <1>3, <1>4
<1>11. v = [s EXCEPT !.cursor_y = y, !.line = s.line]
  BY <1>9, <1>10
<1>12. t = [s EXCEPT !.buff = s.buff, !.cursor_y = y, !.cursor_x = s.cursor_x]
  <2>1. s.line[y] + 0 = s.cursor_x
    BY ONLY <1>4
  <2> HIDE DEF y
  <2> QED BY ONLY <2>1 DEF t, Drawn
<1>13. v = t
  BY ONLY <1>11, <1>12, <1>3 DEF State
<1> QED BY <1>2, <1>13 DEF v, t

\* s is what Drawn() makes of its own buffer and cursor.
LEMMA AsDrawn ==
    ASSUME NEW s, Good(s), s.bAltScreen
    PROVE  /\ s = Drawn(s, s.buff, s.screen_y + Row(s), Col(s))
           /\ \A b \in [Bytes -> Char] : [s EXCEPT !.buff = b] = Drawn(s, b, s.screen_y + Row(s), Col(s))
           /\ Col(s) = size_x => [s EXCEPT !.cursor_x = @ - 1] = Drawn(s, s.buff, s.screen_y + Row(s), size_x - 1)
<1>1. s \in State /\ s.buff \in [Bytes -> Char] /\ s.cursor_x = s.line[s.cursor_y] + Col(s) /\ s.line[s.cursor_y] \in Nat
  BY GoodFacts
<1>2. s.cursor_y = s.screen_y + Row(s)
  BY RowFacts
<1>3. \A b \in [Bytes -> Char] : [s EXCEPT !.buff = b] = Drawn(s, b, s.screen_y + Row(s), Col(s))
  BY <1>2, DrawnHere
<1>4. [s EXCEPT !.buff = s.buff] = s
  BY <1>1 DEF State
<1>5. ASSUME Col(s) = size_x
      PROVE  [s EXCEPT !.cursor_x = @ - 1] = Drawn(s, s.buff, s.screen_y + Row(s), size_x - 1)
  <2>1. s.cursor_x - 1 = s.line[s.cursor_y] + (size_x - 1)
    BY <1>1, <1>5, Sizes
  <2>2. Drawn(s, s.buff, s.cursor_y, size_x - 1)
          = [s EXCEPT !.buff = s.buff, !.cursor_y = s.cursor_y, !.cursor_x = s.cursor_x - 1]
    BY <2>1 DEF Drawn
  <2>3. Drawn(s, s.buff, s.cursor_y, size_x - 1) = [s EXCEPT !.cursor_x = @ - 1]
    BY ONLY <2>2, <1>1 DEF State
  <2> QED BY <2>3, <1>2
<1> QED BY <1>1, <1>3, <1>4, <1>5

\* A character: in the row, at the begin of the next row, or in the last column.
PutInRow(s, t, ch) ==
    /\ Col(s) < size_x
    /\ \E insert \in BOOLEAN :
         Draws(s, t, s.screen_y + Row(s), Col(s) + 1,
               CellSet(IF insert THEN [CellsOf(s, s.buff) EXCEPT ![Row(s)] = RowInserted(@, Col(s), 1)]
                          ELSE CellsOf(s, s.buff), Row(s), Col(s), ch))
PutInNextRow(s, t, ch) ==
    /\ Col(s) = size_x /\ Row(s) < size_y - 1
    /\ Draws(s, t, s.screen_y + (Row(s) + 1), 1, CellSet(CellsOf(s, s.buff), Row(s) + 1, 0, ch))
PutInLastColumn(s, t, ch) ==
    /\ Col(s) = size_x
    /\ Draws(s, t, s.screen_y + Row(s), size_x, CellSet(CellsOf(s, s.buff), Row(s), size_x - 1, ch))

\* A character on the alternate screen is put in the cursor's row, at the
\* start of the next one after a wrap, or over the last column.
LEMMA PutDraws ==
    ASSUME NEW s, Good(s), s.bAltScreen, NEW ch \in Char,
           Col(s) = size_x /\ s.bWraparound => Row(s) < size_y - 1,
           s.bInsert => Col(s) < size_x
    PROVE  PutInRow(s, Put(s, ch), ch) \/ PutInNextRow(s, Put(s, ch), ch) \/ PutInLastColumn(s, Put(s, ch), ch)
<1> DEFINE a == IF s.bInsert THEN InsertSpaces(s, 1) ELSE s
           b == IF Col(a) # size_x THEN a
                ELSE IF a.bWraparound THEN next_line(a) ELSE [a EXCEPT !.cursor_x = @ - 1]
<1>1. Put(s, ch) = Written(b, ch)
  BY DEF Put, Written
<1>2. Row(s) \in 0..(size_y - 1) /\ Col(s) \in 0..size_x /\ s.cursor_y = s.screen_y + Row(s) /\ s.screen_y \in Nat
  BY RowFacts, GoodFacts
<1>3. KeepsText(s, s.buff)
  BY SameText
<1>4. CASE Col(s) < size_x
  <2>1. Col(s) \in 0..(size_x - 1)
    BY <1>2, <1>4, Sizes
  <2>2. CASE ~s.bInsert
    <3>1. b = Drawn(s, s.buff, s.screen_y + Row(s), Col(s))
      <4>1. b = s
        BY <2>2, <2>1, Sizes
      <4> QED BY <4>1, AsDrawn
    <3> HIDE DEF b
    <3>2. Draws(s, Put(s, ch), s.screen_y + Row(s), Col(s) + 1, CellSet(CellsOf(s, s.buff), Row(s), Col(s), ch))
      BY <1>1, <1>2, <1>3, <2>1, <3>1, WrittenDraws
    <3>3. Draws(s, Put(s, ch), s.screen_y + Row(s), Col(s) + 1,
                CellSet(IF FALSE THEN [CellsOf(s, s.buff) EXCEPT ![Row(s)] = RowInserted(@, Col(s), 1)]
                          ELSE CellsOf(s, s.buff), Row(s), Col(s), ch))
      BY <3>2
    <3> QED BY <3>3, <1>4 DEF PutInRow
  <2>3. CASE s.bInsert
    <3> DEFINE h == [CellsOf(s, s.buff) EXCEPT ![Row(s)] = RowInserted(@, Col(s), 1)]
    <3>1. Draws(s, InsertSpaces(s, 1), s.cursor_y, Col(s), h)
      <4>1. 1 \in Nat /\ 1 >= 1 /\ Col(s) + 1 <= size_x
        BY <2>1, Sizes
      <4> QED BY <4>1, SpacesDraw
    <3> HIDE DEF h
    <3>2. PICK d : InsertSpaces(s, 1) = Drawn(s, d, s.cursor_y, Col(s)) /\ KeepsText(s, d) /\ CellsOf(s, d) = h
      BY <3>1 DEF Draws
    <3>3. Col(InsertSpaces(s, 1)) = Col(s)
      <4>1. CursorAt(s, s.cursor_y, Col(s))
        BY FirstColumn
      <4>2. Shows(s, InsertSpaces(s, 1), s.cursor_y - s.screen_y, Col(s), h)
        BY <3>1, <4>1, DrawsShows
      <4> QED BY <4>2 DEF Shows
    <3>4. b = Drawn(s, d, s.screen_y + Row(s), Col(s))
      <4>1. a = InsertSpaces(s, 1)
        BY <2>3
      <4>2. Col(a) # size_x
        BY <4>1, <3>3, <2>1, Sizes
      <4> HIDE DEF a
      <4>3. b = a
        BY <4>2
      <4> QED BY <4>1, <4>3, <3>2, <1>2
    <3> HIDE DEF b
    <3>5. Draws(s, Put(s, ch), s.screen_y + Row(s), Col(s) + 1, CellSet(CellsOf(s, d), Row(s), Col(s), ch))
      BY <1>1, <1>2, <3>2, <2>1, <3>4, WrittenDraws
    <3>6. Draws(s, Put(s, ch), s.screen_y + Row(s), Col(s) + 1, CellSet(h, Row(s), Col(s), ch))
      BY <3>5, <3>2
    <3>7. Draws(s, Put(s, ch), s.screen_y + Row(s), Col(s) + 1,
                CellSet(IF TRUE THEN h ELSE CellsOf(s, s.buff), Row(s), Col(s), ch))
      BY <3>6
    <3> QED BY <3>7, <1>4 DEF PutInRow, h
  <2> QED BY <2>2, <2>3
<1>5. CASE Col(s) = size_x
  <2>1. a = s
    BY <1>5, Sizes
  <2>2. CASE s.bWraparound
    <3>1. Row(s) < size_y - 1 /\ Row(s) + 1 \in 0..(size_y - 1) /\ 0 \in 0..(size_x - 1)
      BY <1>2, <1>5, <2>2, Sizes
    <3>2. b = next_line(s)
      BY <1>5, <2>1, <2>2
    <3>3. b = Drawn(s, s.buff, s.screen_y + (Row(s) + 1), 0)
      BY <3>1, <3>2, <1>5, NextRowIs
    <3> HIDE DEF b
    <3>4. Draws(s, Put(s, ch), s.screen_y + (Row(s) + 1), 0 + 1, CellSet(CellsOf(s, s.buff), Row(s) + 1, 0, ch))
      BY <1>1, <1>3, <3>1, <3>3, WrittenDraws
    <3>5. 0 + 1 = 1
      OBVIOUS
    <3> QED BY <3>1, <3>4, <3>5, <1>5 DEF PutInNextRow
  <2>3. CASE ~s.bWraparound
    <3>1. b = [s EXCEPT !.cursor_x = @ - 1]
      BY <1>5, <2>1, <2>3
    <3>2. b = Drawn(s, s.buff, s.screen_y + Row(s), size_x - 1)
      BY <3>1, <1>5, AsDrawn
    <3> HIDE DEF b
    <3>3. size_x - 1 \in 0..(size_x - 1) /\ (size_x - 1) + 1 = size_x
      BY Sizes
    <3>4. Draws(s, Put(s, ch), s.screen_y + Row(s), (size_x - 1) + 1, CellSet(CellsOf(s, s.buff), Row(s), size_x - 1, ch))
      BY <1>1, <1>2, <1>3, <3>2, <3>3, WrittenDraws
    <3> QED BY <3>3, <3>4, <1>5 DEF PutInLastColumn
  <2> QED BY <2>2, <2>3
<1> QED BY <1>2, <1>4, <1>5, Sizes

\* DECALN
Filled(s, ch) ==
    [s EXCEPT !.buff = [i \in Bytes |->
        IF i \in s.line[s.screen_y]..(s.line[s.screen_y] + size_x * size_y - 1) THEN ch ELSE @[i]]]

\* ESC # 8 shows the one character in every cell.
LEMMA FilledDraws ==
    ASSUME NEW s, Good(s), s.bAltScreen, NEW ch \in Char
    PROVE  Draws(s, Filled(s, ch), s.cursor_y, Col(s), [r \in 0..(size_y - 1) |-> [c \in 0..(size_x - 1) |-> ch]])
<1> DEFINE p == s.line[s.screen_y]
           n == size_x * size_y
           b == [i \in Bytes |-> IF i \in p..(p + n - 1) THEN ch ELSE s.buff[i]]
<1>1. s \in State /\ s.buff \in [Bytes -> Char] /\ s.line[Base(s)] = p /\ p \in Nat
  BY GoodFacts DEF Base
<1>2. Filled(s, ch) = [s EXCEPT !.buff = b]
  BY DEF Filled
<1>3. KeepsText(s, b)
  <2>1. b \in [Bytes -> Char]
    BY <1>1
  <2>2. ASSUME NEW i \in Bytes, i < p PROVE b[i] = s.buff[i]
    <3>1. ~(i \in p..(p + n - 1))
      BY <1>1, <2>2, BytesAre
    <3> QED BY <3>1
  <2> QED BY <2>1, <2>2, <1>1 DEF KeepsText
<1>4. ASSUME NEW r \in 0..(size_y - 1), NEW c \in 0..(size_x - 1)
      PROVE  b[s.line[s.screen_y + r] + c] = ch
  <2>1. s.line[s.screen_y + r] + c \in Bytes
    BY Place, Sizes
  <2>2. s.line[s.screen_y + r] = p + r * size_x
    BY RowsAre, Sizes
  <2>3. (r + 1) * size_x <= size_y * size_x /\ (r + 1) * size_x = r * size_x + size_x /\ r * size_x \in Nat
        /\ n = size_y * size_x
    BY Sizes
  <2>4. PICK m \in Nat : m = r * size_x
    BY <2>3
  <2>5. p + m + c \in p..(p + n - 1)
    <3> HIDE DEF n, p
    <3> QED BY ONLY <1>1, <2>3, <2>4, c \in 0..(size_x - 1), n = size_y * size_x, Sizes
  <2>6. s.line[s.screen_y + r] + c \in p..(p + n - 1)
    BY <2>2, <2>4, <2>5
  <2> QED BY <2>1, <2>6
<1>5. CellsOf(s, b) = [r \in 0..(size_y - 1) |-> [c \in 0..(size_x - 1) |-> ch]]
  <2> HIDE DEF b
  <2> QED BY <1>4 DEF CellsOf
<1> HIDE DEF b
<1>6. Draws(s, [s EXCEPT !.buff = b], s.cursor_y, Col(s), CellsOf(s, b))
  BY <1>3, BuffDraws
<1> QED BY <1>2, <1>5, <1>6

----------------------------------------------------------------------------
(* Laying out the screen *)

\* a with n blank lines from the cursor's on, and the cursor before the first.
Relaid(a, n) ==
    [a EXCEPT !.buff = LaidBuff(a, n), !.line = LaidLine(a, n), !.cursor_x = a.line[a.cursor_y]]

\* The fields of a screen whose rows were laid out again.
LEMMA RelaidFields ==
    ASSUME NEW a \in State, a.cursor_y \in Lines, NEW n \in Nat
    PROVE  LET t == Relaid(a, n) IN
           /\ t \in State
           /\ t.buff = LaidBuff(a, n) /\ t.line = LaidLine(a, n)
           /\ t.cursor_x = a.line[a.cursor_y] /\ t.cursor_y = a.cursor_y
           /\ t.screen_y = a.screen_y /\ t.roll_top = a.roll_top /\ t.roll_bot = a.roll_bot
           /\ t.save_x = a.save_x /\ t.save_y = a.save_y /\ t.bAltScreen = a.bAltScreen
           /\ t.bInsert = a.bInsert /\ t.bWraparound = a.bWraparound /\ t.bOriginMode = a.bOriginMode
<1>1. Laid(a, n) \in State
  BY LaidState
<1>2. Laid(a, n).buff = LaidBuff(a, n) /\ Laid(a, n).line = LaidLine(a, n)
  BY DEF Laid, State
<1>3. LaidBuff(a, n) \in [Bytes -> Char] /\ LaidLine(a, n) \in [Lines -> Nat]
  <2> HIDE DEF Laid
  <2> QED BY <1>1, <1>2 DEF State
<1>4. a.line[a.cursor_y] \in Nat
  BY DEF State
<1> QED BY ONLY <1>3, <1>4, a \in State DEF Relaid, State

\* After its blank lines screen_clear() goes back to where it began.
LEMMA LaidBack ==
    ASSUME NEW a \in State, NEW n \in Nat, a.cursor_y \in Lines, a.cursor_y + n + 1 \in Lines
    PROVE  /\ a.cursor_y + n < a.screen_y + size_y => At(BlankLines(a, n), a.cursor_y, 0) = Relaid(a, n)
           /\ a.cursor_y + n = a.screen_y + size_y /\ n > 0
                => At([BlankLines(a, n) EXCEPT !.screen_y = @ - 1], a.cursor_y, 0) = Relaid(a, n)
<1> DEFINE b == Laid(a, n)
           t == Relaid(a, n)
           y == a.cursor_y
<1>1. a.cursor_y \in Nat /\ a.screen_y \in Nat /\ a.line \in [Lines -> Nat] /\ a.line[y] \in Nat
  BY DEF State
<1>2. /\ t \in State
      /\ t.buff = LaidBuff(a, n) /\ t.line = LaidLine(a, n)
      /\ t.cursor_x = a.line[y] /\ t.cursor_y = y
      /\ t.screen_y = a.screen_y /\ t.roll_top = a.roll_top /\ t.roll_bot = a.roll_bot
      /\ t.save_x = a.save_x /\ t.save_y = a.save_y /\ t.bAltScreen = a.bAltScreen
      /\ t.bInsert = a.bInsert /\ t.bWraparound = a.bWraparound /\ t.bOriginMode = a.bOriginMode
  BY RelaidFields
<1>3. LaidLine(a, n)[y] = a.line[y]
  <2>1. y \notin (y + 1)..(y + n) /\ y # y + n + 1
    BY <1>1
  <2> QED BY <2>1, a.cursor_y \in Lines DEF LaidLine
<1>4. b \in State
  BY LaidState
<1>5. /\ b.buff = LaidBuff(a, n) /\ b.line = LaidLine(a, n)
      /\ b.screen_y = (IF n > 0 /\ y + n = a.screen_y + size_y THEN a.screen_y + 1 ELSE a.screen_y)
      /\ b.roll_top = a.roll_top /\ b.roll_bot = a.roll_bot
      /\ b.save_x = a.save_x /\ b.save_y = a.save_y /\ b.bAltScreen = a.bAltScreen
      /\ b.bInsert = a.bInsert /\ b.bWraparound = a.bWraparound /\ b.bOriginMode = a.bOriginMode
  BY DEF Laid, State
<1> HIDE DEF b, t
<1>6. ASSUME NEW c \in State, c.buff = b.buff, c.line = b.line, c.screen_y = a.screen_y,
             c.roll_top = b.roll_top, c.roll_bot = b.roll_bot, c.save_x = b.save_x, c.save_y = b.save_y,
             c.bAltScreen = b.bAltScreen, c.bInsert = b.bInsert,
             c.bWraparound = b.bWraparound, c.bOriginMode = b.bOriginMode
      PROVE  At(c, y, 0) = t
  <2> DEFINE v == At(c, y, 0)
  <2>1. c.line[y] + 0 = a.line[y]
    BY ONLY <1>1, <1>3, <1>5, <1>6
  <2>2. v = [c EXCEPT !.cursor_y = y, !.cursor_x = a.line[y]]
    BY <2>1 DEF At
  <2> HIDE DEF v
  <2>3. /\ v \in State
        /\ v.buff = c.buff /\ v.line = c.line /\ v.cursor_x = a.line[y] /\ v.cursor_y = y
        /\ v.screen_y = c.screen_y /\ v.roll_top = c.roll_top /\ v.roll_bot = c.roll_bot
        /\ v.save_x = c.save_x /\ v.save_y = c.save_y /\ v.bAltScreen = c.bAltScreen
        /\ v.bInsert = c.bInsert /\ v.bWraparound = c.bWraparound /\ v.bOriginMode = c.bOriginMode
    BY ONLY <2>2, <1>1, c \in State DEF State
  <2>4. v = t
    BY ONLY <2>3, <1>2, <1>5, <1>6, SameFields
  <2> QED BY <2>4 DEF v
<1>7. ASSUME y + n < a.screen_y + size_y PROVE At(BlankLines(a, n), y, 0) = t
  <2>1. BlankLines(a, n) = b
    BY <1>7, <1>1, Sizes, BlankLinesAre DEF b
  <2>2. b.screen_y = a.screen_y
    BY <1>5, <1>7, <1>1, Sizes
  <2> QED BY <2>1, <2>2, <1>4, <1>6
<1>8. ASSUME y + n = a.screen_y + size_y, n > 0
      PROVE  At([BlankLines(a, n) EXCEPT !.screen_y = @ - 1], y, 0) = t
  <2> DEFINE c == [b EXCEPT !.screen_y = @ - 1]
  <2>1. BlankLines(a, n) = b
    BY <1>8, <1>1, Sizes, BlankLinesAre DEF b
  <2>2. b.screen_y - 1 = a.screen_y
    BY <1>5, <1>8, <1>1, Sizes
  <2>3. c = [b EXCEPT !.screen_y = a.screen_y]
    BY <2>2
  <2> HIDE DEF c
  <2>4. /\ c \in State /\ c.buff = b.buff /\ c.line = b.line /\ c.screen_y = a.screen_y
        /\ c.roll_top = b.roll_top /\ c.roll_bot = b.roll_bot /\ c.save_x = b.save_x /\ c.save_y = b.save_y
        /\ c.bAltScreen = b.bAltScreen /\ c.bInsert = b.bInsert
        /\ c.bWraparound = b.bWraparound /\ c.bOriginMode = b.bOriginMode
    BY ONLY <2>3, <1>4, <1>1 DEF State
  <2>5. At(c, y, 0) = t
    BY <2>4, <1>6
  <2> QED BY <2>1, <2>5 DEF c
<1> QED BY <1>7, <1>8 DEF t

\* The rows a to z blank, and the others from g.
RowsErased(g, a, z) == [r \in 0..(size_y - 1) |-> IF r \in a..z THEN BlankRow ELSE g[r]]

\* On the alternate screen that leaves the lines where they are.
LEMMA RelaidShows ==
    ASSUME NEW s, Good(s), s.bAltScreen, NEW c, KeepsText(s, c), NEW q \in 0..(size_y - 1),
           NEW x \in 0..size_x, NEW n \in Nat, q + n <= size_y
    PROVE  LET t == Relaid(Drawn(s, c, s.screen_y + q, x), n) IN
           /\ Good(t) /\ Kept(s, t)
           /\ Shows(s, t, q, 0, RowsErased(CellsOf(s, c), q, q + n - 1))
<1> DEFINE y == s.screen_y + q
           L == s.line[y]
           a == Drawn(s, c, y, x)
           t == Relaid(a, n)
           d == Cleared(c, L, n * size_x)
           l == LaidLine(a, n)
<1>1. CursorAt(s, y, x)
  BY OnRow
<1>2. c \in [Bytes -> Char]
  BY DEF KeepsText
<1>3. s.line \in [Lines -> Nat] /\ s.screen_y \in Nat /\ s.screen_y <= MaxLine /\ n * size_x \in Nat
  BY GoodFacts, Sizes DEF Base
<1> HIDE DEF a, y
<1>4. /\ a \in State
      /\ y \in Lines /\ y \in Nat /\ s.line[y] \in Nat /\ x \in Nat
      /\ a.buff = c /\ a.line = s.line /\ a.cursor_x = s.line[y] + x /\ a.cursor_y = y
      /\ a.screen_y = s.screen_y /\ a.roll_top = s.roll_top /\ a.roll_bot = s.roll_bot
      /\ a.save_x = s.save_x /\ a.save_y = s.save_y /\ a.bAltScreen = s.bAltScreen
      /\ a.bInsert = s.bInsert /\ a.bWraparound = s.bWraparound /\ a.bOriginMode = s.bOriginMode
  BY ONLY <1>1, <1>2, Good(s), DrawnState DEF a
<1> HIDE DEF t, l
<1>5. /\ t \in State
      /\ t.buff = LaidBuff(a, n) /\ t.line = l /\ t.cursor_x = L /\ t.cursor_y = y
      /\ t.screen_y = s.screen_y /\ t.roll_top = s.roll_top /\ t.roll_bot = s.roll_bot
      /\ t.save_x = s.save_x /\ t.save_y = s.save_y /\ t.bAltScreen = s.bAltScreen
      /\ t.bInsert = s.bInsert /\ t.bWraparound = s.bWraparound /\ t.bOriginMode = s.bOriginMode
  <2>1. a.cursor_y \in Lines
    BY <1>4
  <2>2. /\ t \in State
        /\ t.buff = LaidBuff(a, n) /\ t.line = LaidLine(a, n)
        /\ t.cursor_x = a.line[a.cursor_y] /\ t.cursor_y = a.cursor_y
        /\ t.screen_y = a.screen_y /\ t.roll_top = a.roll_top /\ t.roll_bot = a.roll_bot
        /\ t.save_x = a.save_x /\ t.save_y = a.save_y /\ t.bAltScreen = a.bAltScreen
        /\ t.bInsert = a.bInsert /\ t.bWraparound = a.bWraparound /\ t.bOriginMode = a.bOriginMode
    BY ONLY <1>4, <2>1, n \in Nat, RelaidFields DEF t
  <2> QED BY ONLY <2>2, <1>4 DEF l
<1>6. LaidBuff(a, n) = d
  BY <1>4 DEF LaidBuff, Cleared
<1>7. ASSUME NEW i \in Lines, i <= s.screen_y + size_y PROVE l[i] = s.line[i]
  <2>0. Lines \subseteq Nat
    BY DEF Lines
  <2>1. l[i] = IF i \in (y + 1)..(y + n) THEN L + (i - y) * size_x
               ELSE IF n > 0 /\ i = y + n + 1 /\ s.line[i] < L + n * size_x THEN L + n * size_x ELSE s.line[i]
    BY <1>4 DEF l, LaidLine
  <2>2. CASE i \in (y + 1)..(y + n)
    <3> DEFINE r == i - s.screen_y
    <3>1. r \in 0..size_y /\ q < r /\ r - q = i - y /\ s.screen_y + r = i /\ q \in 0..size_y
      BY <2>2, <2>0, <1>3, <1>7, Sizes DEF y
    <3> HIDE DEF r
    <3>2. s.line[s.screen_y + r] = s.line[s.screen_y + q] + (r - q) * size_x
      BY <3>1, RowsFollow
    <3> QED BY <2>1, <2>2, <3>1, <3>2 DEF y
  <2>3. CASE i = y + n + 1
    <3> DEFINE r == i - s.screen_y
    <3>1. r \in 0..size_y /\ q < r /\ r - q = n + 1 /\ s.screen_y + r = i /\ q \in 0..size_y
      BY <2>3, <2>0, <1>3, <1>7, Sizes DEF y
    <3> HIDE DEF r
    <3>2. s.line[i] = L + (n + 1) * size_x
      BY <3>1, RowsFollow DEF y
    <3>3. (n + 1) * size_x = n * size_x + size_x
      BY Sizes
    <3>4. ~(s.line[i] < L + n * size_x)
      BY <3>2, <3>3, <1>3, <1>4, Sizes
    <3>5. i \notin (y + 1)..(y + n)
      BY <2>3, <1>4
    <3> QED BY <2>1, <3>4, <3>5
  <2> QED BY <2>1, <2>2, <2>3
<1>8. ASSUME NEW i \in Lines, i > s.screen_y + size_y + 1 PROVE l[i] = 0
  <2>0. Lines \subseteq Nat
    BY DEF Lines
  <2>1. l[i] = IF i \in (y + 1)..(y + n) THEN L + (i - y) * size_x
               ELSE IF n > 0 /\ i = y + n + 1 /\ s.line[i] < L + n * size_x THEN L + n * size_x ELSE s.line[i]
    BY <1>4 DEF l, LaidLine
  <2>2. i \notin (y + 1)..(y + n) /\ i # y + n + 1
    BY <2>0, <1>8, <1>3, Sizes DEF y
  <2>3. s.line[i] = 0
    BY <1>8 DEF Good, OnScreen
  <2> QED BY <2>1, <2>2, <2>3
<1>9. \A r \in 0..size_y : s.screen_y + r \in Lines /\ l[s.screen_y + r] = s.line[s.screen_y + r]
  <2> SUFFICES ASSUME NEW r \in 0..size_y PROVE s.screen_y + r \in Lines /\ l[s.screen_y + r] = s.line[s.screen_y + r]
    OBVIOUS
  <2>1. s.screen_y + r \in Lines /\ s.screen_y + r <= s.screen_y + size_y
    BY <1>3, Sizes, LineNumbers
  <2> QED BY <2>1, <1>7
<1>10. ASSUME NEW i \in 0..s.screen_y PROVE i \in Lines /\ l[i] = s.line[i]
  <2>1. i \in Lines /\ i <= s.screen_y + size_y
    BY <1>3, Sizes, LineNumbers
  <2> QED BY <2>1, <1>7
<1>11. Base(t) = s.screen_y /\ Base(s) = s.screen_y
  BY <1>5 DEF Base
<1>12. TextAbove(t)
  <2>1. TextAbove(s) /\ s.screen_y \in 0..s.screen_y
    BY <1>3 DEF Good
  <2>2. t.line[s.screen_y] = s.line[s.screen_y]
    BY <2>1, <1>5, <1>10
  <2>3. ASSUME NEW i \in 0..(s.screen_y - 1) PROVE t.line[i] <= t.line[i + 1]
    <3>1. i \in 0..s.screen_y /\ i + 1 \in 0..s.screen_y
      BY <1>3
    <3>2. t.line[i] = s.line[i] /\ t.line[i + 1] = s.line[i + 1]
      BY <3>1, <1>5, <1>10
    <3> QED BY <2>1, <3>2, <1>11 DEF TextAbove
  <2> QED BY ONLY <2>1, <2>2, <2>3, <1>11 DEF TextAbove
<1>13. Row(t) = q /\ Col(t) = 0
  <2>1. l[y] = s.line[y]
    BY <1>9, Sizes DEF y
  <2> QED BY <2>1, <1>3, <1>4, <1>5 DEF Row, Col, y
<1>14. OnScreen(t)
  <2>1. ASSUME NEW r \in 0..(size_y - 1) PROVE t.line[t.screen_y + r + 1] = t.line[t.screen_y + r] + size_x
    <3>1. s.line[s.screen_y + r + 1] = s.line[s.screen_y + r] + size_x
      BY DEF Good, OnScreen
    <3>2. r \in 0..size_y /\ r + 1 \in 0..size_y /\ s.screen_y + r + 1 = s.screen_y + (r + 1)
      BY <1>3, Sizes
    <3> QED BY <3>1, <3>2, <1>5, <1>9
  <2> QED BY <2>1, <1>5, <1>8, <1>13 DEF OnScreen
<1>15. OfScreen(t)
  BY <1>5 DEF Good, OfScreen
<1>16. Good(t)
  <2>1. Col(t) \in 0..size_x
    BY <1>13, Sizes
  <2> QED BY <2>1, <1>5, <1>12, <1>14, <1>15 DEF Good
<1>17. /\ KeepsText(s, d)
       /\ \A r \in 0..(size_y - 1) : CellsOf(s, d)[r] = IF r \in q..(q + n - 1) THEN BlankRow ELSE CellsOf(s, c)[r]
  BY RowsCleared DEF y
<1> HIDE DEF d
<1>18. Kept(s, t)
  BY <1>5, <1>6, <1>10, <1>11, <1>17 DEF Kept, KeepsText
<1>19. CellsOf(t, t.buff) = RowsErased(CellsOf(s, c), q, q + n - 1)
  <2>1. CellsOf(t, t.buff) = CellsOf(s, d)
    <3>1. \A r \in 0..(size_y - 1) : t.line[t.screen_y + r] = s.line[s.screen_y + r]
      BY <1>5, <1>9, Sizes
    <3> QED BY <3>1, <1>5, <1>6 DEF CellsOf
  <2>2. CellsOf(s, d) = [r \in 0..(size_y - 1) |-> CellsOf(s, d)[r]]
    BY DEF CellsOf
  <2> QED BY <2>1, <2>2, <1>17 DEF RowsErased
<1>20. Shows(s, t, q, 0, RowsErased(CellsOf(s, c), q, q + n - 1))
  BY <1>5, <1>13, <1>19 DEF Shows
<1> QED BY <1>16, <1>18, <1>20 DEF t, a, y

\* The modes of screen_clear(), which ends with the cursor where it began to
\* lay lines out.
LEMMA ClearIsLaid ==
    ASSUME NEW s
    PROVE  /\ LET a == [s EXCEPT !.screen_y = s.cursor_y]
              IN  screen_clear(s, 2) = At([BlankLines(a, a.screen_y + size_y - a.cursor_y)
                                             EXCEPT !.screen_y = @ - 1], a.cursor_y, 0)
           /\ LET a == [buff_clear(s, s.line[s.cursor_y], Col(s) + 1) EXCEPT !.cursor_y = s.screen_y]
              IN  screen_clear(s, 1) = At(BlankLines(a, Row(s)), a.cursor_y, 0)
<1>1. 1 # 2
  OBVIOUS
<1> DEFINE two == CASE 2 = 2 -> [s EXCEPT !.screen_y = s.cursor_y]
                    [] 2 = 1 -> [buff_clear(s, s.line[s.cursor_y], Col(s) + 1) EXCEPT !.cursor_y = s.screen_y]
                    [] 2 = 0 -> buff_clear(s, s.cursor_x, End(s) - s.cursor_x)
           one == CASE 1 = 2 -> [s EXCEPT !.screen_y = s.cursor_y]
                    [] 1 = 1 -> [buff_clear(s, s.line[s.cursor_y], Col(s) + 1) EXCEPT !.cursor_y = s.screen_y]
                    [] 1 = 0 -> buff_clear(s, s.cursor_x, End(s) - s.cursor_x)
           a2 == [s EXCEPT !.screen_y = s.cursor_y]
           a1 == [buff_clear(s, s.line[s.cursor_y], Col(s) + 1) EXCEPT !.cursor_y = s.screen_y]
<1>2. two = a2
  OBVIOUS
<1>3. one = a1
  OBVIOUS
<1>4. screen_clear(s, 2) = At([BlankLines(two, two.screen_y + size_y - two.cursor_y)
                                 EXCEPT !.screen_y = @ - 1], two.cursor_y, 0)
  <2> DEFINE b == BlankLines(two, IF 2 = 1 THEN Row(s) ELSE two.screen_y + size_y - two.cursor_y)
  <2>1. screen_clear(s, 2) = At(IF 2 = 1 THEN b ELSE [b EXCEPT !.screen_y = @ - 1], two.cursor_y, 0)
    BY DEF screen_clear
  <2> HIDE DEF two
  <2> QED BY <2>1, <1>1
<1>5. screen_clear(s, 1) = At(BlankLines(one, Row(s)), one.cursor_y, 0)
  <2> DEFINE b == BlankLines(one, IF 1 = 1 THEN Row(s) ELSE one.screen_y + size_y - one.cursor_y)
  <2>1. screen_clear(s, 1) = At(IF 1 = 1 THEN b ELSE [b EXCEPT !.screen_y = @ - 1], one.cursor_y, 0)
    BY DEF screen_clear
  <2> HIDE DEF one
  <2> QED BY <2>1
<1> HIDE DEF two, one
<1> QED BY <1>2, <1>3, <1>4, <1>5

\* ED: the whole screen, from its first row
LEMMA EraseAllShows ==
    ASSUME NEW s, Good(s), s.bAltScreen, Row(s) = 0
    PROVE  LET t == screen_clear(s, 2) IN
           /\ Good(t) /\ Kept(s, t)
           /\ Shows(s, t, 0, 0, RowsErased(CellsOf(s, s.buff), 0, size_y - 1))
<1>1. s \in State /\ s.cursor_y \in Nat /\ s.screen_y \in Nat /\ s.cursor_y \in Lines /\ s.screen_y <= MaxLine
  BY GoodFacts DEF Base
<1>2. s.cursor_y = s.screen_y
  BY <1>1, RowFacts
<1> DEFINE a == [s EXCEPT !.screen_y = s.cursor_y]
<1>3. a = s
  BY ONLY <1>1, <1>2 DEF State
<1>4. a.screen_y + size_y - a.cursor_y = size_y
  BY <1>1, <1>2, <1>3, Sizes
<1> HIDE DEF a
<1>5. screen_clear(s, 2) = At([BlankLines(a, size_y) EXCEPT !.screen_y = @ - 1], a.cursor_y, 0)
  BY <1>4, ClearIsLaid DEF a
<1>6. screen_clear(s, 2) = Relaid(s, size_y)
  <2>1. s.cursor_y + size_y + 1 \in Lines /\ s.cursor_y + size_y = s.screen_y + size_y /\ size_y > 0 /\ size_y \in Nat
    BY <1>1, <1>2, Sizes, LineNumbers
  <2> QED BY <1>1, <1>3, <1>5, <2>1, LaidBack
<1>7. s = Drawn(s, s.buff, s.screen_y + 0, Col(s)) /\ Col(s) \in 0..size_x
  BY AsDrawn, GoodFacts
<1>8. 0 \in 0..(size_y - 1) /\ 0 + size_y <= size_y /\ size_y \in Nat /\ 0 + size_y - 1 = size_y - 1
  BY Sizes
<1>9. KeepsText(s, s.buff)
  BY SameText
<1> DEFINE t == Relaid(Drawn(s, s.buff, s.screen_y + 0, Col(s)), size_y)
<1>10. Good(t) /\ Kept(s, t) /\ Shows(s, t, 0, 0, RowsErased(CellsOf(s, s.buff), 0, 0 + size_y - 1))
  BY <1>7, <1>8, <1>9, RelaidShows
<1>11. t = screen_clear(s, 2)
  BY <1>6, <1>7
<1> HIDE DEF t
<1> QED BY <1>8, <1>10, <1>11

\* to the cursor
LEMMA EraseAboveShows ==
    ASSUME NEW s, Good(s), s.bAltScreen, Col(s) < size_x
    PROVE  LET t == screen_clear(s, 1) IN
           /\ Good(t) /\ Kept(s, t)
           /\ Shows(s, t, 0, 0, RowsErased([CellsOf(s, s.buff) EXCEPT ![Row(s)] = RowErased(@, 0, Col(s))],
                                           0, Row(s) - 1))
<1> DEFINE L == s.line[s.cursor_y]
           n == Col(s) + 1
           g == [CellsOf(s, s.buff) EXCEPT ![Row(s)] = RowErased(@, 0, Col(s))]
           a == [buff_clear(s, L, n) EXCEPT !.cursor_y = s.screen_y]
<1>1. s \in State /\ s.cursor_y \in Nat /\ s.screen_y \in Nat /\ s.screen_y <= MaxLine /\ L \in Nat
  BY GoodFacts DEF Base
<1>2. Row(s) \in 0..(size_y - 1) /\ s.cursor_y = s.screen_y + Row(s)
  BY RowFacts
<1>3. Col(s) \in 0..size_x /\ n \in Nat /\ 0 + n <= size_x /\ L = L + 0 /\ 0 + n - 1 = Col(s)
  BY <1>1, GoodFacts, Sizes
<1>4. Draws(s, buff_clear(s, L, n), s.cursor_y, Col(s), g)
  <2> HIDE DEF L, n
  <2>1. Draws(s, buff_clear(s, L, n), s.cursor_y, Col(s),
              [CellsOf(s, s.buff) EXCEPT ![Row(s)] = RowErased(@, 0, 0 + n - 1)])
    BY <1>3, ErasedDraws DEF L
  <2> QED BY <2>1, <1>3
<1> HIDE DEF g
<1>5. PICK c : buff_clear(s, L, n) = Drawn(s, c, s.cursor_y, Col(s)) /\ KeepsText(s, c) /\ CellsOf(s, c) = g
  BY <1>4 DEF Draws
<1>6. c \in [Bytes -> Char]
  BY <1>5 DEF KeepsText
<1> DEFINE y0 == s.screen_y + 0
           u == Drawn(s, c, y0, 0)
<1>7. CursorAt(s, y0, 0) /\ CursorAt(s, s.cursor_y, Col(s))
  BY OnRow, Sizes, FirstColumn
<1> DEFINE e == Drawn(s, c, s.cursor_y, Col(s))
<1> HIDE DEF a, u, e, L, n, y0
<1>8. /\ u \in State
      /\ y0 \in Lines /\ y0 \in Nat /\ s.line[y0] \in Nat
      /\ u.buff = c /\ u.line = s.line /\ u.cursor_x = s.line[y0] + 0 /\ u.cursor_y = y0
      /\ u.screen_y = s.screen_y /\ u.roll_top = s.roll_top /\ u.roll_bot = s.roll_bot
      /\ u.save_x = s.save_x /\ u.save_y = s.save_y /\ u.bAltScreen = s.bAltScreen
      /\ u.bInsert = s.bInsert /\ u.bWraparound = s.bWraparound /\ u.bOriginMode = s.bOriginMode
  BY ONLY <1>6, <1>7, Good(s), DrawnState DEF u
<1>9. /\ e \in State
      /\ e.buff = c /\ e.line = s.line /\ e.cursor_x = s.line[s.cursor_y] + Col(s) /\ e.cursor_y = s.cursor_y
      /\ e.screen_y = s.screen_y /\ e.roll_top = s.roll_top /\ e.roll_bot = s.roll_bot
      /\ e.save_x = s.save_x /\ e.save_y = s.save_y /\ e.bAltScreen = s.bAltScreen
      /\ e.bInsert = s.bInsert /\ e.bWraparound = s.bWraparound /\ e.bOriginMode = s.bOriginMode
  BY ONLY <1>6, <1>7, Good(s), DrawnState DEF e
<1>10. /\ a \in State
       /\ a.buff = c /\ a.line = s.line /\ a.cursor_y = s.screen_y
       /\ a.screen_y = s.screen_y /\ a.roll_top = s.roll_top /\ a.roll_bot = s.roll_bot
       /\ a.save_x = s.save_x /\ a.save_y = s.save_y /\ a.bAltScreen = s.bAltScreen
       /\ a.bInsert = s.bInsert /\ a.bWraparound = s.bWraparound /\ a.bOriginMode = s.bOriginMode
  <2>1. a = [e EXCEPT !.cursor_y = s.screen_y]
    BY <1>5 DEF a, e
  <2> QED BY ONLY <2>1, <1>9, <1>1 DEF State
<1>11. y0 = s.screen_y
  BY ONLY <1>1 DEF y0
<1>12. Relaid(a, Row(s)) = Relaid(u, Row(s))
  <2> DEFINE k == Row(s)
             v == Relaid(a, k)
             w == Relaid(u, k)
  <2>1. k \in Nat /\ a.cursor_y \in Lines /\ u.cursor_y \in Lines
    BY <1>2, <1>8, <1>10, <1>11
  <2>2. LaidBuff(a, k) = LaidBuff(u, k) /\ LaidLine(a, k) = LaidLine(u, k)
    BY ONLY <1>8, <1>10, <1>11 DEF LaidBuff, LaidLine
  <2> HIDE DEF k, v, w
  <2>3. /\ v \in State
        /\ v.buff = LaidBuff(a, k) /\ v.line = LaidLine(a, k)
        /\ v.cursor_x = a.line[a.cursor_y] /\ v.cursor_y = a.cursor_y
        /\ v.screen_y = a.screen_y /\ v.roll_top = a.roll_top /\ v.roll_bot = a.roll_bot
        /\ v.save_x = a.save_x /\ v.save_y = a.save_y /\ v.bAltScreen = a.bAltScreen
        /\ v.bInsert = a.bInsert /\ v.bWraparound = a.bWraparound /\ v.bOriginMode = a.bOriginMode
    BY ONLY <1>10, <2>1, RelaidFields DEF v
  <2>4. /\ w \in State
        /\ w.buff = LaidBuff(u, k) /\ w.line = LaidLine(u, k)
        /\ w.cursor_x = u.line[u.cursor_y] /\ w.cursor_y = u.cursor_y
        /\ w.screen_y = u.screen_y /\ w.roll_top = u.roll_top /\ w.roll_bot = u.roll_bot
        /\ w.save_x = u.save_x /\ w.save_y = u.save_y /\ w.bAltScreen = u.bAltScreen
        /\ w.bInsert = u.bInsert /\ w.bWraparound = u.bWraparound /\ w.bOriginMode = u.bOriginMode
    BY ONLY <1>8, <2>1, RelaidFields DEF w
  <2>5. v = w
    BY ONLY <1>8, <1>10, <1>11, <2>2, <2>3, <2>4, SameFields
  <2> QED BY <2>5 DEF v, w, k
<1>13. screen_clear(s, 1) = At(BlankLines(a, Row(s)), a.cursor_y, 0)
  BY ClearIsLaid DEF a, L, n
<1>14. screen_clear(s, 1) = Relaid(a, Row(s))
  <2>1. /\ Row(s) \in Nat /\ a.cursor_y \in Lines /\ a.cursor_y + Row(s) + 1 \in Lines
        /\ a.cursor_y + Row(s) < a.screen_y + size_y
    BY <1>1, <1>2, <1>10, Sizes, LineNumbers
  <2> QED BY <1>10, <1>13, <2>1, LaidBack
<1> DEFINE t == Relaid(Drawn(s, c, s.screen_y + 0, 0), Row(s))
<1>15. Good(t) /\ Kept(s, t) /\ Shows(s, t, 0, 0, RowsErased(CellsOf(s, c), 0, 0 + Row(s) - 1))
  <2>1. 0 \in 0..(size_y - 1) /\ 0 + Row(s) <= size_y /\ Row(s) \in Nat /\ 0 \in 0..size_x
    BY <1>2, Sizes
  <2> QED BY <1>5, <2>1, RelaidShows
<1>16. t = screen_clear(s, 1)
  BY <1>12, <1>14 DEF u, y0
<1>17. 0 + Row(s) - 1 = Row(s) - 1
  BY <1>2
<1> HIDE DEF t
<1> QED BY <1>5, <1>15, <1>16, <1>17 DEF g

\* and from the cursor in the first column
LEMMA EraseBelowShows ==
    ASSUME NEW s, Good(s), s.bAltScreen, Col(s) = 0
    PROVE  LET t == screen_clear(s, 0) IN
           /\ Good(t) /\ Kept(s, t)
           /\ Shows(s, t, Row(s), 0, RowsErased(CellsOf(s, s.buff), Row(s), size_y - 1))
<1> DEFINE n == End(s) - s.cursor_x
           a == buff_clear(s, s.cursor_x, n)
           q == Row(s)
           k == size_y - q
           g == [CellsOf(s, s.buff) EXCEPT ![Row(s)] = RowErased(@, 0, 0 + size_x - 1)]
<1>1. s \in State /\ s.cursor_y \in Nat /\ s.screen_y \in Nat /\ s.screen_y <= MaxLine /\ s.line[s.cursor_y] \in Nat
  BY GoodFacts DEF Base
<1>2. q \in 0..(size_y - 1) /\ s.cursor_y = s.screen_y + q /\ End(s) = s.line[s.cursor_y] + size_x
  BY RowFacts
<1>3. s.cursor_x = s.line[s.cursor_y] + 0 /\ n = size_x
  BY <1>1, <1>2, GoodFacts, Sizes
<1>4. Draws(s, a, s.cursor_y, Col(s), g)
  <2>1. 0 + size_x <= size_x /\ size_x \in Nat
    BY Sizes
  <2> DEFINE o == s.cursor_x
  <2>2. o = s.line[s.cursor_y] + 0
    BY <1>3
  <2> HIDE DEF o
  <2>3. Draws(s, buff_clear(s, o, size_x), s.cursor_y, Col(s), g)
    BY <2>1, <2>2, ErasedDraws
  <2> HIDE DEF n, g
  <2> QED BY <1>3, <2>3 DEF o
<1> HIDE DEF a, g
<1>5. PICK c : a = Drawn(s, c, s.cursor_y, Col(s)) /\ KeepsText(s, c) /\ CellsOf(s, c) = g
  BY <1>4 DEF Draws
<1>6. a = Drawn(s, c, s.screen_y + q, 0)
  BY <1>2, <1>5
<1>7. a \in State /\ a.cursor_y = s.cursor_y /\ a.screen_y = s.screen_y
  <2>1. c \in [Bytes -> Char]
    BY <1>5 DEF KeepsText
  <2>2. CursorAt(s, s.cursor_y, Col(s))
    BY FirstColumn
  <2> DEFINE e == Drawn(s, c, s.cursor_y, Col(s))
  <2>3. e \in State /\ e.cursor_y = s.cursor_y /\ e.screen_y = s.screen_y
    BY ONLY <2>1, <2>2, Good(s), DrawnState
  <2> QED BY <2>3, <1>5
<1>8. a.screen_y + size_y - a.cursor_y = k
  BY <1>1, <1>2, <1>7, Sizes
<1>9. screen_clear(s, 0) = At([BlankLines(a, k) EXCEPT !.screen_y = @ - 1], a.cursor_y, 0)
  BY <1>8 DEF screen_clear, a
<1>10. screen_clear(s, 0) = Relaid(a, k)
  <2>1. /\ k \in Nat /\ k > 0 /\ a.cursor_y \in Lines /\ a.cursor_y + k + 1 \in Lines
        /\ a.cursor_y + k = a.screen_y + size_y
    BY <1>1, <1>2, <1>7, Sizes, LineNumbers
  <2> QED BY <1>7, <1>9, <2>1, LaidBack
<1> DEFINE t == Relaid(Drawn(s, c, s.screen_y + q, 0), k)
<1>11. k \in Nat /\ q + k <= size_y /\ q + k - 1 = size_y - 1 /\ 0 \in 0..size_x
  BY <1>2, Sizes
<1>12. Good(t) /\ Kept(s, t) /\ Shows(s, t, q, 0, RowsErased(CellsOf(s, c), q, q + k - 1))
  <2> HIDE DEF q, k
  <2> QED BY <1>2, <1>5, <1>11, RelaidShows
<1>13. t = screen_clear(s, 0)
  BY <1>6, <1>10
<1>14. RowsErased(CellsOf(s, c), q, q + k - 1) = RowsErased(CellsOf(s, s.buff), q, size_y - 1)
  <2>1. ASSUME NEW r \in 0..(size_y - 1), r \notin q..(size_y - 1) PROVE g[r] = CellsOf(s, s.buff)[r]
    <3>1. r # Row(s)
      BY <2>1, <1>2
    <3>2. CellsOf(s, s.buff) = [z \in 0..(size_y - 1) |-> CellsOf(s, s.buff)[z]]
      BY DEF CellsOf
    <3> QED BY <3>1, <3>2 DEF g
  <2> HIDE DEF q, k
  <2> QED BY <1>5, <1>11, <2>1 DEF RowsErased
<1> HIDE DEF t
<1> QED BY <1>12, <1>13, <1>14

----------------------------------------------------------------------------
(* Outside of the alternate screen *)

\* The cursor's line with the buffer b and e for its end.
Edited(s, b, e, x) ==
    [s EXCEPT !.buff = b, !.line = [@ EXCEPT ![s.cursor_y + 1] = e], !.cursor_x = s.line[s.cursor_y] + x]

\* The fields of a screen whose last line was edited.
LEMMA EditedState ==
    ASSUME NEW s, Good(s), NEW b \in [Bytes -> Char], NEW e \in Nat, NEW x \in 0..size_x
    PROVE  LET t == Edited(s, b, e, x) IN
           /\ t \in State
           /\ t.buff = b /\ t.cursor_x = s.line[s.cursor_y] + x /\ t.cursor_y = s.cursor_y
           /\ t.line = [s.line EXCEPT ![s.cursor_y + 1] = e]
           /\ t.screen_y = s.screen_y /\ t.roll_top = s.roll_top /\ t.roll_bot = s.roll_bot
           /\ t.save_x = s.save_x /\ t.save_y = s.save_y /\ t.bAltScreen = s.bAltScreen
           /\ t.bInsert = s.bInsert /\ t.bWraparound = s.bWraparound /\ t.bOriginMode = s.bOriginMode
<1> DEFINE t == Edited(s, b, e, x)
<1>1. /\ s \in State /\ s.line \in [Lines -> Nat] /\ s.line[s.cursor_y] \in Nat /\ s.cursor_y + 1 \in Lines
      /\ x \in Nat
  BY GoodFacts
<1> DEFINE l == [s.line EXCEPT ![s.cursor_y + 1] = e]
<1>2. l \in [Lines -> Nat] /\ l[s.cursor_y + 1] = e /\ \A i \in Lines : i # s.cursor_y + 1 => l[i] = s.line[i]
  BY <1>1
<1>3. s.line[s.cursor_y] + x \in Nat
  BY <1>1
<1>4. t = [s EXCEPT !.buff = b, !.line = l, !.cursor_x = s.line[s.cursor_y] + x]
  BY DEF Edited
<1> HIDE DEF l, t
<1>5. /\ t \in State
      /\ t.buff = b /\ t.cursor_x = s.line[s.cursor_y] + x /\ t.cursor_y = s.cursor_y /\ t.line = l
      /\ t.screen_y = s.screen_y /\ t.roll_top = s.roll_top /\ t.roll_bot = s.roll_bot
      /\ t.save_x = s.save_x /\ t.save_y = s.save_y /\ t.bAltScreen = s.bAltScreen
      /\ t.bInsert = s.bInsert /\ t.bWraparound = s.bWraparound /\ t.bOriginMode = s.bOriginMode
  BY ONLY <1>1, <1>2, <1>3, <1>4, b \in [Bytes -> Char] DEF State
<1> QED BY <1>2, <1>5 DEF t, l

\* An edit of the last line that leaves it no longer than a row.
LEMMA EditedGood ==
    ASSUME NEW s, Good(s), ~s.bAltScreen, NEW b, KeepsText(s, b), NEW e \in Nat,
           e <= s.line[s.cursor_y] + size_x, NEW x \in 0..size_x
    PROVE  Good(Edited(s, b, e, x)) /\ Kept(s, Edited(s, b, e, x)) /\ SameScreen(s, Edited(s, b, e, x))
<1> DEFINE t == Edited(s, b, e, x)
<1>1. b \in [Bytes -> Char]
  BY DEF KeepsText
<1> HIDE DEF t
<1>0. /\ t \in State
      /\ t.buff = b /\ t.cursor_x = s.line[s.cursor_y] + x /\ t.cursor_y = s.cursor_y
      /\ t.line = [s.line EXCEPT ![s.cursor_y + 1] = e]
      /\ t.screen_y = s.screen_y /\ t.roll_top = s.roll_top /\ t.roll_bot = s.roll_bot
      /\ t.save_x = s.save_x /\ t.save_y = s.save_y /\ t.bAltScreen = s.bAltScreen
  BY ONLY <1>1, Good(s), e \in Nat, x \in 0..size_x, EditedState DEF t
<1>2. /\ t \in State
      /\ t.buff = b /\ t.cursor_x = s.line[s.cursor_y] + x /\ t.cursor_y = s.cursor_y
      /\ t.line[s.cursor_y + 1] = e
      /\ \A i \in Lines : i # s.cursor_y + 1 => t.line[i] = s.line[i]
      /\ t.screen_y = s.screen_y /\ t.roll_top = s.roll_top /\ t.roll_bot = s.roll_bot
      /\ t.save_x = s.save_x /\ t.save_y = s.save_y /\ t.bAltScreen = s.bAltScreen
  BY <1>0, GoodFacts
<1>3. /\ s.cursor_y \in Nat /\ s.cursor_y \in 0..MaxLine /\ s.line[s.cursor_y] \in Nat
      /\ s.cursor_y \in Lines /\ s.cursor_y + 1 \in Lines /\ x \in Nat
  BY GoodFacts DEF Base
<1>4. ASSUME NEW i \in 0..s.cursor_y PROVE i \in Lines /\ t.line[i] = s.line[i]
  <2>1. i \in Lines /\ i # s.cursor_y + 1
    BY <1>3, Sizes, LineNumbers
  <2> QED BY <2>1, <1>2
<1>5. Base(t) = s.cursor_y /\ Base(s) = s.cursor_y
  BY <1>2 DEF Base
<1>6. TextAbove(t)
  <2>1. TextAbove(s) /\ s.cursor_y \in 0..s.cursor_y
    BY <1>3 DEF Good
  <2>2. t.line[s.cursor_y] = s.line[s.cursor_y]
    BY <2>1, <1>4
  <2>3. ASSUME NEW i \in 0..(s.cursor_y - 1) PROVE t.line[i] <= t.line[i + 1]
    <3>1. i \in 0..s.cursor_y /\ i + 1 \in 0..s.cursor_y
      BY <1>3
    <3>2. t.line[i] = s.line[i] /\ t.line[i + 1] = s.line[i + 1]
      BY <3>1, <1>4
    <3> QED BY <2>1, <3>2, <1>5 DEF TextAbove
  <2> QED BY ONLY <2>1, <2>2, <2>3, <1>5 DEF TextAbove
<1>7. t.line[s.cursor_y] = s.line[s.cursor_y]
  BY <1>3, <1>4
<1>8. Col(t) = x
  BY ONLY <1>2, <1>3, <1>7 DEF Col
<1>9. InText(t)
  <2>1. InText(s)
    BY DEF Good
  <2>2. ASSUME NEW i \in Lines, i > s.cursor_y + 1 PROVE t.line[i] = 0
    <3>1. i # s.cursor_y + 1
      BY <2>2, <1>3
    <3> QED BY <3>1, <2>1, <2>2, <1>2 DEF InText
  <2> QED BY ONLY <2>1, <2>2, <1>2, <1>7, e <= s.line[s.cursor_y] + size_x DEF InText, End
<1>10. OfScreen(t)
  BY <1>2 DEF Good, OfScreen
<1>11. Good(t)
  BY <1>2, <1>6, <1>8, <1>9, <1>10 DEF Good
<1>12. Kept(s, t)
  <2>1. Base(t) >= Base(s)
    BY <1>3, <1>5
  <2> QED BY <2>1, <1>2, <1>4, <1>5 DEF Kept, KeepsText
<1>13. SameScreen(s, t)
  BY <1>2 DEF SameScreen
<1> QED BY <1>11, <1>12, <1>13 DEF t

\* t is s with a new line at p, the cursor in its column x, and the text kept.
NewLine(s, t, p, x) ==
    /\ t \in State /\ t.bAltScreen = s.bAltScreen
    /\ t.roll_top = s.roll_top /\ t.roll_bot = s.roll_bot /\ t.save_x = s.save_x /\ t.save_y = s.save_y
    /\ t.cursor_y = s.cursor_y + 1 /\ t.screen_y <= t.cursor_y /\ t.cursor_x = p + x
    /\ \A i \in Lines : i <= s.cursor_y => t.line[i] = s.line[i]
    /\ t.line[s.cursor_y + 1] = p
    /\ t.line[s.cursor_y + 2] <= p + size_x
    /\ \A i \in Lines : i > s.cursor_y + 2 => t.line[i] = 0
    /\ KeepsText(s, t.buff)

\* A step to a new line, of which the one before is a row and LF at most.
LEMMA NewLineGood ==
    ASSUME NEW s, Good(s), ~s.bAltScreen, s.cursor_y < MaxLine, NEW p \in Nat,
           s.line[s.cursor_y] <= p, p <= s.line[s.cursor_y] + size_x + 1,
           NEW x \in 0..size_x, NEW t, NewLine(s, t, p, x)
    PROVE  Good(t) /\ Kept(s, t) /\ SameScreen(s, t)
<1>1. /\ t \in State /\ t.bAltScreen = s.bAltScreen /\ ~t.bAltScreen
      /\ t.roll_top = s.roll_top /\ t.roll_bot = s.roll_bot /\ t.save_x = s.save_x /\ t.save_y = s.save_y
      /\ t.cursor_y = s.cursor_y + 1 /\ t.screen_y <= t.cursor_y /\ t.cursor_x = p + x
      /\ t.line[s.cursor_y + 1] = p
      /\ t.line[s.cursor_y + 2] <= p + size_x
      /\ KeepsText(s, t.buff)
  BY DEF NewLine
<1>2. /\ s.cursor_y \in Nat /\ s.line[s.cursor_y] \in Nat
      /\ s.cursor_y \in Lines /\ s.cursor_y + 1 \in Lines /\ s.cursor_y + 2 \in Lines
  BY GoodFacts
<1>3. ASSUME NEW i \in 0..s.cursor_y PROVE i \in Lines /\ t.line[i] = s.line[i]
  <2>1. i \in Lines /\ i <= s.cursor_y
    BY <1>2, Sizes, LineNumbers
  <2> QED BY <2>1 DEF NewLine
<1>4. Base(t) = s.cursor_y + 1 /\ Base(s) = s.cursor_y
  BY <1>1 DEF Base
<1>5. TextAbove(s)
  BY DEF Good
<1>6. TextAbove(t)
  <2>1. ASSUME NEW i \in 0..s.cursor_y PROVE t.line[i] <= t.line[i + 1]
    <3>1. CASE i < s.cursor_y
      <4>1. i + 1 \in 0..s.cursor_y /\ i \in 0..(s.cursor_y - 1)
        BY <3>1, <1>2
      <4>2. t.line[i] = s.line[i] /\ t.line[i + 1] = s.line[i + 1]
        BY <4>1, <1>3
      <4> QED BY <4>1, <4>2, <1>4, <1>5 DEF TextAbove
    <3>2. CASE i = s.cursor_y
      <4>1. t.line[i] = s.line[s.cursor_y]
        BY <3>2, <1>3
      <4> QED BY <3>2, <4>1, <1>1
    <3> QED BY <3>1, <3>2, <1>2
  <2>2. s.line[s.cursor_y] <= s.cursor_y * (size_x + 1)
    BY <1>4, <1>5 DEF TextAbove
  <2>3. (s.cursor_y + 1) * (size_x + 1) = s.cursor_y * (size_x + 1) + (size_x + 1) /\ s.cursor_y * (size_x + 1) \in Nat
    <3>1. PICK c \in Nat : c = s.cursor_y
      BY <1>2
    <3>2. (c + 1) * (size_x + 1) = c * (size_x + 1) + (size_x + 1) /\ c * (size_x + 1) \in Nat
      BY ONLY c \in Nat, Sizes
    <3> QED BY ONLY <3>1, <3>2
  <2>4. p <= (s.cursor_y + 1) * (size_x + 1)
    <3>1. PICK m \in Nat : m = s.cursor_y * (size_x + 1)
      BY <2>3
    <3> QED BY <2>2, <2>3, <3>1, <1>2, Sizes
  <2>5. s.cursor_y + 1 <= MaxLine /\ (s.cursor_y + 1) - 1 = s.cursor_y
    BY <1>2, Sizes
  <2> QED BY ONLY <2>1, <2>4, <2>5, <1>1, <1>4 DEF TextAbove
<1>7. Col(t) = x /\ x \in 0..size_x
  BY <1>1, Sizes DEF Col
<1>8. InText(t)
  <2>1. ASSUME NEW i \in Lines, i > s.cursor_y + 1 + 1 PROVE t.line[i] = 0
    <3>1. i > s.cursor_y + 2
      BY <2>1, <1>2
    <3> QED BY <3>1 DEF NewLine
  <2>2. s.cursor_y + 1 + 1 = s.cursor_y + 2
    BY <1>2
  <2> QED BY ONLY <2>1, <2>2, <1>1 DEF InText, End
<1>9. OfScreen(t)
  BY <1>1 DEF Good, OfScreen
<1>10. Good(t)
  BY <1>1, <1>6, <1>7, <1>8, <1>9 DEF Good
<1>11. Kept(s, t)
  <2>1. Base(t) >= Base(s)
    BY <1>2, <1>4
  <2>2. \A i \in Bytes : i < s.line[Base(s)] => t.buff[i] = s.buff[i]
    BY <1>1 DEF KeepsText
  <2> QED BY <2>1, <2>2, <1>1, <1>3, <1>4 DEF Kept
<1>12. SameScreen(s, t)
  BY <1>1 DEF SameScreen
<1> QED BY <1>10, <1>11, <1>12

\* Scrolling through the text
LEMMA ScrolledGood ==
    ASSUME NEW s, Good(s), ~s.bAltScreen, NEW v \in Nat, v <= s.cursor_y
    PROVE  Good([s EXCEPT !.screen_y = v])
           /\ Kept(s, [s EXCEPT !.screen_y = v]) /\ SameScreen(s, [s EXCEPT !.screen_y = v])
<1> DEFINE t == [s EXCEPT !.screen_y = v]
<1>1. s \in State
  BY GoodFacts
<1>2. /\ t \in State
      /\ t.buff = s.buff /\ t.line = s.line /\ t.cursor_x = s.cursor_x /\ t.cursor_y = s.cursor_y
      /\ t.screen_y = v /\ t.roll_top = s.roll_top /\ t.roll_bot = s.roll_bot
      /\ t.save_x = s.save_x /\ t.save_y = s.save_y /\ t.bAltScreen = s.bAltScreen
  BY <1>1 DEF State
<1> HIDE DEF t
<1>3. Base(t) = s.cursor_y /\ Base(s) = s.cursor_y /\ s.cursor_y \in Nat
  BY <1>2, GoodFacts DEF Base
<1>4. TextAbove(t) /\ OfScreen(t)
  <2>1. TextAbove(s) /\ OfScreen(s)
    BY DEF Good
  <2> QED BY ONLY <2>1, <1>2, <1>3 DEF TextAbove, OfScreen
<1>5. InText(t)
  <2>1. InText(s)
    BY DEF Good
  <2> QED BY ONLY <2>1, <1>2, v <= s.cursor_y DEF InText, End
<1>6. Col(t) \in 0..size_x
  BY <1>2 DEF Good, Col
<1>7. Good(t)
  BY <1>2, <1>4, <1>5, <1>6 DEF Good
<1>8. Kept(s, t)
  BY <1>2, <1>3 DEF Kept
<1>9. SameScreen(s, t)
  BY <1>2 DEF SameScreen
<1> QED BY <1>7, <1>8, <1>9 DEF t

\* The cursor's line, which is the last
LEMMA LastLine ==
    ASSUME NEW s, Good(s), ~s.bAltScreen
    PROVE  /\ s.line[s.cursor_y] \in Nat /\ End(s) \in Nat /\ End(s) <= s.line[s.cursor_y] + size_x
           /\ s.cursor_x = s.line[s.cursor_y] + Col(s) /\ Col(s) \in 0..size_x
           /\ s.line[s.cursor_y + 2] = 0 /\ Base(s) = s.cursor_y /\ s.screen_y <= s.cursor_y
           /\ \A i \in Lines : i > s.cursor_y + 1 => s.line[i] = 0
           /\ \A i \in s.line[s.cursor_y]..(s.line[s.cursor_y] + 2 * size_x) : i \in Bytes
<1>1. /\ s.line[s.cursor_y] \in Nat /\ End(s) \in Nat /\ s.cursor_x = s.line[s.cursor_y] + Col(s)
      /\ Col(s) \in 0..size_x /\ s.cursor_y \in Nat /\ s.cursor_y + 2 \in Lines /\ s.cursor_y \in 0..MaxLine
  BY GoodFacts DEF Base
<1>2. InText(s) /\ TextAbove(s)
  BY DEF Good
<1>3. Base(s) = s.cursor_y
  BY DEF Base
<1>4. s.cursor_y + 2 > s.cursor_y + 1
  BY <1>1
<1>5. ASSUME NEW i \in s.line[s.cursor_y]..(s.line[s.cursor_y] + 2 * size_x) PROVE i \in Bytes
  <2>1. PICK p \in Nat : p = s.line[s.cursor_y]
    BY <1>1
  <2>2. p <= s.cursor_y * (size_x + 1)
    BY <1>2, <1>3, <2>1 DEF TextAbove
  <2>3. i - p \in 0..(2 * size_x) /\ p + (i - p) = i
    BY <2>1, Sizes
  <2>4. i - p \in 0..(size_y * size_x + size_x)
    <3>1. size_x <= size_y * size_x /\ size_y * size_x \in Nat
      BY Sizes
    <3> QED BY <2>3, <3>1, Sizes
  <2>5. p + (i - p) \in Bytes
    BY ONLY <1>1, <2>2, <2>4, p \in Nat, RoomForScreen
  <2> QED BY <2>3, <2>5
<1> QED BY <1>1, <1>2, <1>3, <1>4, <1>5 DEF InText

\* What the buffer keeps of the text when bytes of the cursor's line change
LEMMA KeptBefore ==
    ASSUME NEW s, Good(s), NEW b \in [Bytes -> Char], NEW o \in Int, s.line[Base(s)] <= o,
           \A i \in Bytes : i < o => b[i] = s.buff[i]
    PROVE  KeepsText(s, b)
<1>1. s.line[Base(s)] \in Nat
  BY GoodFacts
<1>2. ASSUME NEW i \in Bytes, i < s.line[Base(s)] PROVE b[i] = s.buff[i]
  <2>1. i < o
    BY <1>1, <1>2, BytesAre
  <2> QED BY <2>1
<1> QED BY <1>2 DEF KeepsText

\* A byte written behind the text above keeps that text.
LEMMA WrittenKeeps ==
    ASSUME NEW s, Good(s), NEW b, KeepsText(s, b), NEW o \in Int, s.line[Base(s)] <= o, NEW ch \in Char
    PROVE  KeepsText(s, [b EXCEPT ![o] = ch])
<1>1. s.line[Base(s)] \in Nat /\ b \in [Bytes -> Char]
  BY GoodFacts DEF KeepsText
<1>2. ASSUME NEW i \in Bytes, i < s.line[Base(s)] PROVE [b EXCEPT ![o] = ch][i] = s.buff[i]
  <2>1. i # o
    BY <1>1, <1>2, BytesAre
  <2>2. [b EXCEPT ![o] = ch][i] = b[i]
    BY <2>1, <1>1
  <2> QED BY <2>2, <1>2 DEF KeepsText
<1>3. [b EXCEPT ![o] = ch] \in [Bytes -> Char]
  BY <1>1
<1> QED BY <1>2, <1>3 DEF KeepsText

\* What next_line() makes of a, whose line is the last.
FreshLine(a, t) ==
    /\ t \in State
    /\ t.buff = a.buff /\ t.cursor_x = a.cursor_x /\ t.cursor_y = a.cursor_y + 1
    /\ t.screen_y <= t.cursor_y /\ t.roll_top = a.roll_top /\ t.roll_bot = a.roll_bot
    /\ t.save_x = a.save_x /\ t.save_y = a.save_y /\ t.bAltScreen = a.bAltScreen
    /\ t.line[a.cursor_y + 1] = a.cursor_x /\ t.line[a.cursor_y + 2] = a.cursor_x
    /\ \A i \in Lines : i <= a.cursor_y \/ i > a.cursor_y + 2 => t.line[i] = a.line[i]

\* next_line() behind the last line begins a line at the cursor.
LEMMA NextLineIs ==
    ASSUME NEW a \in State, a.cursor_y + 1 \in Lines, a.cursor_y + 2 \in Lines,
           a.line[a.cursor_y + 2] = 0, 0 < a.cursor_x, a.screen_y <= a.cursor_y
    PROVE  FreshLine(a, next_line(a))
<1> DEFINE p == a.cursor_x
           y == a.cursor_y + 1
           t == next_line(a)
           l == [[a.line EXCEPT ![y] = p] EXCEPT ![y + 1] = p]
           v == IF a.screen_y = y - size_y THEN a.screen_y + 1 ELSE a.screen_y
<1>1. /\ a.line \in [Lines -> Nat] /\ p \in Nat /\ 0 < p /\ a.cursor_y \in Nat /\ a.screen_y \in Nat
      /\ y \in Lines /\ y \in Nat /\ y # y + 1
  BY DEF State
<1>2. y + 1 = a.cursor_y + 2 /\ y + 1 \in Lines
  BY <1>1
<1>3. a.line[y + 1] = 0
  BY <1>2
<1>4. v \in Nat /\ v <= y
  BY <1>1
<1> HIDE DEF t
<1>5. t = [a EXCEPT !.cursor_y = y, !.line = l, !.screen_y = v]
  <2>1. t = [a EXCEPT !.cursor_y = y, !.line[y] = p, !.line[y + 1] = IF @ < p THEN p ELSE @,
                      !.screen_y = IF @ = y - size_y THEN @ + 1 ELSE @]
    BY DEF t, next_line
  <2> HIDE DEF y, p
  <2> QED BY ONLY <2>1, <1>1, <1>3, a \in State DEF State, l, v
<1>6. /\ l \in [Lines -> Nat] /\ l[y] = p /\ l[y + 1] = p
      /\ \A i \in Lines : i # y /\ i # y + 1 => l[i] = a.line[i]
  <2> HIDE DEF y, p
  <2> QED BY <1>1, <1>2
<1> HIDE DEF l, v
<1>7. /\ t \in State /\ t.buff = a.buff /\ t.line = l /\ t.cursor_x = p /\ t.cursor_y = y
      /\ t.screen_y = v /\ t.roll_top = a.roll_top /\ t.roll_bot = a.roll_bot
      /\ t.save_x = a.save_x /\ t.save_y = a.save_y /\ t.bAltScreen = a.bAltScreen
  <2> HIDE DEF y
  <2> QED BY ONLY <1>1, <1>4, <1>5, <1>6, a \in State DEF State
<1>8. ASSUME NEW i \in Lines, i <= a.cursor_y \/ i > a.cursor_y + 2 PROVE t.line[i] = a.line[i]
  <2>1. i # y /\ i # y + 1
    BY <1>1, <1>8 DEF Lines
  <2> QED BY <2>1, <1>6, <1>7
<1> QED BY <1>2, <1>4, <1>6, <1>7, <1>8 DEF FreshLine, t

\* A line feed behind the text
NextLineFeed(s) == next_line([s EXCEPT !.buff[End(s)] = LF, !.cursor_x = End(s) + 1])

\* A line feed outside of the alternate screen.
LEMMA LineFeedGood ==
    ASSUME NEW s, Good(s), ~s.bAltScreen, s.cursor_y < MaxLine, End(s) >= s.line[s.cursor_y]
    PROVE  Good(NextLineFeed(s)) /\ Kept(s, NextLineFeed(s)) /\ SameScreen(s, NextLineFeed(s))
<1> DEFINE p == End(s) + 1
           b == [s.buff EXCEPT ![End(s)] = LF]
           a == [s EXCEPT !.buff = b, !.cursor_x = p]
           t == next_line(a)
<1>1. /\ s.line[s.cursor_y] \in Nat /\ End(s) \in Nat /\ End(s) <= s.line[s.cursor_y] + size_x
      /\ s.cursor_x = s.line[s.cursor_y] + Col(s) /\ Col(s) \in 0..size_x
      /\ s.line[s.cursor_y + 2] = 0 /\ Base(s) = s.cursor_y /\ s.screen_y <= s.cursor_y
      /\ \A i \in Lines : i > s.cursor_y + 1 => s.line[i] = 0
  BY LastLine
<1>2. /\ s \in State /\ s.cursor_y \in Nat /\ s.screen_y \in Nat /\ s.line \in [Lines -> Nat]
      /\ s.cursor_y \in Lines /\ s.cursor_y + 1 \in Lines /\ s.cursor_y + 2 \in Lines
  BY GoodFacts
<1>3. p \in Nat /\ s.line[s.cursor_y] <= p /\ p <= s.line[s.cursor_y] + size_x + 1 /\ 0 < p
      /\ s.line[Base(s)] <= End(s)
  BY <1>1, Sizes
<1>4. KeepsText(s, b)
  BY <1>1, <1>3, SameText, WrittenKeeps, BlankIsChar
<1>5. NextLineFeed(s) = t
  <2>1. [s EXCEPT !.buff[End(s)] = LF, !.cursor_x = End(s) + 1] = a
    OBVIOUS
  <2> QED BY <2>1 DEF NextLineFeed
<1>6. b \in [Bytes -> Char]
  BY <1>4 DEF KeepsText
<1> HIDE DEF a, b, p, t
<1>7. /\ a \in State /\ a.buff = b /\ a.line = s.line /\ a.cursor_x = p /\ a.cursor_y = s.cursor_y
      /\ a.screen_y = s.screen_y /\ a.roll_top = s.roll_top /\ a.roll_bot = s.roll_bot
      /\ a.save_x = s.save_x /\ a.save_y = s.save_y /\ a.bAltScreen = s.bAltScreen
  BY ONLY <1>2, <1>3, <1>6 DEF a, State
<1>8. FreshLine(a, t)
  BY <1>1, <1>2, <1>3, <1>7, NextLineIs DEF t
<1>9. NewLine(s, t, p, 0) /\ 0 \in 0..size_x
  <2>1. ASSUME NEW i \in Lines, i > s.cursor_y + 2 PROVE t.line[i] = 0
    <3>1. i > s.cursor_y + 1
      BY <2>1, <1>2 DEF Lines
    <3>2. t.line[i] = s.line[i]
      BY <2>1, <1>7, <1>8 DEF FreshLine
    <3> QED BY <3>1, <3>2, <1>1
  <2>2. \A i \in Lines : i <= s.cursor_y => t.line[i] = s.line[i]
    BY <1>7, <1>8 DEF FreshLine
  <2>3. /\ t \in State /\ t.buff = b /\ t.cursor_x = p /\ t.cursor_y = s.cursor_y + 1
        /\ t.screen_y <= t.cursor_y /\ t.roll_top = s.roll_top /\ t.roll_bot = s.roll_bot
        /\ t.save_x = s.save_x /\ t.save_y = s.save_y /\ t.bAltScreen = s.bAltScreen
        /\ t.line[s.cursor_y + 1] = p /\ t.line[s.cursor_y + 2] = p
    BY <1>7, <1>8 DEF FreshLine
  <2>4. p + 0 = p /\ p <= p + size_x /\ 0 \in 0..size_x
    BY <1>3, Sizes
  <2> QED BY <2>1, <2>2, <2>3, <2>4, <1>4 DEF NewLine
<1>10. Good(t) /\ Kept(s, t) /\ SameScreen(s, t)
  BY <1>3, <1>9, NewLineGood
<1> QED BY <1>5, <1>10

\* ESC [ n @ behind the last character, which makes the line longer
LEMMA SpacesAtEnd ==
    ASSUME NEW s, Good(s), ~s.bAltScreen, s.cursor_x = End(s), NEW n \in Nat, n >= 1, Col(s) + n <= size_x
    PROVE  \E b : KeepsText(s, b) /\ InsertSpaces(s, n) = Edited(s, b, End(s) + n, Col(s))
<1> DEFINE L == s.line[s.cursor_y]
           q == End(s) - n - 1
           moved == MoveBytes(s, Descending(q, s.cursor_x), n)
           longer == Min({End(s) + n, L + size_x})
<1>1. /\ L \in Nat /\ End(s) \in Nat /\ s.cursor_x = L + Col(s) /\ Col(s) \in 0..size_x /\ Base(s) = s.cursor_y
  BY LastLine
<1>2. s \in State /\ s.buff \in [Bytes -> Char] /\ s.line \in [Lines -> Nat]
  BY GoodFacts
<1>3. longer = End(s) + n
  <2>1. End(s) + n \in Int /\ L + size_x \in Int /\ End(s) + n <= L + size_x
    BY <1>1, Sizes
  <2> DEFINE a == End(s) + n
             z == L + size_x
  <2> HIDE DEF a, z
  <2>2. Min({a, z}) = IF a <= z THEN a ELSE z
    BY <2>1, MinOfTwo DEF a, z
  <2> QED BY <2>1, <2>2 DEF a, z
<1>4. PICK c \in [Bytes -> Char] :
        /\ moved = [s EXCEPT !.buff = c]
        /\ \A i \in Bytes : c[i] = IF i \in (s.cursor_x + n)..(q + n) THEN s.buff[i - n] ELSE s.buff[i]
  <2>1. s.cursor_x \in Int /\ q \in Int
    BY <1>1
  <2>2. \A i \in s.cursor_x..q : i \in Bytes
    BY <1>1
  <2> HIDE DEF q
  <2> QED BY <2>1, <2>2, <1>2, MovedOn
<1> DEFINE b == Cleared(c, s.cursor_x, n)
<1>5. c = s.buff
  <2>1. \A i \in Bytes : c[i] = s.buff[i]
    <3> SUFFICES ASSUME NEW i \in Bytes PROVE c[i] = s.buff[i]
      OBVIOUS
    <3>1. ~(i \in (s.cursor_x + n)..(q + n))
      BY <1>1, BytesAre
    <3> QED BY <3>1, <1>4
  <2> QED BY <2>1, <1>2
<1>6. KeepsText(s, b)
  <2>1. s.cursor_x \in Int /\ n \in Int /\ s.line[Base(s)] <= s.cursor_x
    BY <1>1
  <2>2. KeepsText(s, c)
    BY <1>5, SameText
  <2> QED BY ONLY <2>1, <2>2, Good(s), ClearKeeps
<1>7. InsertSpaces(s, n) = Edited(s, b, End(s) + n, Col(s))
  <2>1. moved.bAltScreen = FALSE /\ s.bAltScreen = FALSE
    BY <1>2, <1>4 DEF State
  <2>2. InsertSpaces(s, n) = buff_clear([moved EXCEPT !.line[s.cursor_y + 1] = longer], s.cursor_x, n)
    BY DEF InsertSpaces
  <2> HIDE DEF longer, moved
  <2> DEFINE e == [moved EXCEPT !.line[s.cursor_y + 1] = longer]
  <2>3. e = [s EXCEPT !.buff = c, !.line = [@ EXCEPT ![s.cursor_y + 1] = End(s) + n]]
    BY ONLY <1>2, <1>3, <1>4 DEF State
  <2> HIDE DEF e
  <2>4. e.buff = c
    BY ONLY <2>3, <1>2 DEF State
  <2>5. buff_clear(e, s.cursor_x, n) = [e EXCEPT !.buff = b]
    BY <2>4, ClearIs
  <2>6. Edited(s, b, End(s) + n, Col(s))
          = [s EXCEPT !.buff = b, !.line = [@ EXCEPT ![s.cursor_y + 1] = End(s) + n], !.cursor_x = s.cursor_x]
    BY <1>1 DEF Edited
  <2> HIDE DEF b
  <2>7. [e EXCEPT !.buff = b] = Edited(s, b, End(s) + n, Col(s))
    BY ONLY <2>3, <2>6, <1>2 DEF State
  <2> QED BY <2>2, <2>5, <2>7 DEF e
<1> HIDE DEF b
<1> QED BY <1>6, <1>7

\* ESC [ n P, which makes it shorter
LEMMA DeletedInText ==
    ASSUME NEW s, Good(s), ~s.bAltScreen, NEW n \in Nat, n >= 1, s.cursor_x + n <= End(s)
    PROVE  \E b, e : /\ KeepsText(s, b) /\ e \in Nat /\ e <= s.line[s.cursor_y] + size_x
                     /\ [DCH(s, n) EXCEPT !.line[DCH(s, n).cursor_y + 1] =
                           Max({@ - n, DCH(s, n).line[DCH(s, n).cursor_y]})] = Edited(s, b, e, Col(s))
                     /\ DCH(s, n).bAltScreen = s.bAltScreen
<1> DEFINE L == s.line[s.cursor_y]
           p == s.cursor_x + n
           q == End(s) - 1
           moved == MoveBytes(s, Ascending(p, q), -n)
           e == Max({End(s) - n, L})
<1>1. /\ L \in Nat /\ End(s) \in Nat /\ End(s) <= L + size_x /\ s.cursor_x = L + Col(s) /\ Col(s) \in 0..size_x
      /\ Base(s) = s.cursor_y
      /\ \A i \in L..(L + 2 * size_x) : i \in Bytes
  BY LastLine
<1>2. s \in State /\ s.buff \in [Bytes -> Char] /\ s.line \in [Lines -> Nat]
      /\ s.cursor_y \in Lines /\ s.cursor_y + 1 \in Lines
  BY GoodFacts
<1>3. e = End(s) - n /\ e \in Nat /\ e <= L + size_x
  <2>1. End(s) - n \in Int /\ L \in Int /\ End(s) - n >= L
    BY <1>1
  <2>2. e = IF End(s) - n >= L THEN End(s) - n ELSE L
    <3> DEFINE a == End(s) - n
    <3>1. a \in Int
      BY <2>1
    <3> HIDE DEF a, L
    <3> QED BY <2>1, <3>1, MaxOfTwo DEF a
  <2> QED BY <2>1, <2>2, <1>1, Sizes
<1>4. PICK c \in [Bytes -> Char] :
        /\ moved = [s EXCEPT !.buff = c]
        /\ \A i \in Bytes : c[i] = IF i \in (p - n)..(q - n) THEN s.buff[i + n] ELSE s.buff[i]
  <2>1. p \in Int /\ q \in Int
    BY <1>1
  <2>2. \A i \in p..q : i \in Bytes
    <3> SUFFICES ASSUME NEW i \in p..q PROVE i \in L..(L + 2 * size_x)
      BY <1>1
    <3> QED BY <1>1, Sizes
  <2> HIDE DEF p, q
  <2> QED BY <2>1, <2>2, <1>2, MovedBack
<1> DEFINE o == End(s) - n
           b == Cleared(c, o, n)
<1>5. KeepsText(s, b)
  <2>1. o \in Int /\ n \in Int /\ s.line[Base(s)] <= o /\ s.cursor_x \in Int /\ s.line[Base(s)] <= s.cursor_x
    BY <1>1
  <2>2. \A i \in Bytes : i < s.cursor_x => c[i] = s.buff[i]
    <3> SUFFICES ASSUME NEW i \in Bytes, i < s.cursor_x PROVE c[i] = s.buff[i]
      OBVIOUS
    <3>1. ~(i \in (p - n)..(q - n))
      BY <1>1, BytesAre
    <3> QED BY <3>1, <1>4
  <2>3. KeepsText(s, c)
    BY <2>1, <2>2, KeptBefore
  <2> QED BY ONLY <2>1, <2>3, Good(s), ClearKeeps
<1>6. DCH(s, n) = [s EXCEPT !.buff = b]
  <2>1. DCH(s, n) = buff_clear(moved, o, n)
    BY DEF DCH
  <2>2. moved.buff = c
    BY <1>2, <1>4 DEF State
  <2>3. buff_clear(moved, o, n) = [moved EXCEPT !.buff = b]
    BY <2>2, ClearIs
  <2> HIDE DEF moved, b
  <2> QED BY <2>1, <2>3, <1>2, <1>4 DEF moved, State
<1> DEFINE d == DCH(s, n)
<1> HIDE DEF b, d
<1>7. d.cursor_y = s.cursor_y /\ d.line = s.line /\ d.bAltScreen = s.bAltScreen
  BY ONLY <1>2, <1>6 DEF State, d
<1>8. [d EXCEPT !.line[d.cursor_y + 1] = Max({@ - n, d.line[d.cursor_y]})]
        = [d EXCEPT !.line = [s.line EXCEPT ![s.cursor_y + 1] = e]]
  <2>1. d.line[d.cursor_y + 1] - n = End(s) - n /\ d.line[d.cursor_y] = L
    BY ONLY <1>7 DEF End
  <2>2. Max({d.line[d.cursor_y + 1] - n, d.line[d.cursor_y]}) = e
    BY <2>1
  <2> HIDE DEF e
  <2> QED BY ONLY <2>2, <1>7
<1>9. [d EXCEPT !.line = [s.line EXCEPT ![s.cursor_y + 1] = e]] = Edited(s, b, e, Col(s))
  <2>1. Edited(s, b, e, Col(s))
          = [s EXCEPT !.buff = b, !.line = [@ EXCEPT ![s.cursor_y + 1] = e], !.cursor_x = s.cursor_x]
    BY <1>1 DEF Edited
  <2> HIDE DEF e
  <2> QED BY ONLY <2>1, <1>2, <1>6 DEF State, d
<1> HIDE DEF e
<1> QED BY <1>3, <1>5, <1>7, <1>8, <1>9 DEF d

\* A character behind the text is a new end of the cursor's line, or the first
\* of a new one.
LEMMA WrittenInLine ==
    ASSUME NEW s, Good(s), ~s.bAltScreen, NEW b, KeepsText(s, b), NEW e \in Nat,
           e <= s.line[s.cursor_y] + size_x, NEW x \in 0..(size_x - 1), NEW ch \in Char
    PROVE  Good(Written(Edited(s, b, e, x), ch))
           /\ Kept(s, Written(Edited(s, b, e, x), ch)) /\ SameScreen(s, Written(Edited(s, b, e, x), ch))
<1> DEFINE L == s.line[s.cursor_y]
           u == Edited(s, b, e, x)
           d == [b EXCEPT ![L + x] = ch]
           f == IF e < L + x + 1 THEN L + x + 1 ELSE e
           v == Written(u, ch)
<1>1. L \in Nat /\ Base(s) = s.cursor_y
  BY LastLine
<1>2. b \in [Bytes -> Char] /\ x \in 0..size_x /\ s.line \in [Lines -> Nat] /\ s.cursor_y + 1 \in Lines /\ s \in State
  BY GoodFacts, Sizes DEF KeepsText
<1>3. KeepsText(s, d)
  <2>1. L + x \in Int /\ s.line[Base(s)] <= L + x
    BY <1>1
  <2> QED BY <2>1, WrittenKeeps
<1>4. f \in Nat /\ f <= L + size_x /\ x + 1 \in 0..size_x
  BY <1>1, Sizes
<1> HIDE DEF u
<1>5. /\ u \in State
      /\ u.buff = b /\ u.cursor_x = L + x /\ u.cursor_y = s.cursor_y
      /\ u.line = [s.line EXCEPT ![s.cursor_y + 1] = e]
      /\ u.screen_y = s.screen_y /\ u.roll_top = s.roll_top /\ u.roll_bot = s.roll_bot
      /\ u.save_x = s.save_x /\ u.save_y = s.save_y /\ u.bAltScreen = s.bAltScreen
      /\ u.bInsert = s.bInsert /\ u.bWraparound = s.bWraparound /\ u.bOriginMode = s.bOriginMode
  BY ONLY <1>2, Good(s), e \in Nat, EditedState DEF u
<1>6. v = [u EXCEPT !.buff = d, !.cursor_x = L + x + 1, !.line = [@ EXCEPT ![s.cursor_y + 1] = f]]
  <2>1. u.line[u.cursor_y + 1] = e
    BY <1>2, <1>5
  <2>2. (IF u.line[u.cursor_y + 1] < u.cursor_x + 1 THEN u.cursor_x + 1 ELSE u.line[u.cursor_y + 1]) = f
    BY <2>1, <1>5
  <2>3. v = [u EXCEPT !.buff = [@ EXCEPT ![u.cursor_x] = ch], !.cursor_x = @ + 1,
                      !.line = [@ EXCEPT ![u.cursor_y + 1] =
                                  IF u.line[u.cursor_y + 1] < u.cursor_x + 1 THEN u.cursor_x + 1
                                  ELSE u.line[u.cursor_y + 1]]]
    BY DEF Written
  <2> HIDE DEF f, v
  <2> QED BY ONLY <2>2, <2>3, <1>5
<1>7. [[s.line EXCEPT ![s.cursor_y + 1] = e] EXCEPT ![s.cursor_y + 1] = f] = [s.line EXCEPT ![s.cursor_y + 1] = f]
  BY <1>2
<1>8. v = Edited(s, d, f, x + 1)
  <2>1. L + (x + 1) = L + x + 1
    BY <1>1
  <2>2. u = [s EXCEPT !.buff = b, !.line = [s.line EXCEPT ![s.cursor_y + 1] = e], !.cursor_x = L + x]
    BY DEF u, Edited
  <2>3. Edited(s, d, f, x + 1)
          = [s EXCEPT !.buff = d, !.line = [s.line EXCEPT ![s.cursor_y + 1] = f], !.cursor_x = L + x + 1]
    BY <2>1 DEF Edited
  <2>4. v = [u EXCEPT !.buff = d, !.cursor_x = L + x + 1, !.line = [s.line EXCEPT ![s.cursor_y + 1] = f]]
    BY <1>5, <1>6, <1>7
  <2> DEFINE l == [s.line EXCEPT ![s.cursor_y + 1] = f]
             k == [s.line EXCEPT ![s.cursor_y + 1] = e]
             o == L + x + 1
             m == L + x
  <2> HIDE DEF v, d, f, l, k, o, m
  <2> QED BY ONLY <2>2, <2>3, <2>4, <1>2 DEF State, l, k, o, m
<1> HIDE DEF v, d, f
<1>9. Good(Edited(s, d, f, x + 1)) /\ Kept(s, Edited(s, d, f, x + 1)) /\ SameScreen(s, Edited(s, d, f, x + 1))
  BY <1>3, <1>4, EditedGood
<1> QED BY <1>8, <1>9 DEF v, u

\* s is what Edited() makes of its own buffer, end and cursor.
LEMMA AsEdited ==
    ASSUME NEW s, Good(s), ~s.bAltScreen
    PROVE  /\ s = Edited(s, s.buff, End(s), Col(s))
           /\ Col(s) = size_x => [s EXCEPT !.cursor_x = @ - 1] = Edited(s, s.buff, End(s), size_x - 1)
<1>1. s \in State /\ s.line \in [Lines -> Nat] /\ s.cursor_x = s.line[s.cursor_y] + Col(s) /\ s.line[s.cursor_y] \in Nat
  BY GoodFacts
<1>2. [s.line EXCEPT ![s.cursor_y + 1] = End(s)] = s.line
  BY <1>1 DEF End
<1>3. [s EXCEPT !.line = [@ EXCEPT ![s.cursor_y + 1] = End(s)]] = s
  BY ONLY <1>1, <1>2 DEF State
<1>4. \A x : Edited(s, s.buff, End(s), x) = [s EXCEPT !.cursor_x = s.line[s.cursor_y] + x]
  BY ONLY <1>1, <1>2 DEF Edited, State
<1>5. s = [s EXCEPT !.cursor_x = s.line[s.cursor_y] + Col(s)]
  BY ONLY <1>1 DEF State
<1>6. ASSUME Col(s) = size_x PROVE s.cursor_x - 1 = s.line[s.cursor_y] + (size_x - 1)
  BY <1>1, <1>6, Sizes
<1> QED BY <1>4, <1>5, <1>6

\* In the next line, when the row is full
LEMMA WrittenInNextLine ==
    ASSUME NEW s, Good(s), ~s.bAltScreen, s.cursor_y < MaxLine, Col(s) = size_x, NEW ch \in Char
    PROVE  Good(Written(next_line(s), ch))
           /\ Kept(s, Written(next_line(s), ch)) /\ SameScreen(s, Written(next_line(s), ch))
<1> DEFINE p == s.cursor_x
           y == s.cursor_y + 1
           a == next_line(s)
           d == [s.buff EXCEPT ![p] = ch]
           t == Written(a, ch)
<1>1. /\ s.line[s.cursor_y] \in Nat /\ p = s.line[s.cursor_y] + size_x
      /\ s.line[s.cursor_y + 2] = 0 /\ Base(s) = s.cursor_y /\ s.screen_y <= s.cursor_y
      /\ \A i \in Lines : i > s.cursor_y + 1 => s.line[i] = 0
  BY LastLine
<1>2. /\ s \in State /\ s.cursor_y \in Nat /\ s.screen_y \in Nat /\ s.line \in [Lines -> Nat] /\ s.buff \in [Bytes -> Char]
      /\ s.cursor_y \in Lines /\ s.cursor_y + 1 \in Lines /\ s.cursor_y + 2 \in Lines
  BY GoodFacts
<1>3. p \in Nat /\ 0 < p /\ s.line[s.cursor_y] <= p /\ p <= s.line[s.cursor_y] + size_x + 1 /\ s.line[Base(s)] <= p
  BY <1>1, Sizes
<1>4. FreshLine(s, a)
  BY <1>1, <1>2, <1>3, NextLineIs
<1> HIDE DEF a
<1>5. /\ a \in State
      /\ a.buff = s.buff /\ a.cursor_x = p /\ a.cursor_y = y
      /\ a.screen_y <= a.cursor_y /\ a.roll_top = s.roll_top /\ a.roll_bot = s.roll_bot
      /\ a.save_x = s.save_x /\ a.save_y = s.save_y /\ a.bAltScreen = s.bAltScreen
      /\ a.line[s.cursor_y + 1] = p /\ a.line[s.cursor_y + 2] = p /\ a.line \in [Lines -> Nat]
      /\ \A i \in Lines : i <= s.cursor_y \/ i > s.cursor_y + 2 => a.line[i] = s.line[i]
  BY <1>4 DEF FreshLine, State
<1>6. KeepsText(s, d)
  BY <1>3, SameText, WrittenKeeps
<1> DEFINE l == [a.line EXCEPT ![y + 1] = p + 1]
<1>7. y + 1 = s.cursor_y + 2
  BY <1>2
<1>8. t = [a EXCEPT !.buff = d, !.cursor_x = p + 1, !.line = l]
  <2>1. a.line[a.cursor_y + 1] = p
    BY <1>5, <1>7
  <2>2. (IF a.line[a.cursor_y + 1] < a.cursor_x + 1 THEN a.cursor_x + 1 ELSE a.line[a.cursor_y + 1]) = p + 1
    BY <2>1, <1>3, <1>5
  <2>3. t = [a EXCEPT !.buff = [@ EXCEPT ![a.cursor_x] = ch], !.cursor_x = @ + 1,
                      !.line = [@ EXCEPT ![a.cursor_y + 1] =
                                  IF a.line[a.cursor_y + 1] < a.cursor_x + 1 THEN a.cursor_x + 1
                                  ELSE a.line[a.cursor_y + 1]]]
    BY DEF Written
  <2> HIDE DEF t, p, y
  <2> QED BY ONLY <2>2, <2>3, <1>5
<1>9. /\ l \in [Lines -> Nat] /\ l[s.cursor_y + 1] = p /\ l[s.cursor_y + 2] = p + 1
      /\ \A i \in Lines : i <= s.cursor_y \/ i > s.cursor_y + 2 => l[i] = s.line[i]
  <2>1. s.cursor_y + 1 # y + 1 /\ p + 1 \in Nat /\ y + 1 \in Lines
    BY <1>2, <1>3, <1>7
  <2>2. ASSUME NEW i \in Lines, i <= s.cursor_y \/ i > s.cursor_y + 2 PROVE l[i] = s.line[i]
    <3>1. i # y + 1
      BY <1>2, <1>7, <2>2 DEF Lines
    <3> HIDE DEF p, y
    <3> QED BY <2>2, <3>1, <1>5
  <2> HIDE DEF p, y
  <2> QED BY <2>1, <2>2, <1>2, <1>5, <1>7
<1> HIDE DEF t, l, d
<1>10. /\ t \in State
       /\ t.buff = d /\ t.cursor_x = p + 1 /\ t.cursor_y = s.cursor_y + 1 /\ t.line = l
       /\ t.screen_y = a.screen_y /\ t.roll_top = s.roll_top /\ t.roll_bot = s.roll_bot
       /\ t.save_x = s.save_x /\ t.save_y = s.save_y /\ t.bAltScreen = s.bAltScreen
  <2>1. d \in [Bytes -> Char]
    BY <1>6 DEF KeepsText
  <2>2. p + 1 \in Nat
    BY <1>3
  <2> HIDE DEF p
  <2> QED BY ONLY <2>1, <2>2, <1>5, <1>8, <1>9 DEF State
<1>11. NewLine(s, t, p, 1)
  <2>1. ASSUME NEW i \in Lines, i > s.cursor_y + 2 PROVE t.line[i] = 0
    <3>1. i > s.cursor_y + 1
      BY <2>1, <1>2 DEF Lines
    <3>2. t.line[i] = s.line[i]
      BY <2>1, <1>9, <1>10
    <3> QED BY <3>1, <3>2, <1>1
  <2>2. p + 1 <= p + size_x
    BY <1>3, Sizes
  <2>3. t.screen_y <= t.cursor_y
    BY <1>5, <1>10
  <2>4. \A i \in Lines : i <= s.cursor_y => t.line[i] = s.line[i]
    BY <1>9, <1>10
  <2> HIDE DEF p
  <2> QED BY ONLY <2>1, <2>2, <2>3, <2>4, <1>6, <1>9, <1>10, ~s.bAltScreen DEF NewLine
<1>12. 1 \in 0..size_x
  BY Sizes
<1>13. Good(t) /\ Kept(s, t) /\ SameScreen(s, t)
  <2> HIDE DEF p
  <2> QED BY <1>3, <1>11, <1>12, NewLineGood
<1> QED BY <1>13 DEF t, a

\* A character outside of the alternate screen, with its wrap.
LEMMA PutInText ==
    ASSUME NEW s, Good(s), ~s.bAltScreen, NEW ch \in Char,
           Col(s) = size_x /\ s.bWraparound => s.cursor_y < MaxLine,
           s.bInsert => Col(s) < size_x /\ s.cursor_x = End(s)
    PROVE  Good(Put(s, ch)) /\ Kept(s, Put(s, ch)) /\ SameScreen(s, Put(s, ch))
<1> DEFINE a == IF s.bInsert THEN InsertSpaces(s, 1) ELSE s
           b == IF Col(a) # size_x THEN a
                ELSE IF a.bWraparound THEN next_line(a) ELSE [a EXCEPT !.cursor_x = @ - 1]
<1>1. Put(s, ch) = Written(b, ch)
  BY DEF Put, Written
<1>2. /\ s.line[s.cursor_y] \in Nat /\ End(s) \in Nat /\ End(s) <= s.line[s.cursor_y] + size_x
      /\ s.cursor_x = s.line[s.cursor_y] + Col(s) /\ Col(s) \in 0..size_x
  BY LastLine
<1>3. KeepsText(s, s.buff)
  BY SameText
<1>4. CASE s.bInsert
  <2>1. Col(s) < size_x /\ s.cursor_x = End(s) /\ Col(s) \in 0..(size_x - 1) /\ Col(s) + 1 <= size_x
    BY <1>2, <1>4, Sizes
  <2>2. 1 \in Nat /\ 1 >= 1
    OBVIOUS
  <2>3. PICK c : KeepsText(s, c) /\ InsertSpaces(s, 1) = Edited(s, c, End(s) + 1, Col(s))
    BY <2>1, <2>2, SpacesAtEnd
  <2> DEFINE u == Edited(s, c, End(s) + 1, Col(s))
  <2>4. End(s) + 1 \in Nat /\ End(s) + 1 <= s.line[s.cursor_y] + size_x
    <3>1. PICK m \in Nat : m = End(s)
      BY <1>2
    <3>2. PICK p \in Nat : p = s.line[s.cursor_y]
      BY <1>2
    <3>3. m = p + Col(s)
      BY <3>1, <3>2, <1>2, <2>1
    <3>4. m + 1 \in Nat /\ m + 1 <= p + size_x
      BY ONLY <3>3, <1>2, <2>1, m \in Nat, p \in Nat, Sizes
    <3> QED BY ONLY <3>1, <3>2, <3>4
  <2>5. Col(u) = Col(s)
    <3>1. c \in [Bytes -> Char] /\ Col(s) \in 0..size_x
      BY <1>2, <2>3 DEF KeepsText
    <3> HIDE DEF u
    <3>2. u.cursor_x = s.line[s.cursor_y] + Col(s) /\ u.cursor_y = s.cursor_y
          /\ u.line = [s.line EXCEPT ![s.cursor_y + 1] = End(s) + 1]
      BY ONLY <3>1, <2>4, Good(s), EditedState DEF u
    <3>3. u.line[s.cursor_y] = s.line[s.cursor_y]
      <4>1. s.cursor_y # s.cursor_y + 1 /\ s.cursor_y \in Lines /\ s.line \in [Lines -> Nat]
        BY GoodFacts
      <4> QED BY <4>1, <3>2
    <3> QED BY <3>2, <3>3, <1>2 DEF Col
  <2>6. a = u
    BY <1>4, <2>3
  <2>7. b = u
    <3>1. Col(a) # size_x
      BY <2>1, <2>5, <2>6, Sizes
    <3> HIDE DEF a, u
    <3> QED BY <3>1, <2>6
  <2> HIDE DEF b
  <2>8. Good(Written(u, ch)) /\ Kept(s, Written(u, ch)) /\ SameScreen(s, Written(u, ch))
    BY <2>1, <2>3, <2>4, WrittenInLine
  <2> QED BY <1>1, <2>7, <2>8
<1>5. CASE ~s.bInsert
  <2>1. a = s
    BY <1>5
  <2>2. CASE Col(s) < size_x
    <3>1. b = s
      BY <2>1, <2>2, <1>2, Sizes
    <3>2. s = Edited(s, s.buff, End(s), Col(s))
      BY AsEdited
    <3>3. Col(s) \in 0..(size_x - 1)
      BY <1>2, <2>2, Sizes
    <3> HIDE DEF b
    <3> DEFINE v == Edited(s, s.buff, End(s), Col(s))
    <3>4. Good(Written(v, ch)) /\ Kept(s, Written(v, ch)) /\ SameScreen(s, Written(v, ch))
      BY <3>3, <1>2, <1>3, WrittenInLine
    <3>5. v = s
      BY <3>2
    <3> HIDE DEF v
    <3> QED BY <3>1, <3>4, <3>5, <1>1
  <2>3. CASE Col(s) = size_x /\ s.bWraparound
    <3>1. b = next_line(s)
      BY <2>1, <2>3
    <3> HIDE DEF b
    <3> QED BY <3>1, <2>3, <1>1, WrittenInNextLine
  <2>4. CASE Col(s) = size_x /\ ~s.bWraparound
    <3>1. b = [s EXCEPT !.cursor_x = @ - 1]
      BY <2>1, <2>4
    <3> HIDE DEF b
    <3> DEFINE v == Edited(s, s.buff, End(s), size_x - 1)
    <3>2. b = v
      BY <3>1, <2>4, AsEdited
    <3>3. size_x - 1 \in 0..(size_x - 1)
      BY Sizes
    <3>4. Good(Written(v, ch)) /\ Kept(s, Written(v, ch)) /\ SameScreen(s, Written(v, ch))
      BY <3>3, <1>2, <1>3, WrittenInLine
    <3> HIDE DEF v
    <3> QED BY <3>2, <3>4, <1>1
  <2> QED BY <1>2, <2>2, <2>3, <2>4, Sizes
<1> QED BY <1>4, <1>5

----------------------------------------------------------------------------
(* Entering and leaving the alternate screen *)

BlankCells == [r \in 0..(size_y - 1) |-> BlankRow]

\* The blank screen begins at the cursor's line.
LEMMA EnterShows ==
    ASSUME NEW s, Good(s), ~s.bAltScreen
    PROVE  LET t == screen_clear([s EXCEPT !.bAltScreen = TRUE], 2) IN
           /\ Good(t) /\ Kept(s, t)
           /\ Shows(s, t, 0, 0, BlankCells)
<1> DEFINE u == [s EXCEPT !.bAltScreen = TRUE]
           a == [u EXCEPT !.screen_y = u.cursor_y]
           y == s.cursor_y
           L == s.line[y]
           n == size_y
           t == Relaid(a, n)
           l == LaidLine(a, n)
           d == Cleared(s.buff, L, n * size_x)
<1>1. /\ s \in State /\ s.line \in [Lines -> Nat] /\ s.buff \in [Bytes -> Char] /\ L \in Nat
      /\ y \in Nat /\ y \in Lines /\ Base(s) = y /\ y <= MaxLine /\ n * size_x \in Nat /\ n \in Nat /\ n > 0
  BY GoodFacts, Sizes DEF Base
<1>2. /\ a \in State /\ a.buff = s.buff /\ a.line = s.line /\ a.cursor_x = s.cursor_x /\ a.cursor_y = y
      /\ a.screen_y = y /\ a.roll_top = s.roll_top /\ a.roll_bot = s.roll_bot
      /\ a.save_x = s.save_x /\ a.save_y = s.save_y /\ a.bAltScreen = TRUE
      /\ a.bInsert = s.bInsert /\ a.bWraparound = s.bWraparound /\ a.bOriginMode = s.bOriginMode
  BY ONLY <1>1 DEF State
<1> HIDE DEF a, u, t, l, d
<1>3. a.cursor_y + n + 1 \in Lines /\ a.cursor_y + n = a.screen_y + size_y /\ a.screen_y + size_y - a.cursor_y = n
  BY <1>1, <1>2, Sizes, LineNumbers
<1>4. screen_clear(u, 2) = t
  <2>1. screen_clear(u, 2) = At([BlankLines(a, a.screen_y + size_y - a.cursor_y)
                                   EXCEPT !.screen_y = @ - 1], a.cursor_y, 0)
    BY ClearIsLaid DEF a
  <2>2. screen_clear(u, 2) = At([BlankLines(a, n) EXCEPT !.screen_y = @ - 1], a.cursor_y, 0)
    BY <2>1, <1>3
  <2>3. a.cursor_y \in Lines
    BY <1>1, <1>2
  <2>4. At([BlankLines(a, n) EXCEPT !.screen_y = @ - 1], a.cursor_y, 0) = Relaid(a, n)
    <3> HIDE DEF n
    <3> QED BY <1>1, <1>2, <1>3, <2>3, LaidBack
  <2> QED BY <2>2, <2>4 DEF t
<1>5. /\ t \in State
      /\ t.buff = LaidBuff(a, n) /\ t.line = l /\ t.cursor_x = L /\ t.cursor_y = y
      /\ t.screen_y = y /\ t.roll_top = s.roll_top /\ t.roll_bot = s.roll_bot
      /\ t.save_x = s.save_x /\ t.save_y = s.save_y /\ t.bAltScreen
  <2>1. a.cursor_y \in Lines
    BY <1>1, <1>2
  <2> HIDE DEF n
  <2>2. /\ t \in State
        /\ t.buff = LaidBuff(a, n) /\ t.line = LaidLine(a, n)
        /\ t.cursor_x = a.line[a.cursor_y] /\ t.cursor_y = a.cursor_y
        /\ t.screen_y = a.screen_y /\ t.roll_top = a.roll_top /\ t.roll_bot = a.roll_bot
        /\ t.save_x = a.save_x /\ t.save_y = a.save_y /\ t.bAltScreen = a.bAltScreen
    BY ONLY <1>1, <1>2, <2>1, RelaidFields DEF t
  <2> QED BY ONLY <2>2, <1>2 DEF l
<1>6. t.buff = d
  BY <1>2, <1>5 DEF LaidBuff, Cleared, d
<1>7. Lines \subseteq Nat
  BY DEF Lines
<1>8. ASSUME NEW i \in Lines
      PROVE  l[i] = IF i \in (y + 1)..(y + n) THEN L + (i - y) * size_x
                    ELSE IF n > 0 /\ i = y + n + 1 /\ s.line[i] < L + n * size_x THEN L + n * size_x ELSE s.line[i]
  BY <1>2 DEF l, LaidLine
<1>9. ASSUME NEW i \in 0..y PROVE i \in Lines /\ l[i] = s.line[i]
  <2>1. i \in Lines
    BY <1>1, Sizes, LineNumbers
  <2>2. i \notin (y + 1)..(y + n) /\ i # y + n + 1
    BY <1>1
  <2> QED BY <2>1, <2>2, <1>8
<1>10. ASSUME NEW r \in 0..size_y PROVE y + r \in Lines /\ l[y + r] = L + r * size_x
  <2>1. y + r \in Lines
    BY <1>1, Sizes, LineNumbers
  <2>2. CASE r = 0
    <3>1. y + r = y /\ y \in 0..y /\ r * size_x = 0
      BY <2>2, <1>1, Sizes
    <3>2. l[y] = L
      BY <3>1, <1>9
    <3> QED BY <2>1, <3>1, <3>2, <1>1
  <2>3. CASE r # 0
    <3>1. y + r \in (y + 1)..(y + n) /\ (y + r) - y = r
      BY <2>3, <1>1, Sizes
    <3> QED BY <2>1, <3>1, <1>8
  <2> QED BY <2>2, <2>3
<1>11. ASSUME NEW i \in Lines, i > y + size_y + 1 PROVE l[i] = 0
  <2>1. i \notin (y + 1)..(y + n) /\ i # y + n + 1 /\ i > y + 1
    BY <1>11, <1>7, <1>1, Sizes
  <2>2. s.line[i] = 0
    BY <2>1, LastLine
  <2> QED BY <2>1, <2>2, <1>8
<1>12. Base(t) = y
  BY <1>5 DEF Base
<1>13. TextAbove(t)
  <2>1. TextAbove(s) /\ y \in 0..y
    BY <1>1 DEF Good
  <2>2. t.line[y] = s.line[y]
    BY <2>1, <1>5, <1>9
  <2>3. ASSUME NEW i \in 0..(y - 1) PROVE t.line[i] <= t.line[i + 1]
    <3>1. i \in 0..y /\ i + 1 \in 0..y
      BY <1>1
    <3>2. t.line[i] = s.line[i] /\ t.line[i + 1] = s.line[i + 1]
      BY <3>1, <1>5, <1>9
    <3> QED BY <2>1, <3>2, <1>1 DEF TextAbove
  <2> QED BY ONLY <2>1, <2>2, <2>3, <1>12, <1>1 DEF TextAbove
<1>14. Row(t) = 0 /\ Col(t) = 0
  <2>1. y \in 0..y
    BY <1>1
  <2>2. l[y] = L
    BY <2>1, <1>9
  <2> QED BY <2>2, <1>1, <1>5 DEF Row, Col
<1>15. OnScreen(t)
  <2>1. ASSUME NEW r \in 0..(size_y - 1) PROVE t.line[t.screen_y + r + 1] = t.line[t.screen_y + r] + size_x
    <3>1. r \in 0..size_y /\ r + 1 \in 0..size_y /\ y + r + 1 = y + (r + 1)
      BY <1>1, Sizes
    <3>2. l[y + r] = L + r * size_x /\ l[y + (r + 1)] = L + (r + 1) * size_x
      BY <3>1, <1>10
    <3>3. (r + 1) * size_x = r * size_x + size_x /\ r * size_x \in Nat
      BY Sizes
    <3>4. L + (r + 1) * size_x = L + r * size_x + size_x
      BY <3>3, <1>1, Sizes
    <3> QED BY <3>1, <3>2, <3>4, <1>5
  <2>2. 0 \in 0..(size_y - 1)
    BY Sizes
  <2> QED BY <2>1, <2>2, <1>5, <1>11, <1>14 DEF OnScreen
<1>16. OfScreen(t)
  BY <1>5 DEF Good, OfScreen
<1>17. Good(t)
  <2>1. Col(t) \in 0..size_x
    BY <1>14, Sizes
  <2> QED BY <2>1, <1>5, <1>13, <1>15, <1>16 DEF Good
<1>18. ASSUME NEW i \in Bytes, i < L PROVE d[i] = s.buff[i]
  <2>1. i \notin L..(L + n * size_x - 1)
    BY <1>1, <1>18, BytesAre
  <2> QED BY <2>1 DEF d, Cleared
<1>19. Kept(s, t)
  BY <1>1, <1>5, <1>6, <1>9, <1>12, <1>18 DEF Kept
<1>20. CellsOf(t, t.buff) = BlankCells
  <2>1. ASSUME NEW r \in 0..(size_y - 1), NEW c \in 0..(size_x - 1)
        PROVE  t.buff[t.line[t.screen_y + r] + c] = Blank
    <3>1. t.line[t.screen_y + r] + c \in Bytes
      BY <1>5, <1>17, Place, Sizes
    <3>2. r \in 0..size_y
      BY Sizes
    <3>3. t.line[t.screen_y + r] = L + r * size_x
      BY <3>2, <1>5, <1>10
    <3>4. /\ (r + 1) * size_x <= size_y * size_x /\ (r + 1) * size_x = r * size_x + size_x
          /\ r * size_x \in Nat /\ size_y * size_x \in Nat
      BY Sizes
    <3>5. PICK m \in Nat : m = r * size_x
      BY <3>4
    <3>6. PICK e \in Nat : e = size_y * size_x
      BY <3>4
    <3>7. L + m + c \in L..(L + e - 1)
      <4>1. m + size_x <= e
        BY ONLY <3>4, <3>5, <3>6
      <4>2. PICK p \in Nat : p = L
        BY <1>1
      <4>3. p + m + c \in p..(p + e - 1)
        BY ONLY <4>1, p \in Nat, m \in Nat, e \in Nat, c \in 0..(size_x - 1), Sizes
      <4> QED BY ONLY <4>2, <4>3
    <3>8. t.line[t.screen_y + r] + c \in L..(L + n * size_x - 1)
      BY <3>3, <3>5, <3>6, <3>7
    <3> QED BY <3>1, <3>8, <1>6 DEF d, Cleared
  <2> QED BY <2>1 DEF CellsOf, BlankCells, BlankRow
<1>21. Shows(s, t, 0, 0, BlankCells)
  BY <1>5, <1>14, <1>20 DEF Shows
<1> QED BY <1>4, <1>17, <1>19, <1>21 DEF u

\* Leaving it puts the cursor at the line it was entered on, and forgets the
\* lines after that.
Left(s) ==
    [s EXCEPT !.bAltScreen = FALSE,
              !.cursor_y = s.screen_y, !.cursor_x = s.line[s.screen_y],
              !.line = [i \in Lines |-> IF i \in (s.screen_y + 1)..(s.screen_y + size_y + 1) THEN 0 ELSE @[i]],
              !.screen_y = Max({s.screen_y - size_y + 1, 0})]

\* Leaving the alternate screen forgets its lines and keeps the text's.
LEMMA LeftGood ==
    ASSUME NEW s, Good(s), s.bAltScreen
    PROVE  LET t == Left(s) IN
           /\ Good(t) /\ Kept(s, t)
           /\ ~t.bAltScreen /\ t.roll_top = s.roll_top /\ t.roll_bot = s.roll_bot
<1> DEFINE t == Left(s)
           y == s.screen_y
           L == s.line[y]
           l == [i \in Lines |-> IF i \in (y + 1)..(y + size_y + 1) THEN 0 ELSE s.line[i]]
           v == Max({y - size_y + 1, 0})
<1>1. /\ s \in State /\ s.line \in [Lines -> Nat] /\ L \in Nat /\ y \in Nat /\ y \in Lines
      /\ y <= MaxLine /\ Base(s) = y /\ y + 1 \in Lines
  <2>1. s \in State /\ s.line \in [Lines -> Nat] /\ y \in Nat /\ y <= MaxLine /\ Base(s) = y
    BY GoodFacts DEF Base
  <2>2. y \in Lines /\ y + 1 \in Lines
    BY <2>1, Sizes, LineNumbers
  <2> QED BY <2>1, <2>2
<1>2. v \in Nat /\ v <= y
  <2> DEFINE a == y - size_y + 1
  <2>1. a \in Int /\ a <= y
    BY <1>1, Sizes
  <2> HIDE DEF a
  <2>2. Max({a, 0}) = IF a >= 0 THEN a ELSE 0
    BY <2>1, MaxOfTwo
  <2> QED BY <2>1, <2>2, <1>1 DEF a
<1>3. l \in [Lines -> Nat]
  BY <1>1
<1>4. t = [s EXCEPT !.bAltScreen = FALSE, !.cursor_y = y, !.cursor_x = L, !.line = l, !.screen_y = v]
  BY DEF Left
<1> HIDE DEF t, v
<1>5. Lines \subseteq Nat
  BY DEF Lines
<1>6. \A i \in Lines : i > y => l[i] = 0
  <2> SUFFICES ASSUME NEW i \in Lines, i > y PROVE l[i] = 0
    OBVIOUS
  <2>1. CASE i \in (y + 1)..(y + size_y + 1)
    BY <2>1
  <2>2. CASE i > y + size_y + 1
    <3>1. s.line[i] = 0
      BY <2>2 DEF Good, OnScreen
    <3> QED BY <3>1
  <2> QED BY <2>1, <2>2, <1>1, <1>5, Sizes
<1>7. \A i \in 0..y : i \in Lines /\ l[i] = s.line[i]
  <2> SUFFICES ASSUME NEW i \in 0..y PROVE i \in Lines /\ l[i] = s.line[i]
    OBVIOUS
  <2>1. i \in Lines
    BY <1>1, Sizes, LineNumbers
  <2>2. i \notin (y + 1)..(y + size_y + 1)
    BY <1>1
  <2> QED BY <2>1, <2>2
<1> HIDE DEF l
<1>8. /\ t \in State /\ t.buff = s.buff /\ t.line = l /\ t.cursor_x = L /\ t.cursor_y = y
      /\ t.screen_y = v /\ t.roll_top = s.roll_top /\ t.roll_bot = s.roll_bot
      /\ t.save_x = s.save_x /\ t.save_y = s.save_y /\ t.bAltScreen = FALSE
  BY ONLY <1>1, <1>2, <1>3, <1>4 DEF State
<1>9. Base(t) = y
  BY <1>8 DEF Base
<1>10. y \in 0..y
  BY <1>1
<1>11. TextAbove(t)
  <2>1. TextAbove(s)
    BY DEF Good
  <2>2. ASSUME NEW i \in 0..(y - 1) PROVE t.line[i] <= t.line[i + 1]
    <3>1. i \in 0..y /\ i + 1 \in 0..y
      BY <1>1
    <3>2. t.line[i] = s.line[i] /\ t.line[i + 1] = s.line[i + 1]
      BY <3>1, <1>7, <1>8
    <3> QED BY <2>1, <3>2, <1>1 DEF TextAbove
  <2>3. t.line[y] = L
    BY <1>7, <1>8, <1>10
  <2> QED BY <2>1, <2>2, <2>3, <1>1, <1>9 DEF TextAbove
<1>12. InText(t)
  <2>1. t.screen_y <= t.cursor_y
    BY <1>2, <1>8
  <2>2. \A i \in Lines : i > t.cursor_y + 1 => t.line[i] = 0
    <3> SUFFICES ASSUME NEW i \in Lines, i > y + 1 PROVE l[i] = 0
      BY <1>8
    <3>1. i > y
      BY <1>1, <1>5
    <3> QED BY <3>1, <1>6
  <2>3. End(t) <= t.line[t.cursor_y] + size_x
    <3>1. End(t) = 0
      BY <1>1, <1>6, <1>8 DEF End
    <3>2. t.line[t.cursor_y] = L
      BY <1>7, <1>8, <1>10
    <3> QED BY <3>1, <3>2, <1>1, Sizes
  <2> QED BY <2>1, <2>2, <2>3 DEF InText
<1>13. Col(t) \in 0..size_x
  <2>1. t.line[y] = L
    BY <1>7, <1>8, <1>10
  <2> QED BY <2>1, <1>1, <1>8, Sizes DEF Col
<1>14. OfScreen(t)
  BY <1>8 DEF Good, OfScreen
<1>15. Good(t)
  BY <1>8, <1>11, <1>12, <1>13, <1>14 DEF Good
<1>16. Kept(s, t)
  BY <1>1, <1>7, <1>8, <1>9 DEF Kept
<1> QED BY <1>8, <1>15, <1>16 DEF t

----------------------------------------------------------------------------
(* Every such step is one of Vt100Grid's *)

LEMMA ShowsNext ==
    ASSUME Good(scr), scr.bAltScreen, NEW r, NEW x, NEW g, Shows(scr, scr', r, x, g)
    PROVE  /\ scr'.bAltScreen /\ Shown' = g /\ Row(scr') = r /\ Col(scr') = x
           /\ scr'.roll_top = scr.roll_top /\ scr'.roll_bot = scr.roll_bot
           /\ Shown = CellsOf(scr, scr.buff)
           /\ Row(scr) \in 0..(size_y - 1) /\ Col(scr) \in 0..size_x
BY RowFacts, GoodFacts DEF Shows, Shown, CellsOf

\* The cursor moves.
LEMMA GridMoves ==
    ASSUME Good(scr), scr.bAltScreen, NEW r \in 0..(size_y - 1), NEW x \in 0..size_x,
           Shows(scr, scr', r, x, CellsOf(scr, scr.buff))
    PROVE  Grid!Next
<1>1. Grid!Move
  <2>1. /\ scr'.bAltScreen /\ Shown' = Shown /\ Row(scr') = r /\ Col(scr') = x
        /\ scr'.roll_top = scr.roll_top /\ scr'.roll_bot = scr.roll_bot
    BY ShowsNext
  <2> QED BY <2>1 DEF Grid!Move, Grid!Same, Grid!Row
<1> QED BY <1>1 DEF Grid!Next

\* A character is written.
LEMMA GridWrites ==
    ASSUME Good(scr), scr.bAltScreen, NEW ch \in Cells, Good(scr'),
           \/ /\ Col(scr) < size_x
              /\ \E insert \in BOOLEAN :
                   Shows(scr, scr', Row(scr), Col(scr) + 1,
                     CellSet(IF insert THEN [CellsOf(scr, scr.buff) EXCEPT ![Row(scr)] = RowInserted(@, Col(scr), 1)]
                                ELSE CellsOf(scr, scr.buff), Row(scr), Col(scr), ch))
           \/ /\ Col(scr) = size_x /\ Row(scr) < size_y - 1
              /\ Shows(scr, scr', Row(scr) + 1, 1, CellSet(CellsOf(scr, scr.buff), Row(scr) + 1, 0, ch))
           \/ /\ Col(scr) = size_x
              /\ Shows(scr, scr', Row(scr), size_x, CellSet(CellsOf(scr, scr.buff), Row(scr), size_x - 1, ch))
    PROVE  Grid!Next
<1>1. Grid!Character
  <2>1. CASE /\ Col(scr) < size_x
             /\ \E insert \in BOOLEAN :
                   Shows(scr, scr', Row(scr), Col(scr) + 1,
                     CellSet(IF insert THEN [CellsOf(scr, scr.buff) EXCEPT ![Row(scr)] = RowInserted(@, Col(scr), 1)]
                                ELSE CellsOf(scr, scr.buff), Row(scr), Col(scr), ch))
    <3>1. PICK insert \in BOOLEAN :
                   Shows(scr, scr', Row(scr), Col(scr) + 1,
                     CellSet(IF insert THEN [CellsOf(scr, scr.buff) EXCEPT ![Row(scr)] = RowInserted(@, Col(scr), 1)]
                                ELSE CellsOf(scr, scr.buff), Row(scr), Col(scr), ch))
      BY <2>1
    <3>2. /\ scr'.bAltScreen
          /\ Shown' = CellSet(IF insert THEN [Shown EXCEPT ![Row(scr)] = RowInserted(@, Col(scr), 1)]
                                 ELSE Shown, Row(scr), Col(scr), ch)
          /\ Row(scr') = Row(scr) /\ Col(scr') = Col(scr) + 1
          /\ scr'.roll_top = scr.roll_top /\ scr'.roll_bot = scr.roll_bot
      BY <3>1, ShowsNext
    <3>3. Grid!Inserted(1) = [Shown EXCEPT ![Row(scr)] = RowInserted(@, Col(scr), 1)]
      BY scr.bAltScreen DEF Grid!Inserted, RowInserted, Grid!Column
    <3> QED BY <3>2, <3>3, <2>1 DEF Grid!Character, Grid!Same, CellSet
  <2>2. CASE /\ Col(scr) = size_x /\ Row(scr) < size_y - 1
             /\ Shows(scr, scr', Row(scr) + 1, 1, CellSet(CellsOf(scr, scr.buff), Row(scr) + 1, 0, ch))
    <3>1. /\ scr'.bAltScreen /\ Shown' = CellSet(Shown, Row(scr) + 1, 0, ch)
          /\ Row(scr') = Row(scr) + 1 /\ Col(scr') = 1
          /\ scr'.roll_top = scr.roll_top /\ scr'.roll_bot = scr.roll_bot
      BY <2>2, ShowsNext
    <3> QED BY <3>1, <2>2 DEF Grid!Character, Grid!Same, CellSet
  <2>3. CASE /\ Col(scr) = size_x
             /\ Shows(scr, scr', Row(scr), size_x, CellSet(CellsOf(scr, scr.buff), Row(scr), size_x - 1, ch))
    <3>1. /\ scr'.bAltScreen /\ Shown' = CellSet(Shown, Row(scr), size_x - 1, ch)
          /\ Row(scr') = Row(scr) /\ Col(scr') = size_x
          /\ scr'.roll_top = scr.roll_top /\ scr'.roll_bot = scr.roll_bot
      BY <2>3, ShowsNext
    <3> QED BY <3>1, <2>3 DEF Grid!Character, Grid!Same, CellSet
  <2> QED BY <2>1, <2>2, <2>3
<1> QED BY <1>1 DEF Grid!Next

\* Lines are inserted or deleted.
LEMMA GridMovesLines ==
    ASSUME Good(scr), scr.bAltScreen, Row(scr) \in scr.roll_top..scr.roll_bot, NEW n \in Counts,
           \/ Shows(scr, scr', Row(scr), 0, UpBy(CellsOf(scr, scr.buff), Row(scr), scr.roll_bot, n))
           \/ Shows(scr, scr', Row(scr), 0, DownBy(CellsOf(scr, scr.buff), Row(scr), scr.roll_bot, n))
    PROVE  Grid!Next
<1>1. Grid!ScrolledUp(Row(scr), scr.roll_bot, n) = UpBy(Shown, Row(scr), scr.roll_bot, n)
  BY DEF Grid!ScrolledUp, UpBy, Grid!Row, Grid!BlankRow, BlankRow, Grid!Column
<1>2. Grid!ScrolledDown(Row(scr), scr.roll_bot, n) = DownBy(Shown, Row(scr), scr.roll_bot, n)
  BY DEF Grid!ScrolledDown, DownBy, Grid!Row, Grid!BlankRow, BlankRow, Grid!Column
<1>3. Grid!InsertOrDeleteLines
  <2>1. /\ scr'.bAltScreen /\ Row(scr') = Row(scr) /\ Col(scr') = 0
        /\ Shown' \in {UpBy(Shown, Row(scr), scr.roll_bot, n), DownBy(Shown, Row(scr), scr.roll_bot, n)}
        /\ scr'.roll_top = scr.roll_top /\ scr'.roll_bot = scr.roll_bot
    BY ShowsNext
  <2> QED BY <1>1, <1>2, <2>1 DEF Grid!InsertOrDeleteLines, Grid!Same
<1> QED BY <1>3 DEF Grid!Next

\* The rows between the margins scroll.
LEMMA GridScrolls ==
    ASSUME Good(scr), scr.bAltScreen, NEW n,
           n \in Counts \/ n = 1,
           \/ /\ n \in Counts \/ Row(scr) = scr.roll_bot
              /\ Shows(scr, scr', Row(scr), Col(scr), UpBy(CellsOf(scr, scr.buff), scr.roll_top, scr.roll_bot, n))
           \/ /\ n \in Counts \/ Row(scr) = scr.roll_top
              /\ Shows(scr, scr', Row(scr), Col(scr), DownBy(CellsOf(scr, scr.buff), scr.roll_top, scr.roll_bot, n))
    PROVE  Grid!Next
<1>1. Grid!ScrolledUp(scr.roll_top, scr.roll_bot, n) = UpBy(Shown, scr.roll_top, scr.roll_bot, n)
  BY DEF Grid!ScrolledUp, UpBy, Grid!Row, Grid!BlankRow, BlankRow, Grid!Column
<1>2. Grid!ScrolledDown(scr.roll_top, scr.roll_bot, n) = DownBy(Shown, scr.roll_top, scr.roll_bot, n)
  BY DEF Grid!ScrolledDown, DownBy, Grid!Row, Grid!BlankRow, BlankRow, Grid!Column
<1>3. Grid!Scroll
  <2>1. /\ scr'.bAltScreen /\ Row(scr') = Row(scr) /\ Col(scr') = Col(scr)
        /\ scr'.roll_top = scr.roll_top /\ scr'.roll_bot = scr.roll_bot
        /\ \/ (n \in Counts \/ (n = 1 /\ Row(scr) = scr.roll_bot)) /\ Shown' = UpBy(Shown, scr.roll_top, scr.roll_bot, n)
           \/ (n \in Counts \/ (n = 1 /\ Row(scr) = scr.roll_top)) /\ Shown' = DownBy(Shown, scr.roll_top, scr.roll_bot, n)
    BY ShowsNext
  <2>2. \/ \E k \in Counts : Shown' \in {Grid!ScrolledUp(scr.roll_top, scr.roll_bot, k),
                                         Grid!ScrolledDown(scr.roll_top, scr.roll_bot, k)}
        \/ Row(scr) = scr.roll_bot /\ Shown' = Grid!ScrolledUp(scr.roll_top, scr.roll_bot, 1)
        \/ Row(scr) = scr.roll_top /\ Shown' = Grid!ScrolledDown(scr.roll_top, scr.roll_bot, 1)
    BY <1>1, <1>2, <2>1
  <2> HIDE DEF Grid!ScrolledUp, Grid!ScrolledDown
  <2> QED BY <2>1, <2>2 DEF Grid!Scroll, Grid!Same
<1> QED BY <1>3 DEF Grid!Next

\* Cells of the cursor's row are inserted, deleted or erased.
LEMMA GridEditsRow ==
    ASSUME Good(scr), scr.bAltScreen, NEW w,
           Shows(scr, scr', Row(scr), Col(scr), [CellsOf(scr, scr.buff) EXCEPT ![Row(scr)] = w]),
           LET u == CellsOf(scr, scr.buff)[Row(scr)] IN
             \/ \E n \in Counts : w \in {RowInserted(u, Col(scr), n), RowDeleted(u, Col(scr), n),
                                         RowErased(u, Col(scr), Col(scr) + n - 1)}
             \/ w \in {RowErased(u, Col(scr), size_x), RowErased(u, 0, Col(scr)), RowErased(u, 0, size_x)}
    PROVE  Grid!Next
<1> DEFINE u == Shown[Row(scr)]
           edited(v) == [Shown EXCEPT ![Row(scr)] = v]
<1>1. /\ scr'.bAltScreen /\ Row(scr') = Row(scr) /\ Col(scr') = Col(scr)
      /\ scr'.roll_top = scr.roll_top /\ scr'.roll_bot = scr.roll_bot
      /\ Shown' = edited(w) /\ Shown = CellsOf(scr, scr.buff)
  BY ShowsNext
<1>2. \A n : Grid!Inserted(n) = edited(RowInserted(u, Col(scr), n))
  BY DEF Grid!Inserted, RowInserted, Grid!Column
<1>3. \A n : Grid!Deleted(n) = edited(RowDeleted(u, Col(scr), n))
  BY DEF Grid!Deleted, RowDeleted, Grid!Column
<1>4. \A a, z : Grid!Erased(a, z) = edited(RowErased(u, a, z))
  BY DEF Grid!Erased, RowErased, Grid!Column
<1>5. \/ \E n \in Counts : w \in {RowInserted(u, Col(scr), n), RowDeleted(u, Col(scr), n),
                                  RowErased(u, Col(scr), Col(scr) + n - 1)}
      \/ w \in {RowErased(u, Col(scr), size_x), RowErased(u, 0, Col(scr)), RowErased(u, 0, size_x)}
  BY <1>1
<1>6. \/ \E n \in Counts : Shown' \in {Grid!Inserted(n), Grid!Deleted(n), Grid!Erased(Col(scr), Col(scr) + n - 1)}
      \/ Shown' \in {Grid!Erased(Col(scr), size_x), Grid!Erased(0, Col(scr)), Grid!Erased(0, size_x)}
  <2> HIDE DEF u
  <2> DEFINE e(v) == edited(v)
  <2>1. CASE \E n \in Counts : w \in {RowInserted(u, Col(scr), n), RowDeleted(u, Col(scr), n),
                                      RowErased(u, Col(scr), Col(scr) + n - 1)}
    <3>1. PICK n \in Counts : w \in {RowInserted(u, Col(scr), n), RowDeleted(u, Col(scr), n),
                                     RowErased(u, Col(scr), Col(scr) + n - 1)}
      BY <2>1
    <3>2. Shown' \in {Grid!Inserted(n), Grid!Deleted(n), Grid!Erased(Col(scr), Col(scr) + n - 1)}
      BY <3>1, <1>1, <1>2, <1>3, <1>4 DEF u
    <3> QED BY <3>2
  <2>2. CASE w \in {RowErased(u, Col(scr), size_x), RowErased(u, 0, Col(scr)), RowErased(u, 0, size_x)}
    BY <2>2, <1>1, <1>4 DEF u
  <2> QED BY <2>1, <2>2, <1>5
<1>7. Grid!EditRow
  BY <1>1, <1>6 DEF Grid!EditRow, Grid!Same
<1> QED BY <1>7 DEF Grid!Next

\* Rows are erased: from the cursor's on, up to the cursor, or all.
LEMMA GridErases ==
    ASSUME Good(scr), scr.bAltScreen,
           \/ Row(scr) = 0 /\ Shows(scr, scr', 0, 0, RowsErased(CellsOf(scr, scr.buff), 0, size_y - 1))
           \/ Shows(scr, scr', 0, 0, RowsErased([CellsOf(scr, scr.buff) EXCEPT ![Row(scr)] = RowErased(@, 0, Col(scr))],
                                                0, Row(scr) - 1))
           \/ Col(scr) = 0 /\ Shows(scr, scr', Row(scr), 0, RowsErased(CellsOf(scr, scr.buff), Row(scr), size_y - 1))
    PROVE  Grid!Next
<1>0. Row(scr) \in 0..(size_y - 1)
  BY RowFacts
<1>1. Grid!EraseScreen
  <2>1. CASE Row(scr) = 0 /\ Shows(scr, scr', 0, 0, RowsErased(CellsOf(scr, scr.buff), 0, size_y - 1))
    <3>1. /\ scr'.bAltScreen /\ Row(scr') = 0 /\ Col(scr') = 0
          /\ scr'.roll_top = scr.roll_top /\ scr'.roll_bot = scr.roll_bot
          /\ Shown' = RowsErased(CellsOf(scr, scr.buff), 0, size_y - 1)
      BY <2>1, ShowsNext
    <3>2. Shown' = Grid!BlankGrid
      BY <3>1 DEF RowsErased, Grid!BlankGrid, Grid!Row, Grid!BlankRow, BlankRow, Grid!Column
    <3> QED BY <2>1, <3>1, <3>2 DEF Grid!EraseScreen, Grid!Same
  <2>2. CASE Shows(scr, scr', 0, 0, RowsErased([CellsOf(scr, scr.buff) EXCEPT ![Row(scr)] = RowErased(@, 0, Col(scr))],
                                                0, Row(scr) - 1))
    <3> DEFINE w == RowErased(Shown[Row(scr)], 0, Col(scr))
    <3>1. /\ scr'.bAltScreen /\ Row(scr') = 0 /\ Col(scr') = 0
          /\ scr'.roll_top = scr.roll_top /\ scr'.roll_bot = scr.roll_bot
          /\ Shown' = RowsErased([Shown EXCEPT ![Row(scr)] = w], 0, Row(scr) - 1)
      BY <2>2, ShowsNext
    <3>2. Grid!Erased(0, Col(scr))[Row(scr)] = w
      BY <1>0 DEF Grid!Erased, RowErased, Grid!Column, Shown
    <3>3. Grid!ErasedRows(0, Row(scr)) = [r \in 0..(size_y - 1) |-> IF r \in 0..Row(scr) THEN BlankRow ELSE Shown[r]]
      BY DEF Grid!ErasedRows, Grid!Row, Grid!BlankRow, BlankRow, Grid!Column
    <3>4. Shown' = [Grid!ErasedRows(0, Row(scr)) EXCEPT ![Row(scr)] = Grid!Erased(0, Col(scr))[Row(scr)]]
      <4> HIDE DEF w
      <4> DEFINE f == [[r \in 0..(size_y - 1) |-> IF r \in 0..Row(scr) THEN BlankRow ELSE Shown[r]] EXCEPT ![Row(scr)] = w]
                 h == [r \in 0..(size_y - 1) |-> IF r \in 0..(Row(scr) - 1) THEN BlankRow
                                                 ELSE [Shown EXCEPT ![Row(scr)] = w][r]]
      <4>1. ASSUME NEW r \in 0..(size_y - 1) PROVE f[r] = h[r]
        <5>1. Shown = [q \in 0..(size_y - 1) |-> Shown[q]]
          BY DEF Shown
        <5>2. CASE r = Row(scr)
          <6>1. f[r] = w /\ r \notin 0..(Row(scr) - 1)
            BY <1>0, <5>2
          <6>2. [Shown EXCEPT ![Row(scr)] = w][r] = w
            BY <1>0, <5>1, <5>2
          <6> QED BY <6>1, <6>2
        <5>3. CASE r # Row(scr)
          <6>1. f[r] = IF r \in 0..Row(scr) THEN BlankRow ELSE Shown[r]
            BY <1>0, <5>3
          <6>2. [Shown EXCEPT ![Row(scr)] = w][r] = Shown[r]
            BY <1>0, <5>1, <5>3
          <6>3. r \in 0..Row(scr) <=> r \in 0..(Row(scr) - 1)
            BY <1>0, <5>3
          <6> QED BY <6>1, <6>2, <6>3
        <5> QED BY <5>2, <5>3
      <4>2. f = [r \in 0..(size_y - 1) |-> f[r]]
        OBVIOUS
      <4>3. h = [r \in 0..(size_y - 1) |-> h[r]]
        OBVIOUS
      <4>4. Shown' = h
        BY <3>1 DEF RowsErased
      <4>5. [Grid!ErasedRows(0, Row(scr)) EXCEPT ![Row(scr)] = Grid!Erased(0, Col(scr))[Row(scr)]] = f
        BY <3>2, <3>3
      <4> HIDE DEF f, h
      <4>6. f = h
        BY <4>1, <4>2, <4>3
      <4> QED BY <4>4, <4>5, <4>6
    <3> QED BY <3>1, <3>4 DEF Grid!EraseScreen, Grid!Same
  <2>3. CASE Col(scr) = 0 /\ Shows(scr, scr', Row(scr), 0, RowsErased(CellsOf(scr, scr.buff), Row(scr), size_y - 1))
    <3>1. /\ scr'.bAltScreen /\ Row(scr') = Row(scr) /\ Col(scr') = 0
          /\ scr'.roll_top = scr.roll_top /\ scr'.roll_bot = scr.roll_bot
          /\ Shown' = RowsErased(Shown, Row(scr), size_y - 1)
      BY <2>3, ShowsNext
    <3>2. Shown' = Grid!ErasedRows(Row(scr), size_y - 1)
      BY <3>1 DEF RowsErased, Grid!ErasedRows, Grid!Row, Grid!BlankRow, BlankRow, Grid!Column
    <3> QED BY <2>3, <3>1, <3>2 DEF Grid!EraseScreen, Grid!Same
  <2> QED BY <2>1, <2>2, <2>3
<1> QED BY <1>1 DEF Grid!Next

\* All the cells are one character.
LEMMA GridAligns ==
    ASSUME Good(scr), scr.bAltScreen, NEW ch \in Cells,
           Shows(scr, scr', Row(scr), Col(scr), [r \in 0..(size_y - 1) |-> [c \in 0..(size_x - 1) |-> ch]])
    PROVE  Grid!Next
<1>1. /\ scr'.bAltScreen /\ Row(scr') = Row(scr) /\ Col(scr') = Col(scr)
      /\ scr'.roll_top = scr.roll_top /\ scr'.roll_bot = scr.roll_bot
      /\ Shown' = [r \in 0..(size_y - 1) |-> [c \in 0..(size_x - 1) |-> ch]]
  BY ShowsNext
<1>2. Grid!Align
  BY <1>1 DEF Grid!Align, Grid!Same, Grid!Row, Grid!Column
<1> QED BY <1>2 DEF Grid!Next

\* The alternate screen is entered, left, or not there.
LEMMA GridEnters ==
    ASSUME ~scr.bAltScreen, Shows(scr, scr', 0, 0, BlankCells)
    PROVE  Grid!Next
<1>1. /\ scr'.bAltScreen /\ Row(scr') = 0 /\ Col(scr') = 0
      /\ scr'.roll_top = scr.roll_top /\ scr'.roll_bot = scr.roll_bot
      /\ Shown' = BlankCells
  BY DEF Shows, Shown, CellsOf
<1>2. Grid!Enter
  BY <1>1 DEF Grid!Enter, Grid!BlankGrid, Grid!Row, Grid!BlankRow, BlankRow, Grid!Column, BlankCells
<1> QED BY <1>2 DEF Grid!Next

\* Leaving the alternate screen.
LEMMA GridLeaves ==
    ASSUME scr.bAltScreen, ~scr'.bAltScreen, scr'.roll_top = scr.roll_top, scr'.roll_bot = scr.roll_bot
    PROVE  Grid!Next
<1>1. Grid!Leave
  BY DEF Grid!Leave, Grid!BlankGrid, Grid!Row, Grid!BlankRow, Grid!Column
<1> QED BY <1>1 DEF Grid!Next

\* Outside of the alternate screen the grid does not change.
LEMMA GridStays ==
    ASSUME ~scr.bAltScreen, SameScreen(scr, scr')
    PROVE  UNCHANGED Grid!vars
BY DEF SameScreen, Grid!vars

----------------------------------------------------------------------------
(* The actions.  XSound says that the action X keeps the invariant and the *)
(* text above, and is a step of Vt100Grid's or none.                       *)

\* What every step does: the invariant, what ScrollbackKept says, and a step of
\* the grid or none.
Sound ==
    /\ Good(scr') /\ Kept(scr, scr')
    /\ Grid!Next \/ UNCHANGED Grid!vars

\* A good step outside of the alternate screen is sound.
LEMMA TextSound ==
    ASSUME Good(scr), ~scr.bAltScreen, Good(scr') /\ Kept(scr, scr') /\ SameScreen(scr, scr')
    PROVE  Sound
BY GridStays DEF Sound

\* A sequence that only moves the cursor
LEMMA MoveSound ==
    ASSUME Good(scr), NEW y, NEW x, CursorAt(scr, y, x), scr' = At(scr, y, x)
    PROVE  Sound
<1>1. Draws(scr, scr', y, x, CellsOf(scr, scr.buff))
  BY AtDraws
<1>2. Good(scr') /\ Kept(scr, scr') /\ SameScreen(scr, scr')
  BY <1>1, DrawsGood
<1>3. CASE ~scr.bAltScreen
  BY <1>2, <1>3, TextSound
<1>4. CASE scr.bAltScreen
  <2>1. Shows(scr, scr', y - scr.screen_y, x, CellsOf(scr, scr.buff))
    BY <1>1, <1>4, DrawsShows
  <2>2. scr.screen_y \in Nat
    BY GoodFacts
  <2>3. y - scr.screen_y \in 0..(size_y - 1) /\ x \in 0..size_x
    BY <1>4, <2>2, Sizes DEF CursorAt
  <2>4. Grid!Next
    BY <1>4, <2>1, <2>3, GridMoves
  <2> QED BY <1>2, <2>4 DEF Sound
<1> QED BY <1>3, <1>4

\* A sequence that draws and leaves the cursor, or returns it to column 0.
LEMMA DrawnShows ==
    ASSUME Good(scr), scr.bAltScreen, NEW x, x = 0 \/ x = Col(scr), NEW g,
           Draws(scr, scr', scr.cursor_y, x, g)
    PROVE  Good(scr') /\ Kept(scr, scr') /\ Shows(scr, scr', Row(scr), x, g)
<1>1. CursorAt(scr, scr.cursor_y, x)
  BY FirstColumn
<1>2. scr.cursor_y - scr.screen_y = Row(scr)
  BY DEF Row
<1>3. Shows(scr, scr', scr.cursor_y - scr.screen_y, x, g)
  BY <1>1, DrawsShows
<1> QED BY <1>1, <1>2, <1>3, DrawsGood

\* Every column of the cursor's row is a place for the cursor.
LEMMA InThisLine ==
    ASSUME Good(scr), NEW x \in 0..size_x
    PROVE  CursorAt(scr, scr.cursor_y, x)
BY FirstColumn DEF CursorAt

LEMMA CharacterSound == Good(scr) /\ Character => Sound
<1> SUFFICES ASSUME Good(scr), Character PROVE Sound
  OBVIOUS
<1>1. PICK ch \in Cells : scr' = Put(scr, ch)
  BY DEF Character
<1>2. ch \in Char
  BY BlankIsChar
<1>3. CASE ~scr.bAltScreen
  <2>1. /\ Col(scr) = size_x /\ scr.bWraparound => scr.cursor_y < MaxLine
        /\ scr.bInsert => Col(scr) < size_x /\ scr.cursor_x = End(scr)
    BY <1>3 DEF Character, LineFollows, RoomToInsert
  <2> QED BY <1>1, <1>2, <1>3, <2>1, PutInText, TextSound
<1>4. CASE scr.bAltScreen
  <2>1. /\ Col(scr) = size_x /\ scr.bWraparound => Row(scr) < size_y - 1
        /\ scr.bInsert => Col(scr) < size_x
    BY <1>4 DEF Character, LineFollows
  <2>2. PutInRow(scr, scr', ch) \/ PutInNextRow(scr, scr', ch) \/ PutInLastColumn(scr, scr', ch)
    BY <1>1, <1>2, <1>4, <2>1, PutDraws
  <2>3. /\ Row(scr) \in 0..(size_y - 1) /\ Col(scr) \in 0..size_x /\ scr.screen_y \in Nat
        /\ 1 \in 0..size_x /\ size_x \in 0..size_x
    BY RowFacts, <1>4, GoodFacts, Sizes
  <2>4. ASSUME NEW r \in 0..(size_y - 1), NEW x \in 0..size_x, NEW g, Draws(scr, scr', scr.screen_y + r, x, g)
        PROVE  Good(scr') /\ Kept(scr, scr') /\ Shows(scr, scr', r, x, g)
    <3>1. CursorAt(scr, scr.screen_y + r, x)
      BY <1>4, OnRow
    <3>2. Shows(scr, scr', (scr.screen_y + r) - scr.screen_y, x, g)
      BY <1>4, <2>4, <3>1, DrawsShows
    <3>3. (scr.screen_y + r) - scr.screen_y = r
      BY <2>3
    <3> QED BY <2>4, <3>1, <3>2, <3>3, DrawsGood
  <2>5. CASE PutInRow(scr, scr', ch)
    <3> DEFINE g(insert) == CellSet(IF insert THEN [CellsOf(scr, scr.buff) EXCEPT ![Row(scr)] = RowInserted(@, Col(scr), 1)]
                                    ELSE CellsOf(scr, scr.buff), Row(scr), Col(scr), ch)
    <3>1. PICK insert \in BOOLEAN : Draws(scr, scr', scr.screen_y + Row(scr), Col(scr) + 1, g(insert))
      BY <2>5 DEF PutInRow
    <3>2. Col(scr) < size_x /\ Col(scr) + 1 \in 0..size_x
      BY <2>3, <2>5, Sizes DEF PutInRow
    <3> DEFINE h == g(insert)
    <3>3. Draws(scr, scr', scr.screen_y + Row(scr), Col(scr) + 1, h)
      BY <3>1
    <3> HIDE DEF h
    <3>4. Good(scr') /\ Kept(scr, scr') /\ Shows(scr, scr', Row(scr), Col(scr) + 1, h)
      BY <2>3, <2>4, <3>2, <3>3
    <3>5. Shows(scr, scr', Row(scr), Col(scr) + 1, g(insert))
      BY <3>4 DEF h
    <3>6. Grid!Next
      BY <1>4, <3>2, <3>4, <3>5, GridWrites
    <3> QED BY <3>4, <3>6 DEF Sound
  <2>6. CASE PutInNextRow(scr, scr', ch)
    <3>1. Col(scr) = size_x /\ Row(scr) < size_y - 1 /\ Row(scr) + 1 \in 0..(size_y - 1)
      BY <2>3, <2>6, Sizes DEF PutInNextRow
    <3>2. Draws(scr, scr', scr.screen_y + (Row(scr) + 1), 1, CellSet(CellsOf(scr, scr.buff), Row(scr) + 1, 0, ch))
      BY <2>6 DEF PutInNextRow
    <3>3. Good(scr') /\ Kept(scr, scr')
          /\ Shows(scr, scr', Row(scr) + 1, 1, CellSet(CellsOf(scr, scr.buff), Row(scr) + 1, 0, ch))
      BY <2>3, <2>4, <3>1, <3>2
    <3>4. Grid!Next
      BY <1>4, <3>1, <3>3, GridWrites
    <3> QED BY <3>3, <3>4 DEF Sound
  <2>7. CASE PutInLastColumn(scr, scr', ch)
    <3>1. Col(scr) = size_x
          /\ Draws(scr, scr', scr.screen_y + Row(scr), size_x, CellSet(CellsOf(scr, scr.buff), Row(scr), size_x - 1, ch))
      BY <2>7 DEF PutInLastColumn
    <3>2. Good(scr') /\ Kept(scr, scr')
          /\ Shows(scr, scr', Row(scr), size_x, CellSet(CellsOf(scr, scr.buff), Row(scr), size_x - 1, ch))
      BY <2>3, <2>4, <3>1
    <3>3. Grid!Next
      BY <1>4, <3>1, <3>2, GridWrites
    <3> QED BY <3>2, <3>3 DEF Sound
  <2> QED BY <2>2, <2>5, <2>6, <2>7
<1> QED BY <1>3, <1>4

\* ESC D on the alternate screen
LEMMA IndexedSound ==
    ASSUME Good(scr), scr.bAltScreen, scr.cursor_y <= Bot(scr), scr' = IND(scr)
    PROVE  Sound
<1>1. /\ scr.roll_top \in Nat /\ scr.roll_bot \in Nat /\ scr.roll_bot < size_y
      /\ Bot(scr) = scr.screen_y + scr.roll_bot
      /\ Row(scr) \in 0..(size_y - 1) /\ scr.cursor_y = scr.screen_y + Row(scr) /\ scr.screen_y \in Nat
      /\ Col(scr) \in 0..size_x
  BY RowFacts, GoodFacts
<1>2. CASE scr.cursor_y < Bot(scr)
  <2>1. Row(scr) + 1 \in 0..(size_y - 1) /\ scr.cursor_y + 1 = scr.screen_y + (Row(scr) + 1)
    BY <1>1, <1>2, Sizes
  <2>2. CursorAt(scr, scr.cursor_y + 1, Col(scr))
    BY <1>1, <2>1, OnRow
  <2>3. scr' = At(scr, scr.cursor_y + 1, Col(scr))
    BY <1>2 DEF IND
  <2> QED BY <2>2, <2>3, MoveSound
<1>3. CASE scr.cursor_y = Bot(scr)
  <2> DEFINE g == UpBy(CellsOf(scr, scr.buff), scr.roll_top, scr.roll_bot, 1)
  <2>1. Draws(scr, scr', scr.cursor_y, Col(scr), g)
    BY <1>3, IndexDraws
  <2> HIDE DEF g
  <2>2. Good(scr') /\ Kept(scr, scr') /\ Shows(scr, scr', Row(scr), Col(scr), g)
    BY <2>1, DrawnShows
  <2>3. Row(scr) = scr.roll_bot
    BY <1>1, <1>3
  <2>4. Grid!Next
    BY <2>2, <2>3, GridScrolls DEF g
  <2> QED BY <2>2, <2>4 DEF Sound
<1>4. scr.cursor_y \in Int /\ Bot(scr) \in Int
  BY <1>1
<1> QED BY <1>2, <1>3, <1>4

LEMMA LineFeedSound == "text" \in Care /\ Good(scr) /\ LineFeed => Sound
<1> SUFFICES ASSUME "text" \in Care, Good(scr), LineFeed PROVE Sound
  OBVIOUS
<1>1. CASE scr.bAltScreen
  BY <1>1, IndexedSound DEF LineFeed
<1>2. CASE ~scr.bAltScreen
  <2>1. scr.line[scr.cursor_y + 2] = 0
    BY <1>2, LastLine
  <2>2. /\ scr.cursor_y < MaxLine
        /\ End(scr) >= scr.line[scr.cursor_y]
        /\ scr' = NextLineFeed(scr)
    BY <1>2, <2>1 DEF LineFeed, LineFollows, NextLineFeed
  <2> QED BY <1>2, <2>2, LineFeedGood, TextSound
<1> QED BY <1>1, <1>2

LEMMA CarriageReturnSound == Good(scr) /\ CarriageReturn => Sound
BY FirstColumn, MoveSound DEF CarriageReturn

LEMMA BackspaceSound == Good(scr) /\ Backspace => Sound
<1> SUFFICES ASSUME Good(scr), Backspace PROVE Sound
  OBVIOUS
<1>1. Col(scr) - 1 \in 0..size_x
  BY GoodFacts, Sizes DEF Backspace
<1> DEFINE x == Col(scr) - 1
<1>2. scr' = At(scr, scr.cursor_y, x)
  BY DEF Backspace
<1>3. x \in 0..size_x
  BY <1>1
<1> HIDE DEF x
<1> QED BY <1>2, <1>3, InThisLine, MoveSound

LEMMA CursorVerticalSound == Good(scr) /\ CursorVertical => Sound
<1> SUFFICES ASSUME Good(scr), CursorVertical PROVE Sound
  OBVIOUS
<1>1. PICK n \in Counts, keep \in BOOLEAN :
         \/ scr' = At(scr, check_cursor_y(scr, scr.cursor_y - n), IF keep THEN Col(scr) ELSE 0)
         \/ scr' = At(scr, check_cursor_y(scr, scr.cursor_y + n), IF keep THEN Col(scr) ELSE 0)
  BY DEF CursorVertical
<1> DEFINE x == IF keep THEN Col(scr) ELSE 0
<1>2. x \in 0..size_x
  BY GoodFacts, Sizes
<1>3. scr.cursor_y - n \in Int /\ scr.cursor_y + n \in Int
  BY GoodFacts, ScreenAssumption
<1>4. scr.bAltScreen
  BY DEF CursorVertical
<1> HIDE DEF x
<1>5. CASE scr' = At(scr, check_cursor_y(scr, scr.cursor_y - n), x)
  <2>1. CursorAt(scr, check_cursor_y(scr, scr.cursor_y - n), x)
    BY <1>2, <1>3, <1>4, CheckedRow
  <2> QED BY <1>5, <2>1, MoveSound
<1>6. CASE scr' = At(scr, check_cursor_y(scr, scr.cursor_y + n), x)
  <2>1. CursorAt(scr, check_cursor_y(scr, scr.cursor_y + n), x)
    BY <1>2, <1>3, <1>4, CheckedRow
  <2> QED BY <1>6, <2>1, MoveSound
<1> QED BY <1>1, <1>5, <1>6 DEF x

LEMMA LinePositionSound == Good(scr) /\ LinePosition => Sound
<1> SUFFICES ASSUME Good(scr), LinePosition PROVE Sound
  OBVIOUS
<1>1. PICK n \in Counts : scr' = At(scr, scr.screen_y + Min({n, size_y}) - 1, Col(scr))
  BY DEF LinePosition
<1>2. scr.screen_y \in Nat /\ Col(scr) \in 0..size_x /\ n \in Nat /\ n > 0 /\ scr.bAltScreen
  BY GoodFacts, ScreenAssumption DEF LinePosition
<1>3. Min({n, size_y}) = IF n <= size_y THEN n ELSE size_y
  BY <1>2, Sizes, MinOfTwo
<1> DEFINE r == Min({n, size_y}) - 1
<1>4. r \in 0..(size_y - 1)
  BY <1>2, <1>3, Sizes
<1>5. scr.screen_y + Min({n, size_y}) - 1 = scr.screen_y + r
  <2>1. Min({n, size_y}) \in Int
    BY <1>2, <1>3, Sizes
  <2> QED BY <2>1, <1>2
<1> HIDE DEF r
<1>6. CursorAt(scr, scr.screen_y + r, Col(scr))
  BY <1>2, <1>4, OnRow
<1> QED BY <1>1, <1>5, <1>6, MoveSound

LEMMA CursorForwardSound == Good(scr) /\ CursorForward => Sound
<1> SUFFICES ASSUME Good(scr), CursorForward PROVE Sound
  OBVIOUS
<1>1. PICK n \in Counts, x \in {Col(scr), 0} : scr' = At(scr, scr.cursor_y, ForwardFrom(x, n))
  BY DEF CursorForward
<1>2. n \in Nat /\ x \in 0..size_x
  BY ScreenAssumption, GoodFacts, Sizes
<1>3. ForwardFrom(x, n) \in 0..size_x
  <2> DEFINE a == x + n
             b == size_x - 1
             m == Min({a, b})
  <2>1. a \in Int /\ b \in Int /\ a >= x
    BY <1>2, Sizes
  <2>2. m = IF a <= b THEN a ELSE b
    <3> HIDE DEF a, b
    <3> QED BY <2>1, MinOfTwo
  <2>3. m \in Int /\ m <= size_x
    BY <2>1, <2>2, Sizes
  <2> HIDE DEF m
  <2>4. Max({x, m}) = IF x >= m THEN x ELSE m
    BY <1>2, <2>3, MaxOfTwo
  <2>5. Max({x, m}) \in 0..size_x
    BY <1>2, <2>3, <2>4, Sizes
  <2> QED BY <2>5 DEF ForwardFrom, m
<1> QED BY <1>1, <1>3, InThisLine, MoveSound

LEMMA CursorBackwardSound == Good(scr) /\ CursorBackward => Sound
<1> SUFFICES ASSUME Good(scr), CursorBackward PROVE Sound
  OBVIOUS
<1>1. PICK n \in Counts : scr' = At(scr, scr.cursor_y, Max({Col(scr) - n, 0}))
  BY DEF CursorBackward
<1>2. n \in Nat /\ Col(scr) \in 0..size_x
  BY ScreenAssumption, GoodFacts
<1>3. Max({Col(scr) - n, 0}) \in 0..size_x
  <2> DEFINE a == Col(scr) - n
  <2>1. a \in Int /\ a <= size_x
    BY <1>2, Sizes
  <2> HIDE DEF a
  <2>2. Max({a, 0}) = IF a >= 0 THEN a ELSE 0
    BY <2>1, MaxOfTwo
  <2>3. Max({a, 0}) \in 0..size_x
    BY <2>1, <2>2, Sizes
  <2> QED BY <2>3 DEF a
<1> QED BY <1>1, <1>3, InThisLine, MoveSound

LEMMA CursorPositionSound == Good(scr) /\ CursorPosition => Sound
<1> SUFFICES ASSUME Good(scr), CursorPosition PROVE Sound
  OBVIOUS
<1>1. scr.bAltScreen
  BY DEF CursorPosition
<1> DEFINE y(n1) == scr.screen_y + n1 - 1 + (IF scr.bOriginMode THEN scr.roll_top ELSE 0)
<1>2. PICK n1 \in Counts, n0 \in 1..size_x : scr' = At(scr, check_cursor_y(scr, y(n1)), n0 - 1)
  BY DEF CursorPosition
<1>3. y(n1) \in Int /\ n0 - 1 \in 0..size_x
  BY <1>1, ScreenAssumption, RowFacts, Sizes
<1> HIDE DEF y
<1>4. CursorAt(scr, check_cursor_y(scr, y(n1)), n0 - 1)
  BY <1>1, <1>3, CheckedRow
<1> QED BY <1>2, <1>4, MoveSound

LEMMA RestoreCursorSound == Good(scr) /\ RestoreCursor => Sound
<1> SUFFICES ASSUME Good(scr), RestoreCursor PROVE Sound
  OBVIOUS
<1>1. scr.bAltScreen /\ scr' = At(scr, scr.save_y + scr.screen_y, scr.save_x)
  BY DEF RestoreCursor
<1>2. scr.screen_y \in Nat /\ scr.save_y \in 0..(size_y - 1) /\ scr.save_x \in 0..size_x
  BY Sizes DEF Good, State, OfScreen
<1>3. CursorAt(scr, scr.screen_y + scr.save_y, scr.save_x)
  BY <1>1, <1>2, OnRow
<1>4. scr.save_y + scr.screen_y = scr.screen_y + scr.save_y
  BY <1>2
<1> QED BY <1>1, <1>3, <1>4, MoveSound

LEMMA LowerLeftSound == Good(scr) /\ LowerLeft => Sound
<1> SUFFICES ASSUME Good(scr), LowerLeft PROVE Sound
  OBVIOUS
<1>1. scr.bAltScreen /\ scr' = At(scr, scr.screen_y + size_y - 1, 0) /\ scr.screen_y \in Nat
  BY GoodFacts DEF LowerLeft
<1>2. size_y - 1 \in 0..(size_y - 1) /\ 0 \in 0..size_x /\ scr.screen_y + (size_y - 1) = scr.screen_y + size_y - 1
  BY <1>1, Sizes
<1>3. CursorAt(scr, scr.screen_y + (size_y - 1), 0)
  BY <1>1, <1>2, OnRow
<1> QED BY <1>1, <1>2, <1>3, MoveSound

LEMMA NextRowSound == Good(scr) /\ NextRow => Sound
<1> SUFFICES ASSUME Good(scr), NextRow PROVE Sound
  OBVIOUS
<1>1. scr.bAltScreen /\ Row(scr) < size_y - 1 /\ scr' = At(scr, scr.cursor_y + 1, 0)
  BY DEF NextRow
<1>2. Row(scr) \in 0..(size_y - 1) /\ scr.cursor_y = scr.screen_y + Row(scr) /\ scr.screen_y \in Nat
  BY <1>1, RowFacts
<1>3. Row(scr) + 1 \in 0..(size_y - 1) /\ 0 \in 0..size_x /\ scr.screen_y + (Row(scr) + 1) = scr.cursor_y + 1
  BY <1>1, <1>2, Sizes
<1>4. CursorAt(scr, scr.screen_y + (Row(scr) + 1), 0)
  BY <1>1, <1>3, OnRow
<1> QED BY <1>1, <1>3, <1>4, MoveSound

\* t is s with other margins, modes or saved cursor.
OtherSettings(s, t) ==
    /\ t \in State /\ OfScreen(t)
    /\ t.buff = s.buff /\ t.line = s.line /\ t.cursor_x = s.cursor_x /\ t.cursor_y = s.cursor_y
    /\ t.screen_y = s.screen_y /\ t.bAltScreen = s.bAltScreen

\* Modes, margins and the saved cursor may change within the screen.
LEMMA SettingsGood ==
    ASSUME NEW s, Good(s), NEW t, OtherSettings(s, t)
    PROVE  Good(t) /\ Kept(s, t) /\ Base(t) = Base(s)
<1>1. /\ t \in State /\ OfScreen(t)
      /\ t.buff = s.buff /\ t.line = s.line /\ t.cursor_x = s.cursor_x /\ t.cursor_y = s.cursor_y
      /\ t.screen_y = s.screen_y /\ t.bAltScreen = s.bAltScreen
  BY DEF OtherSettings
<1>2. Base(t) = Base(s) /\ Row(t) = Row(s) /\ Col(t) = Col(s) /\ End(t) = End(s)
  BY <1>1 DEF Base, Row, Col, End
<1>3. TextAbove(t)
  <2>1. TextAbove(s)
    BY DEF Good
  <2> QED BY ONLY <2>1, <1>1, <1>2 DEF TextAbove
<1>4. IF t.bAltScreen THEN OnScreen(t) ELSE InText(t)
  <2>1. CASE s.bAltScreen
    <3>1. OnScreen(s) /\ t.bAltScreen
      BY <1>1, <2>1 DEF Good
    <3>2. OnScreen(t)
      BY ONLY <3>1, <1>1, <1>2 DEF OnScreen
    <3> QED BY <3>1, <3>2
  <2>2. CASE ~s.bAltScreen
    <3>1. InText(s) /\ ~t.bAltScreen
      BY <1>1, <2>2 DEF Good
    <3>2. InText(t)
      BY ONLY <3>1, <1>1, <1>2 DEF InText
    <3> QED BY <3>1, <3>2
  <2> QED BY <2>1, <2>2
<1>5. Good(t)
  BY <1>1, <1>2, <1>3, <1>4 DEF Good
<1>6. Kept(s, t)
  <2>1. Base(s) \in Int
    BY GoodFacts
  <2>2. Base(t) >= Base(s)
    BY <2>1, <1>2
  <2> QED BY <2>2, <1>1, <1>2 DEF Kept
<1> QED BY <1>2, <1>5, <1>6

LEMMA SetMarginsSound == Good(scr) /\ SetMargins => Sound
<1> SUFFICES ASSUME Good(scr), SetMargins PROVE Sound
  OBVIOUS
<1> DEFINE s(n1, n0) == [scr EXCEPT !.roll_top = n1 - 1, !.roll_bot = n0 - 1]
           r(n1) == IF scr.bOriginMode THEN n1 - 1 ELSE 0
<1>1. scr.bAltScreen /\ scr \in State /\ scr.screen_y \in Nat
  BY GoodFacts DEF SetMargins
<1>2. PICK n1 \in 1..(size_y - 1) : \E n0 \in (n1 + 1)..size_y :
        scr' = At(s(n1, n0), s(n1, n0).screen_y + (IF s(n1, n0).bOriginMode THEN s(n1, n0).roll_top ELSE 0), 0)
  BY DEF SetMargins
<1>3. PICK n0 \in (n1 + 1)..size_y :
        scr' = At(s(n1, n0), s(n1, n0).screen_y + (IF s(n1, n0).bOriginMode THEN s(n1, n0).roll_top ELSE 0), 0)
  BY <1>2
<1> DEFINE t == s(n1, n0)
           q == r(n1)
<1>4. n1 - 1 \in Nat /\ n0 - 1 \in Nat /\ n1 - 1 < n0 - 1 /\ n0 - 1 < size_y /\ q \in 0..(size_y - 1)
  BY Sizes
<1>5. /\ t \in State
      /\ t.buff = scr.buff /\ t.line = scr.line /\ t.cursor_x = scr.cursor_x /\ t.cursor_y = scr.cursor_y
      /\ t.screen_y = scr.screen_y /\ t.roll_top = n1 - 1 /\ t.roll_bot = n0 - 1
      /\ t.save_x = scr.save_x /\ t.save_y = scr.save_y /\ t.bAltScreen = scr.bAltScreen
      /\ t.bOriginMode = scr.bOriginMode
  BY <1>1, <1>4 DEF State
<1>6. scr' = At(t, t.screen_y + q, 0)
  BY <1>3, <1>5
<1> HIDE DEF t, s, q, r
<1>7. OtherSettings(scr, t)
  <2>1. OfScreen(t)
    BY <1>4, <1>5 DEF Good, OfScreen
  <2> QED BY <2>1, <1>5 DEF OtherSettings
<1>8. Good(t) /\ Kept(scr, t) /\ Base(t) = Base(scr)
  BY <1>7, SettingsGood
<1>9. CursorAt(t, t.screen_y + q, 0)
  <2>1. t.bAltScreen /\ 0 \in 0..size_x
    BY <1>1, <1>5, Sizes
  <2> QED BY ONLY <2>1, <1>4, <1>8, OnRow
<1>10. Draws(t, scr', t.screen_y + q, 0, CellsOf(t, t.buff))
  BY <1>6, <1>8, AtDraws
<1>11. Good(scr') /\ Kept(t, scr')
  BY <1>8, <1>9, <1>10, DrawsGood
<1>12. Shows(t, scr', (t.screen_y + q) - t.screen_y, 0, CellsOf(t, t.buff))
  BY <1>1, <1>5, <1>8, <1>9, <1>10, DrawsShows
<1>13. Kept(scr, scr')
  <2>1. Base(t) = Base(scr) /\ t.bAltScreen = scr.bAltScreen /\ t.line = scr.line /\ t.buff = scr.buff
    BY <1>5, <1>8
  <2> QED BY ONLY <2>1, <1>11 DEF Kept
<1>14. (t.screen_y + q) - t.screen_y = q /\ CellsOf(t, t.buff) = Shown
  <2>1. t.screen_y \in Nat
    BY <1>1, <1>5
  <2> QED BY <2>1, <1>4, <1>5 DEF CellsOf, Shown
<1>15. /\ scr'.bAltScreen /\ Shown' = Shown /\ Row(scr') = q /\ Col(scr') = 0
       /\ scr'.roll_top = n1 - 1 /\ scr'.roll_bot = n0 - 1
  BY <1>5, <1>12, <1>14 DEF Shows, Shown, CellsOf
<1>16. Grid!SetMargins
  BY <1>1, <1>4, <1>15 DEF Grid!SetMargins, Grid!Row
<1> QED BY <1>11, <1>13, <1>16 DEF Sound, Grid!Next

\* The grid has no modes other than the margins.
LEMMA SettingsSound ==
    ASSUME Good(scr), OtherSettings(scr, scr'), scr'.roll_top = scr.roll_top, scr'.roll_bot = scr.roll_bot
    PROVE  Sound
<1>1. Good(scr') /\ Kept(scr, scr')
  BY SettingsGood
<1>2. UNCHANGED Grid!vars
  <2>1. /\ scr'.bAltScreen = scr.bAltScreen /\ Shown' = Shown /\ Row(scr') = Row(scr) /\ Col(scr') = Col(scr)
    BY DEF OtherSettings, Shown, Row, Col
  <2> QED BY <2>1 DEF Grid!vars
<1> QED BY <1>1, <1>2 DEF Sound

LEMMA SaveCursorSound == Good(scr) /\ SaveCursor => Sound
<1> SUFFICES ASSUME Good(scr), SaveCursor PROVE Sound
  OBVIOUS
<1>1. scr.bAltScreen /\ scr' = [scr EXCEPT !.save_x = Col(scr), !.save_y = Row(scr)] /\ scr \in State
  BY GoodFacts DEF SaveCursor
<1>2. Row(scr) \in Nat /\ Row(scr) < size_y /\ Col(scr) \in Nat /\ Col(scr) <= size_x
  BY <1>1, RowFacts, GoodFacts, Sizes
<1>3. /\ scr' \in State
      /\ scr'.buff = scr.buff /\ scr'.line = scr.line /\ scr'.cursor_x = scr.cursor_x
      /\ scr'.cursor_y = scr.cursor_y /\ scr'.screen_y = scr.screen_y /\ scr'.bAltScreen = scr.bAltScreen
      /\ scr'.roll_top = scr.roll_top /\ scr'.roll_bot = scr.roll_bot
      /\ scr'.save_x = Col(scr) /\ scr'.save_y = Row(scr)
  BY ONLY <1>1, <1>2 DEF State
<1>4. OfScreen(scr')
  BY <1>2, <1>3 DEF Good, OfScreen
<1> QED BY <1>3, <1>4, SettingsSound DEF OtherSettings

LEMMA SetModeSound == Good(scr) /\ SetMode => Sound
<1> SUFFICES ASSUME Good(scr), SetMode PROVE Sound
  OBVIOUS
<1>1. PICK on \in BOOLEAN : \/ scr' = [scr EXCEPT !.bInsert = on]
                            \/ scr' = [scr EXCEPT !.bWraparound = on]
                            \/ scr' = [scr EXCEPT !.bOriginMode = on]
  BY DEF SetMode
<1>2. scr \in State
  BY GoodFacts
<1>3. /\ scr' \in State
      /\ scr'.buff = scr.buff /\ scr'.line = scr.line /\ scr'.cursor_x = scr.cursor_x
      /\ scr'.cursor_y = scr.cursor_y /\ scr'.screen_y = scr.screen_y /\ scr'.bAltScreen = scr.bAltScreen
      /\ scr'.roll_top = scr.roll_top /\ scr'.roll_bot = scr.roll_bot
      /\ scr'.save_x = scr.save_x /\ scr'.save_y = scr.save_y
  BY ONLY <1>1, <1>2 DEF State
<1>4. OfScreen(scr')
  BY <1>3 DEF Good, OfScreen
<1> QED BY <1>3, <1>4, SettingsSound DEF OtherSettings

LEMMA Count == ASSUME NEW n \in Counts PROVE n \in Nat /\ n >= 1
BY ScreenAssumption

\* A cursor that the grid sees between the margins is between the lines.
LEMMA MarginsHold ==
    ASSUME Good(scr), scr.bAltScreen, WithinMargins
    PROVE  scr.cursor_y \in Top(scr)..Bot(scr) /\ Row(scr) \in scr.roll_top..scr.roll_bot
<1>1. /\ scr.roll_top \in Nat /\ scr.roll_bot \in Nat
      /\ Top(scr) = scr.screen_y + scr.roll_top /\ Bot(scr) = scr.screen_y + scr.roll_bot
      /\ Row(scr) \in 0..(size_y - 1) /\ scr.cursor_y = scr.screen_y + Row(scr) /\ scr.screen_y \in Nat
  BY RowFacts
<1> QED BY <1>1 DEF WithinMargins

LEMMA InsertLinesSound == Good(scr) /\ InsertLines => Sound
<1> SUFFICES ASSUME Good(scr), InsertLines PROVE Sound
  OBVIOUS
<1>1. PICK n \in Counts : scr' = IL(scr, n)
  BY DEF InsertLines
<1>2. scr.bAltScreen /\ scr.cursor_y \in Top(scr)..Bot(scr) /\ Row(scr) \in scr.roll_top..scr.roll_bot
  BY MarginsHold DEF InsertLines
<1> DEFINE g == DownBy(CellsOf(scr, scr.buff), Row(scr), scr.roll_bot, n)
<1>3. Draws(scr, scr', scr.cursor_y, 0, g)
  BY <1>1, <1>2, InsertLinesDraws
<1> HIDE DEF g
<1>4. Good(scr') /\ Kept(scr, scr') /\ Shows(scr, scr', Row(scr), 0, g)
  BY <1>2, <1>3, DrawnShows
<1>5. Grid!Next
  BY <1>2, <1>4, GridMovesLines DEF g
<1> QED BY <1>4, <1>5 DEF Sound

LEMMA DeleteLinesSound == Good(scr) /\ DeleteLines => Sound
<1> SUFFICES ASSUME Good(scr), DeleteLines PROVE Sound
  OBVIOUS
<1>1. PICK n \in Counts : scr' = DL(scr, n)
  BY DEF DeleteLines
<1>2. scr.bAltScreen /\ scr.cursor_y \in Top(scr)..Bot(scr) /\ Row(scr) \in scr.roll_top..scr.roll_bot
  BY MarginsHold DEF DeleteLines
<1> DEFINE g == UpBy(CellsOf(scr, scr.buff), Row(scr), scr.roll_bot, n)
<1>3. Draws(scr, scr', scr.cursor_y, 0, g)
  BY <1>1, <1>2, DeleteLinesDraws
<1> HIDE DEF g
<1>4. Good(scr') /\ Kept(scr, scr') /\ Shows(scr, scr', Row(scr), 0, g)
  BY <1>2, <1>3, DrawnShows
<1>5. Grid!Next
  BY <1>2, <1>4, GridMovesLines DEF g
<1> QED BY <1>4, <1>5 DEF Sound

\* SU, SD and RI at the top margin
LEMMA ScrolledSound ==
    ASSUME Good(scr), scr.bAltScreen, NEW n \in Nat, n >= 1, n <= scr.roll_bot - scr.roll_top + 1,
           \/ n \in Counts /\ scr' = SU(scr, n)
           \/ (n \in Counts \/ (n = 1 /\ Row(scr) = scr.roll_top)) /\ scr' = SD(scr, n)
    PROVE  Sound
<1> DEFINE u == UpBy(CellsOf(scr, scr.buff), scr.roll_top, scr.roll_bot, n)
           d == DownBy(CellsOf(scr, scr.buff), scr.roll_top, scr.roll_bot, n)
<1>1. /\ Draws(scr, SU(scr, n), scr.cursor_y, Col(scr), u)
      /\ Draws(scr, SD(scr, n), scr.cursor_y, Col(scr), d)
  BY ScrollRowsDraws
<1> HIDE DEF u, d
<1>2. CASE n \in Counts /\ scr' = SU(scr, n)
  <2>1. Good(scr') /\ Kept(scr, scr') /\ Shows(scr, scr', Row(scr), Col(scr), u)
    BY <1>1, <1>2, DrawnShows
  <2>2. Grid!Next
    BY <1>2, <2>1, GridScrolls DEF u
  <2> QED BY <2>1, <2>2 DEF Sound
<1>3. CASE (n \in Counts \/ (n = 1 /\ Row(scr) = scr.roll_top)) /\ scr' = SD(scr, n)
  <2>1. Good(scr') /\ Kept(scr, scr') /\ Shows(scr, scr', Row(scr), Col(scr), d)
    BY <1>1, <1>3, DrawnShows
  <2>2. Grid!Next
    BY <1>3, <2>1, GridScrolls DEF d
  <2> QED BY <2>1, <2>2 DEF Sound
<1> QED BY <1>2, <1>3

LEMMA ScrollRowsSound == Good(scr) /\ ScrollRows => Sound
<1> SUFFICES ASSUME Good(scr), ScrollRows PROVE Sound
  OBVIOUS
<1>1. PICK n \in Counts : n <= MarginRows /\ scr' \in {SU(scr, n), SD(scr, n)}
  BY DEF ScrollRows
<1>2. n \in Nat /\ n >= 1 /\ n <= scr.roll_bot - scr.roll_top + 1 /\ scr.bAltScreen
  BY <1>1, Count DEF ScrollRows, MarginRows
<1> QED BY <1>1, <1>2, ScrolledSound

LEMMA IndexSound == Good(scr) /\ Index => Sound
BY IndexedSound DEF Index

LEMMA ReverseIndexSound == Good(scr) /\ ReverseIndex => Sound
<1> SUFFICES ASSUME Good(scr), ReverseIndex PROVE Sound
  OBVIOUS
<1>1. scr.bAltScreen /\ scr.cursor_y >= Top(scr)
      /\ scr' = IF scr.cursor_y > Top(scr) THEN At(scr, scr.cursor_y - 1, Col(scr)) ELSE SD(scr, 1)
  BY DEF ReverseIndex
<1>2. /\ scr.roll_top \in Nat /\ scr.roll_bot \in Nat /\ scr.roll_top < scr.roll_bot
      /\ Top(scr) = scr.screen_y + scr.roll_top
      /\ Row(scr) \in 0..(size_y - 1) /\ scr.cursor_y = scr.screen_y + Row(scr) /\ scr.screen_y \in Nat
      /\ Col(scr) \in 0..size_x
  BY <1>1, RowFacts, GoodFacts
<1>3. CASE scr.cursor_y > Top(scr)
  <2>1. Row(scr) - 1 \in 0..(size_y - 1) /\ scr.screen_y + (Row(scr) - 1) = scr.cursor_y - 1
    BY <1>2, <1>3, Sizes
  <2>2. CursorAt(scr, scr.screen_y + (Row(scr) - 1), Col(scr))
    BY <1>1, <1>2, <2>1, OnRow
  <2>3. scr' = At(scr, scr.screen_y + (Row(scr) - 1), Col(scr))
    BY <1>1, <1>3, <2>1
  <2> QED BY <2>2, <2>3, MoveSound
<1>4. CASE ~(scr.cursor_y > Top(scr))
  <2>1. Row(scr) = scr.roll_top /\ 1 <= scr.roll_bot - scr.roll_top + 1
    BY <1>1, <1>2, <1>4
  <2>2. scr' = SD(scr, 1)
    BY <1>1, <1>4
  <2> QED BY <1>1, <2>1, <2>2, ScrolledSound
<1> QED BY <1>3, <1>4

LEMMA DeleteCharactersSound == Good(scr) /\ DeleteCharacters => Sound
<1> SUFFICES ASSUME Good(scr), DeleteCharacters PROVE Sound
  OBVIOUS
<1>1. PICK n \in Counts :
        /\ scr.cursor_x + n <= End(scr)
        /\ scr' = IF DCH(scr, n).bAltScreen THEN DCH(scr, n)
                  ELSE [DCH(scr, n) EXCEPT !.line[DCH(scr, n).cursor_y + 1] =
                          Max({@ - n, DCH(scr, n).line[DCH(scr, n).cursor_y]})]
  BY DEF DeleteCharacters, DCH
<1>2. n \in Nat /\ n >= 1
  BY Count
<1>3. CASE scr.bAltScreen
  <2> DEFINE w == RowDeleted(CellsOf(scr, scr.buff)[Row(scr)], Col(scr), n)
             g == [CellsOf(scr, scr.buff) EXCEPT ![Row(scr)] = w]
  <2>1. Draws(scr, DCH(scr, n), scr.cursor_y, Col(scr), g)
    BY <1>1, <1>2, <1>3, DeletedDraws
  <2>2. DCH(scr, n).bAltScreen
    <3>1. CursorAt(scr, scr.cursor_y, Col(scr))
      BY FirstColumn
    <3> HIDE DEF g
    <3>2. Shows(scr, DCH(scr, n), scr.cursor_y - scr.screen_y, Col(scr), g)
      BY <1>3, <2>1, <3>1, DrawsShows
    <3> QED BY <3>2 DEF Shows
  <2>3. scr' = DCH(scr, n)
    BY <1>1, <2>2
  <2>4. Draws(scr, scr', scr.cursor_y, Col(scr), g)
    BY <2>1, <2>3
  <2> HIDE DEF w
  <2>5. Good(scr') /\ Kept(scr, scr') /\ Shows(scr, scr', Row(scr), Col(scr), g)
    BY <1>3, <2>4, DrawnShows
  <2>6. Grid!Next
    BY <1>3, <2>5, GridEditsRow DEF w
  <2> QED BY <2>5, <2>6 DEF Sound
<1>4. CASE ~scr.bAltScreen
  <2>1. PICK b, e : /\ KeepsText(scr, b) /\ e \in Nat /\ e <= scr.line[scr.cursor_y] + size_x
                    /\ [DCH(scr, n) EXCEPT !.line[DCH(scr, n).cursor_y + 1] =
                          Max({@ - n, DCH(scr, n).line[DCH(scr, n).cursor_y]})] = Edited(scr, b, e, Col(scr))
                    /\ DCH(scr, n).bAltScreen = scr.bAltScreen
    BY <1>1, <1>2, <1>4, DeletedInText
  <2>2. scr' = Edited(scr, b, e, Col(scr))
    BY <1>1, <1>4, <2>1
  <2>3. Col(scr) \in 0..size_x
    BY GoodFacts
  <2> QED BY <1>4, <2>1, <2>2, <2>3, EditedGood, TextSound
<1> QED BY <1>3, <1>4

LEMMA InsertCharactersSound == Good(scr) /\ InsertCharacters => Sound
<1> SUFFICES ASSUME Good(scr), InsertCharacters PROVE Sound
  OBVIOUS
<1>1. PICK n \in Counts : RoomToInsert(n) /\ Col(scr) + n <= size_x /\ scr' = InsertSpaces(scr, n)
  BY DEF InsertCharacters
<1>2. n \in Nat /\ n >= 1
  BY Count
<1>3. CASE scr.bAltScreen
  <2> DEFINE w == RowInserted(CellsOf(scr, scr.buff)[Row(scr)], Col(scr), n)
             g == [CellsOf(scr, scr.buff) EXCEPT ![Row(scr)] = w]
  <2>1. Draws(scr, scr', scr.cursor_y, Col(scr), g)
    BY <1>1, <1>2, <1>3, SpacesDraw
  <2> HIDE DEF w
  <2>2. Good(scr') /\ Kept(scr, scr') /\ Shows(scr, scr', Row(scr), Col(scr), g)
    BY <1>3, <2>1, DrawnShows
  <2>3. Grid!Next
    BY <1>3, <2>2, GridEditsRow DEF w
  <2> QED BY <2>2, <2>3 DEF Sound
<1>4. CASE ~scr.bAltScreen
  <2>1. scr.cursor_x = End(scr)
    BY <1>1, <1>4 DEF RoomToInsert
  <2>2. PICK b : KeepsText(scr, b) /\ scr' = Edited(scr, b, End(scr) + n, Col(scr))
    BY <1>1, <1>2, <1>4, <2>1, SpacesAtEnd
  <2>3. End(scr) + n \in Nat /\ End(scr) + n <= scr.line[scr.cursor_y] + size_x /\ Col(scr) \in 0..size_x
    <3>1. /\ scr.line[scr.cursor_y] \in Nat /\ End(scr) \in Nat
          /\ scr.cursor_x = scr.line[scr.cursor_y] + Col(scr) /\ Col(scr) \in 0..size_x
      BY <1>4, LastLine
    <3>2. PICK p \in Nat : p = scr.line[scr.cursor_y]
      BY <3>1
    <3>3. PICK m \in Nat : m = End(scr)
      BY <3>1
    <3>4. m = p + Col(scr)
      BY <2>1, <3>1, <3>2, <3>3
    <3>5. m + n \in Nat /\ m + n <= p + size_x
      BY ONLY <1>1, <1>2, <3>1, <3>4, m \in Nat, p \in Nat, Sizes
    <3> QED BY ONLY <3>1, <3>2, <3>3, <3>5
  <2> QED BY <1>4, <2>2, <2>3, EditedGood, TextSound
<1> QED BY <1>3, <1>4

\* Bytes of the cursor's line cleared, outside of the alternate screen and on it
LEMMA ClearedText ==
    ASSUME Good(scr), ~scr.bAltScreen, NEW o \in Int, NEW n \in Int, scr.line[scr.cursor_y] <= o,
           scr' = buff_clear(scr, o, n)
    PROVE  Sound
<1> DEFINE b == Cleared(scr.buff, o, n)
<1>1. KeepsText(scr, b)
  <2>1. scr.line[Base(scr)] <= o
    BY LastLine
  <2> QED BY <2>1, SameText, ClearKeeps
<1>2. scr' = [scr EXCEPT !.buff = b]
  BY ClearIs
<1> HIDE DEF b
<1>3. b \in [Bytes -> Char]
  BY <1>1 DEF KeepsText
<1>4. CursorAt(scr, scr.cursor_y, Col(scr)) /\ scr' = Drawn(scr, b, scr.cursor_y, Col(scr))
  BY <1>2, <1>3, DrawnHere
<1> QED BY <1>1, <1>4, DrawnGood, TextSound

\* Clearing a part of the cursor's row.
LEMMA ClearedRow ==
    ASSUME Good(scr), scr.bAltScreen, NEW a \in Nat, NEW n \in Nat, a + n <= size_x,
           scr' = buff_clear(scr, scr.line[scr.cursor_y] + a, n)
    PROVE  /\ Good(scr') /\ Kept(scr, scr')
           /\ Shows(scr, scr', Row(scr), Col(scr),
                [CellsOf(scr, scr.buff) EXCEPT ![Row(scr)] = RowErased(CellsOf(scr, scr.buff)[Row(scr)], a, a + n - 1)])
<1> DEFINE o == scr.line[scr.cursor_y] + a
           g == [CellsOf(scr, scr.buff) EXCEPT ![Row(scr)] = RowErased(CellsOf(scr, scr.buff)[Row(scr)], a, a + n - 1)]
<1>1. o = scr.line[scr.cursor_y] + a
  OBVIOUS
<1>2. scr' = buff_clear(scr, o, n)
  OBVIOUS
<1> HIDE DEF o
<1>3. Draws(scr, scr', scr.cursor_y, Col(scr), g)
  BY <1>1, <1>2, ErasedDraws
<1> HIDE DEF g
<1>4. Good(scr') /\ Kept(scr, scr') /\ Shows(scr, scr', Row(scr), Col(scr), g)
  BY <1>3, DrawnShows
<1> QED BY <1>4 DEF g

LEMMA EraseCharactersSound == Good(scr) /\ EraseCharacters => Sound
<1> SUFFICES ASSUME Good(scr), EraseCharacters PROVE Sound
  OBVIOUS
<1>1. PICK n \in Counts : scr.cursor_x + n <= End(scr) /\ scr' = buff_clear(scr, scr.cursor_x, n)
  BY DEF EraseCharacters
<1>2. n \in Nat
  BY Count
<1>3. scr.cursor_x = scr.line[scr.cursor_y] + Col(scr) /\ Col(scr) \in 0..size_x /\ scr.line[scr.cursor_y] \in Nat
  BY GoodFacts
<1>4. CASE ~scr.bAltScreen
  <2>1. scr.cursor_x \in Int /\ n \in Int /\ scr.line[scr.cursor_y] <= scr.cursor_x
    BY <1>2, <1>3
  <2> QED BY <1>1, <1>4, <2>1, ClearedText
<1>5. CASE scr.bAltScreen
  <2> DEFINE w == RowErased(CellsOf(scr, scr.buff)[Row(scr)], Col(scr), Col(scr) + n - 1)
             g == [CellsOf(scr, scr.buff) EXCEPT ![Row(scr)] = w]
  <2>1. Col(scr) \in Nat /\ Col(scr) + n <= size_x
    <3>1. End(scr) = scr.line[scr.cursor_y] + size_x
      BY <1>5, RowFacts
    <3>2. PICK p \in Nat : p = scr.line[scr.cursor_y]
      BY <1>3
    <3>3. (p + Col(scr)) + n <= p + size_x
      BY <1>1, <1>3, <3>1, <3>2
    <3> QED BY ONLY <1>2, <1>3, <3>3, p \in Nat, Sizes
  <2>2. scr' = buff_clear(scr, scr.line[scr.cursor_y] + Col(scr), n)
    BY <1>1, <1>3
  <2>3. Good(scr') /\ Kept(scr, scr') /\ Shows(scr, scr', Row(scr), Col(scr), g)
    BY <1>2, <1>5, <2>1, <2>2, ClearedRow
  <2> HIDE DEF w
  <2>4. Grid!Next
    BY <1>5, <2>3, GridEditsRow DEF w
  <2> QED BY <2>3, <2>4 DEF Sound
<1> QED BY <1>4, <1>5

LEMMA EraseInLineSound == Good(scr) /\ EraseInLine => Sound
<1> SUFFICES ASSUME Good(scr), EraseInLine PROVE Sound
  OBVIOUS
<1> DEFINE L == scr.line[scr.cursor_y]
<1>1. PICK m0 \in 0..2 :
        /\ m0 = 1 => scr.cursor_x < End(scr)
        /\ scr' = buff_clear(scr, IF m0 = 0 THEN scr.cursor_x ELSE L,
                             (IF m0 = 1 THEN scr.cursor_x + 1 ELSE End(scr)) - (IF m0 = 0 THEN scr.cursor_x ELSE L))
  BY DEF EraseInLine
<1>2. scr.cursor_x = L + Col(scr) /\ Col(scr) \in 0..size_x /\ L \in Nat /\ End(scr) \in Nat
  BY GoodFacts
<1> DEFINE o == IF m0 = 0 THEN scr.cursor_x ELSE L
           n == (IF m0 = 1 THEN scr.cursor_x + 1 ELSE End(scr)) - o
           a == IF m0 = 0 THEN Col(scr) ELSE 0
<1>3. CASE ~scr.bAltScreen
  <2>1. o \in Int /\ n \in Int /\ L <= o /\ scr' = buff_clear(scr, o, n)
    BY <1>1, <1>2
  <2> HIDE DEF o, n
  <2> QED BY <1>3, <2>1, ClearedText
<1>4. CASE scr.bAltScreen
  <2>1. End(scr) = L + size_x
    BY <1>4, RowFacts
  <2>2. o = L + a /\ a \in Nat
    BY <1>2
  <2>3. n = IF m0 = 0 THEN size_x - Col(scr) ELSE IF m0 = 1 THEN Col(scr) + 1 ELSE size_x
    <3>1. PICK p \in Nat : p = L
      BY <1>2
    <3>2. o = p + a /\ scr.cursor_x = p + Col(scr) /\ End(scr) = p + size_x
      BY <1>2, <2>1, <2>2, <3>1
    <3> HIDE DEF o
    <3> QED BY <1>2, <3>2, Sizes
  <2>4. m0 = 1 => Col(scr) < size_x
    <3>1. PICK p \in Nat : p = L
      BY <1>2
    <3>2. m0 = 1 => p + Col(scr) < p + size_x
      BY <1>1, <1>2, <2>1, <3>1
    <3> QED BY ONLY <3>2, <1>2, Sizes
  <2>5. n \in Nat /\ a + n <= size_x
    <3> HIDE DEF n
    <3> QED BY ONLY <2>3, <2>4, <1>2, m0 \in 0..2, Sizes
  <2>6. a + n - 1 = IF m0 = 1 THEN Col(scr) ELSE size_x - 1
    <3> HIDE DEF n
    <3> QED BY ONLY <2>3, <1>2, m0 \in 0..2, Sizes
  <2>7. scr' = buff_clear(scr, L + a, n)
    <3>1. scr' = buff_clear(scr, o, n)
      BY <1>1
    <3> HIDE DEF o, n, a
    <3> QED BY <3>1, <2>2
  <2> DEFINE w == CellsOf(scr, scr.buff)[Row(scr)]
             z == a + n - 1
  <2>8. Good(scr') /\ Kept(scr, scr')
        /\ Shows(scr, scr', Row(scr), Col(scr), [CellsOf(scr, scr.buff) EXCEPT ![Row(scr)] = RowErased(w, a, z)])
    <3> HIDE DEF n, a
    <3> QED BY <1>4, <2>2, <2>5, <2>7, ClearedRow
  <2>9. RowErased(w, a, z) \in {RowErased(w, Col(scr), size_x), RowErased(w, 0, Col(scr)), RowErased(w, 0, size_x)}
    <3>1. z = IF m0 = 1 THEN Col(scr) ELSE size_x - 1
      BY <2>6
    <3> HIDE DEF w, n, z
    <3>2. \A x : RowErased(w, x, size_x - 1) = RowErased(w, x, size_x)
      <4> SUFFICES ASSUME NEW x PROVE RowErased(w, x, size_x - 1) = RowErased(w, x, size_x)
        OBVIOUS
      <4>1. \A c \in 0..(size_x - 1) : c \in x..(size_x - 1) <=> c \in x..size_x
        BY Sizes
      <4> QED BY <4>1 DEF RowErased
    <3>3. CASE m0 = 0
      BY <3>1, <3>2, <3>3
    <3>4. CASE m0 = 1
      BY <3>1, <3>4
    <3>5. CASE m0 = 2
      BY <3>1, <3>2, <3>5
    <3> QED BY <3>3, <3>4, <3>5
  <2> DEFINE v == RowErased(w, a, z)
  <2>10. Grid!Next
    <3>1. Shows(scr, scr', Row(scr), Col(scr), [CellsOf(scr, scr.buff) EXCEPT ![Row(scr)] = v])
      BY <2>8
    <3>2. v \in {RowErased(w, Col(scr), size_x), RowErased(w, 0, Col(scr)), RowErased(w, 0, size_x)}
      BY <2>9
    <3> HIDE DEF v
    <3> QED BY <1>4, <3>1, <3>2, GridEditsRow
  <2> QED BY <2>8, <2>10 DEF Sound
<1> QED BY <1>3, <1>4

LEMMA EraseScreenSound == Good(scr) /\ EraseScreen => Sound
<1> SUFFICES ASSUME Good(scr), EraseScreen PROVE Sound
  OBVIOUS
<1>1. scr.bAltScreen
  BY DEF EraseScreen
<1>2. CASE Row(scr) = 0 /\ scr' = screen_clear(scr, 2)
  <2>1. Good(scr') /\ Kept(scr, scr') /\ Shows(scr, scr', 0, 0, RowsErased(CellsOf(scr, scr.buff), 0, size_y - 1))
    BY <1>1, <1>2, EraseAllShows
  <2> QED BY <1>1, <1>2, <2>1, GridErases DEF Sound
<1>3. CASE Col(scr) < size_x /\ scr' = screen_clear(scr, 1)
  <2>1. Good(scr') /\ Kept(scr, scr')
        /\ Shows(scr, scr', 0, 0, RowsErased([CellsOf(scr, scr.buff) EXCEPT ![Row(scr)] = RowErased(@, 0, Col(scr))],
                                             0, Row(scr) - 1))
    BY <1>1, <1>3, EraseAboveShows
  <2> QED BY <1>1, <2>1, GridErases DEF Sound
<1>4. CASE Col(scr) = 0 /\ scr' = screen_clear(scr, 0)
  <2>1. Good(scr') /\ Kept(scr, scr')
        /\ Shows(scr, scr', Row(scr), 0, RowsErased(CellsOf(scr, scr.buff), Row(scr), size_y - 1))
    BY <1>1, <1>4, EraseBelowShows
  <2> QED BY <1>1, <1>4, <2>1, GridErases DEF Sound
<1> QED BY <1>2, <1>3, <1>4 DEF EraseScreen

LEMMA AlignSound == Good(scr) /\ Align => Sound
<1> SUFFICES ASSUME Good(scr), Align PROVE Sound
  OBVIOUS
<1>1. PICK ch \in Cells : scr' = Filled(scr, ch)
  BY DEF Align, Filled
<1>2. scr.bAltScreen /\ ch \in Char
  BY BlankIsChar DEF Align
<1> DEFINE g == [r \in 0..(size_y - 1) |-> [c \in 0..(size_x - 1) |-> ch]]
<1>3. Draws(scr, scr', scr.cursor_y, Col(scr), g)
  BY <1>1, <1>2, FilledDraws
<1> HIDE DEF g
<1>4. Good(scr') /\ Kept(scr, scr') /\ Shows(scr, scr', Row(scr), Col(scr), g)
  BY <1>2, <1>3, DrawnShows
<1>5. Grid!Next
  BY <1>2, <1>4, GridAligns DEF g
<1> QED BY <1>4, <1>5 DEF Sound

LEMMA EnterAltScreenSound == Good(scr) /\ EnterAltScreen => Sound
<1> SUFFICES ASSUME Good(scr), EnterAltScreen PROVE Sound
  OBVIOUS
<1>1. Good(scr') /\ Kept(scr, scr') /\ Shows(scr, scr', 0, 0, BlankCells)
  BY EnterShows DEF EnterAltScreen
<1> QED BY <1>1, GridEnters DEF Sound, EnterAltScreen

LEMMA LeaveAltScreenSound == Good(scr) /\ LeaveAltScreen => Sound
<1> SUFFICES ASSUME Good(scr), LeaveAltScreen PROVE Sound
  OBVIOUS
<1>1. scr.bAltScreen /\ scr' = Left(scr)
  BY DEF LeaveAltScreen, Left
<1>2. Good(scr') /\ Kept(scr, scr') /\ ~scr'.bAltScreen /\ scr'.roll_top = scr.roll_top /\ scr'.roll_bot = scr.roll_bot
  BY <1>1, LeftGood
<1> QED BY <1>1, <1>2, GridLeaves DEF Sound

\* A step that changes nothing
LEMMA StillSound == Good(scr) /\ UNCHANGED scr => Sound
<1> SUFFICES ASSUME Good(scr), scr' = scr PROVE Sound
  OBVIOUS
<1>1. Good(scr') /\ Kept(scr, scr')
  <2>1. Base(scr) \in Int
    BY GoodFacts
  <2> QED BY <2>1 DEF Kept
<1>2. UNCHANGED Grid!vars
  BY DEF Grid!vars, Shown, Row, Col
<1> QED BY <1>1, <1>2 DEF Sound

\* The window scrolls through the text.
LEMMA ScrolledTextSound ==
    ASSUME Good(scr), ~scr.bAltScreen, NEW v \in Nat, v <= scr.cursor_y, scr' = [scr EXCEPT !.screen_y = v]
    PROVE  Sound
BY ScrolledGood, TextSound

LEMMA WheelSound == Good(scr) /\ Wheel => Sound
<1> SUFFICES ASSUME Good(scr), Wheel PROVE Sound
  OBVIOUS
<1>1. PICK dy \in {-1, 1} : scr' = [scr EXCEPT !.screen_y = Min({Max({@ + dy, 0}), scr.cursor_y})]
  BY DEF Wheel
<1>2. scr.screen_y \in Nat /\ scr.cursor_y \in Nat /\ ~scr.bAltScreen
  BY GoodFacts DEF Wheel
<1> DEFINE a == scr.screen_y + dy
           m == Max({a, 0})
           v == Min({m, scr.cursor_y})
<1>3. m \in Nat
  <2>1. a \in Int
    BY <1>2
  <2> HIDE DEF a
  <2>2. m = IF a >= 0 THEN a ELSE 0
    BY <2>1, MaxOfTwo
  <2> QED BY <2>1, <2>2
<1> HIDE DEF m
<1>4. v = IF m <= scr.cursor_y THEN m ELSE scr.cursor_y
  BY <1>2, <1>3, MinOfTwo
<1>5. v \in Nat /\ v <= scr.cursor_y
  BY <1>2, <1>3, <1>4
<1>6. scr' = [scr EXCEPT !.screen_y = v]
  BY <1>1 DEF m
<1> HIDE DEF v
<1> QED BY <1>2, <1>5, <1>6, ScrolledTextSound

LEMMA DragSound == "drag" \in Care /\ Good(scr) /\ Drag => Sound
<1> SUFFICES ASSUME "drag" \in Care, Good(scr), Drag PROVE Sound
  OBVIOUS
<1>1. ~scr.bAltScreen /\ scr.screen_y \in Nat /\ scr.cursor_y \in Nat
  BY GoodFacts DEF Drag
<1>2. scr.screen_y <= scr.cursor_y
  BY <1>1, LastLine
<1>3. CASE scr' = [scr EXCEPT !.screen_y = Max({@ - 1, 0})]
  <2> DEFINE a == scr.screen_y - 1
             v == Max({a, 0})
  <2>1. a \in Int /\ a <= scr.cursor_y
    BY <1>1, <1>2
  <2>2. scr' = [scr EXCEPT !.screen_y = v]
    BY <1>3
  <2> HIDE DEF a
  <2>3. v = IF a >= 0 THEN a ELSE 0
    BY <2>1, MaxOfTwo
  <2>4. v \in Nat /\ v <= scr.cursor_y
    BY <1>1, <2>1, <2>3
  <2> HIDE DEF v
  <2> QED BY <1>1, <2>2, <2>4, ScrolledTextSound
<1>4. CASE scr' = [scr EXCEPT !.screen_y = Min({@ + 1, scr.cursor_y})]
  <2> DEFINE a == scr.screen_y + 1
             v == Min({a, scr.cursor_y})
  <2>1. a \in Nat
    BY <1>1
  <2>2. scr' = [scr EXCEPT !.screen_y = v]
    BY <1>4
  <2> HIDE DEF a
  <2>3. v = IF a <= scr.cursor_y THEN a ELSE scr.cursor_y
    BY <1>1, <2>1, MinOfTwo
  <2>4. v \in Nat /\ v <= scr.cursor_y
    BY <1>1, <2>1, <2>3
  <2> HIDE DEF v
  <2> QED BY <1>1, <2>2, <2>4, ScrolledTextSound
<1> QED BY <1>3, <1>4 DEF Drag

LEMMA PageKeySound == Good(scr) /\ PageKey => Sound
<1> SUFFICES ASSUME Good(scr), PageKey PROVE Sound
  OBVIOUS
<1>1. ~scr.bAltScreen /\ scr.screen_y \in Nat /\ scr.cursor_y \in Nat
  BY GoodFacts DEF PageKey
<1>2. scr.screen_y <= scr.cursor_y
  BY <1>1, LastLine
<1>3. CASE scr' = [scr EXCEPT !.screen_y = Max({@ - (size_y - 1), 0})]
  <2> DEFINE a == scr.screen_y - (size_y - 1)
             v == Max({a, 0})
  <2>1. a \in Int /\ a <= scr.cursor_y
    BY <1>1, <1>2, Sizes
  <2>2. scr' = [scr EXCEPT !.screen_y = v]
    BY <1>3
  <2> HIDE DEF a
  <2>3. v = IF a >= 0 THEN a ELSE 0
    BY <2>1, MaxOfTwo
  <2>4. v \in Nat /\ v <= scr.cursor_y
    BY <1>1, <2>1, <2>3
  <2> HIDE DEF v
  <2> QED BY <1>1, <2>2, <2>4, ScrolledTextSound
<1>4. CASE scr' = [scr EXCEPT !.screen_y = Min({@ + (size_y - 1), scr.cursor_y})]
  <2> DEFINE a == scr.screen_y + (size_y - 1)
             v == Min({a, scr.cursor_y})
  <2>1. a \in Nat
    BY <1>1, Sizes
  <2>2. scr' = [scr EXCEPT !.screen_y = v]
    BY <1>4
  <2> HIDE DEF a
  <2>3. v = IF a <= scr.cursor_y THEN a ELSE scr.cursor_y
    BY <1>1, <2>1, MinOfTwo
  <2>4. v \in Nat /\ v <= scr.cursor_y
    BY <1>1, <2>1, <2>3
  <2> HIDE DEF v
  <2> QED BY <1>1, <2>2, <2>4, ScrolledTextSound
<1> QED BY <1>3, <1>4 DEF PageKey

\* On the alternate screen the cursor's line is shown, and the key scrolls
\* nothing.
LEMMA KeyDownSound == Good(scr) /\ KeyDown => Sound
<1> SUFFICES ASSUME Good(scr), KeyDown PROVE Sound
  OBVIOUS
<1>1. scr \in State /\ scr.screen_y \in Nat /\ scr.cursor_y \in Nat
  BY GoodFacts
<1> DEFINE a == scr.cursor_y - size_y + 1
           v == Max({scr.screen_y, a})
<1>2. a \in Int /\ a <= scr.cursor_y
  BY <1>1, Sizes
<1>3. scr' = [scr EXCEPT !.screen_y = v]
  BY DEF KeyDown
<1>4. scr.bAltScreen => a <= scr.screen_y
  <2> SUFFICES ASSUME scr.bAltScreen PROVE a <= scr.screen_y
    OBVIOUS
  <2>1. Row(scr) \in 0..(size_y - 1) /\ scr.cursor_y = scr.screen_y + Row(scr)
    BY RowFacts
  <2> QED BY <1>1, <2>1, Sizes
<1> HIDE DEF a
<1>5. v = IF scr.screen_y >= a THEN scr.screen_y ELSE a
  BY <1>1, <1>2, MaxOfTwo
<1> HIDE DEF v
<1>6. CASE scr.bAltScreen
  <2>1. v = scr.screen_y
    BY <1>1, <1>2, <1>4, <1>5, <1>6
  <2>2. scr' = scr
    BY <1>1, <1>3, <2>1 DEF State
  <2> QED BY <2>2, StillSound
<1>7. CASE ~scr.bAltScreen
  <2>1. scr.screen_y <= scr.cursor_y
    BY <1>7, LastLine
  <2>2. v \in Nat /\ v <= scr.cursor_y
    BY <1>1, <1>2, <1>5, <2>1
  <2> QED BY <1>3, <1>7, <2>2, ScrolledTextSound
<1> QED BY <1>6, <1>7

LEMMA SlideSound == "slider" \in Care /\ Good(scr) /\ Slide => Sound
<1> SUFFICES ASSUME "slider" \in Care, Good(scr), Slide PROVE Sound
  OBVIOUS
<1>1. ~scr.bAltScreen /\ scr.cursor_y \in Nat
  BY GoodFacts DEF Slide
<1> DEFINE a == scr.cursor_y - 1
           z == Max({a, 0})
<1>2. PICK v \in 0..z : scr' = [scr EXCEPT !.screen_y = v]
  BY DEF Slide
<1>3. a \in Int /\ a <= scr.cursor_y
  BY <1>1
<1> HIDE DEF a
<1>4. z = IF a >= 0 THEN a ELSE 0
  BY <1>3, MaxOfTwo
<1> HIDE DEF z
<1>5. v \in Nat /\ v <= scr.cursor_y
  BY <1>1, <1>2, <1>3, <1>4
<1> QED BY <1>1, <1>2, <1>5, ScrolledTextSound

LEMMA NextSound == Care = Cares /\ Good(scr) /\ Next => Sound
<1> SUFFICES ASSUME "text" \in Care, "drag" \in Care, "slider" \in Care, Good(scr), Next PROVE Sound
  BY DEF Cares
<1>1. CASE Text
  BY <1>1, CharacterSound, LineFeedSound, CarriageReturnSound, BackspaceSound DEF Text
<1>2. CASE Cursor
  BY <1>2, CursorVerticalSound, LinePositionSound, CursorForwardSound, CursorBackwardSound,
     CursorPositionSound, SetMarginsSound, SaveCursorSound, RestoreCursorSound, LowerLeftSound,
     NextRowSound DEF Cursor
<1>3. CASE Edit
  BY <1>3, InsertLinesSound, DeleteLinesSound, ScrollRowsSound, IndexSound, ReverseIndexSound,
     DeleteCharactersSound, InsertCharactersSound, EraseCharactersSound, EraseInLineSound,
     EraseScreenSound, AlignSound DEF Edit
<1>4. CASE Mode
  BY <1>4, SetModeSound, EnterAltScreenSound, LeaveAltScreenSound DEF Mode
<1>5. CASE Window
  BY <1>5, WheelSound, PageKeySound, KeyDownSound, DragSound, SlideSound DEF Window
<1> QED BY <1>1, <1>2, <1>3, <1>4, <1>5 DEF Next

LEMMA InitGood == Init => Good(scr) /\ Grid!Init
<1> SUFFICES ASSUME Init PROVE Good(scr) /\ Grid!Init
  OBVIOUS
<1>1. 0 \in Lines /\ 1 \in Lines /\ size_y - 1 \in Nat
  BY Sizes, LineNumbers
<1>2. /\ scr \in State
      /\ scr.line = [i \in Lines |-> 0] /\ scr.cursor_x = 0 /\ scr.cursor_y = 0 /\ scr.screen_y = 0
      /\ scr.roll_top = 0 /\ scr.roll_bot = size_y - 1 /\ scr.save_x = 0 /\ scr.save_y = 0 /\ ~scr.bAltScreen
  <2>1. [i \in Bytes |-> Blank] \in [Bytes -> Char]
    BY BlankIsChar
  <2>2. [i \in Lines |-> 0] \in [Lines -> Nat]
    OBVIOUS
  <2> DEFINE b == [i \in Bytes |-> Blank]
             l == [i \in Lines |-> 0]
  <2>3. scr = [buff |-> b, line |-> l,
               cursor_x |-> 0, cursor_y |-> 0, screen_y |-> 0,
               roll_top |-> 0, roll_bot |-> size_y - 1, save_x |-> 0, save_y |-> 0,
               bAltScreen |-> FALSE, bInsert |-> FALSE, bWraparound |-> TRUE, bOriginMode |-> FALSE]
    BY DEF Init
  <2> HIDE DEF b, l
  <2>4. /\ scr \in State
        /\ scr.line = l /\ scr.cursor_x = 0 /\ scr.cursor_y = 0 /\ scr.screen_y = 0
        /\ scr.roll_top = 0 /\ scr.roll_bot = size_y - 1 /\ scr.save_x = 0 /\ scr.save_y = 0 /\ ~scr.bAltScreen
    BY <2>1, <2>2, <2>3, <1>1 DEF State, b, l
  <2> QED BY <2>4 DEF l
<1>3. Base(scr) = 0 /\ Col(scr) = 0 /\ End(scr) = 0 /\ scr.line[0] = 0
  BY <1>1, <1>2 DEF Base, Col, End
<1>4. OfScreen(scr)
  BY <1>2, Sizes DEF OfScreen
<1>5. TextAbove(scr)
  <2>1. 0 * (size_x + 1) = 0
    BY Sizes
  <2> QED BY <2>1, <1>3, Sizes DEF TextAbove
<1>6. InText(scr)
  <2>1. \A i \in Lines : scr.line[i] = 0
    BY <1>2
  <2> QED BY <2>1, <1>1, <1>2, <1>3, Sizes DEF InText
<1>7. Good(scr)
  BY <1>2, <1>3, <1>4, <1>5, <1>6, Sizes DEF Good
<1>8. Grid!Init
  BY <1>2 DEF Grid!Init, Grid!BlankGrid, Grid!Row, Grid!BlankRow, Grid!Column
<1> QED BY <1>7, <1>8

LEMMA GoodStays == Care = Cares /\ Good(scr) /\ [Next]_scr => Good(scr')
<1> SUFFICES ASSUME Care = Cares, Good(scr), [Next]_scr PROVE Good(scr')
  OBVIOUS
<1>1. CASE Next
  BY <1>1, NextSound DEF Sound
<1>2. CASE UNCHANGED scr
  BY <1>2
<1> QED BY <1>1, <1>2

----------------------------------------------------------------------------
(* Theorems.  They are about a host and a user who take every care: the runs *)
(* Screen_Leave, Screen_Drag and Screen_Slider show what happens when they   *)
(* do not.                                                                   *)

\* The screen as it stands is good.
GoodScreen == Good(scr)

\* The inductive invariant holds: whatever sequences the host sends, the
\* margins, the cursor and the saved cursor are on the screen, and no line
\* before it is longer than a row and its line feed.
THEOREM TypeCorrect == Care = Cares => (Spec => []GoodScreen)
<1> SUFFICES ASSUME Care = Cares PROVE Spec => []GoodScreen
  OBVIOUS
<1>1. Init => GoodScreen
  BY InitGood DEF GoodScreen
<1>2. GoodScreen /\ [Next]_scr => GoodScreen'
  BY GoodStays DEF GoodScreen
<1> QED BY <1>1, <1>2, PTL DEF Spec

\* In a window of any size every row of the alternate screen stays a line of
\* size_x bytes and the cursor in one of them, and elsewhere no line follows
\* the cursor's: what vt100_Escape() takes for granted when it computes places
\* in buff.
THEOREM RowsStayInPlace == Care = Cares => (Spec => []RowsInPlace)
<1> SUFFICES ASSUME Care = Cares PROVE Spec => []RowsInPlace
  OBVIOUS
<1>1. GoodScreen => RowsInPlace
  <2> SUFFICES ASSUME Good(scr) PROVE RowsInPlace
    BY DEF GoodScreen
  <2>1. CASE scr.bAltScreen
    <3>1. OnScreen(scr) /\ Col(scr) \in 0..size_x
      BY <2>1 DEF Good
    <3> QED BY <2>1, <3>1 DEF RowsInPlace, OnScreen
  <2>2. CASE ~scr.bAltScreen
    <3>1. InText(scr) /\ TextAbove(scr) /\ Base(scr) = scr.cursor_y /\ Col(scr) \in 0..size_x
      BY <2>2 DEF Good, Base
    <3>2. Col(scr) >= 0
      BY <3>1, Sizes
    <3> QED BY <2>2, <3>1, <3>2 DEF RowsInPlace, InText, TextAbove
  <2> QED BY <2>1, <2>2
<1>2. Spec => []GoodScreen
  BY TypeCorrect
<1> QED BY <1>1, <1>2, PTL

\* For a host and a user who take care, no sequence, key or scrolling changes
\* the text that was scrolled back, neither its bytes nor the index of its
\* lines, and the alternate screen begins and ends at the same line.
THEOREM TextIsKept == Care = Cares => (Spec => ScrollbackKept)
<1> SUFFICES ASSUME Care = Cares PROVE Spec => ScrollbackKept
  OBVIOUS
<1> DEFINE Keeps == Kept(scr, scr')
<1>1. GoodScreen /\ [Next]_scr => [Keeps]_scr
  BY NextSound DEF Sound, GoodScreen
<1>2. Spec => []GoodScreen
  BY TypeCorrect
<1>3. [Keeps]_scr <=>
        [ /\ IF scr.bAltScreen \/ scr'.bAltScreen THEN Base(scr') = Base(scr) ELSE Base(scr') >= Base(scr)
          /\ \A i \in 0..Base(scr) : scr'.line[i] = scr.line[i]
          /\ \A i \in Bytes : i < scr.line[Base(scr)] => scr'.buff[i] = scr.buff[i] ]_scr
  BY DEF Kept
<1> HIDE DEF Keeps
<1> QED BY <1>1, <1>2, <1>3, PTL DEF Spec, ScrollbackKept

\* What the window shows on the alternate screen is what a vt100 would: the
\* long buffer with its index of lines implements the grid of cells.
THEOREM GridImplemented == Care = Cares => (Spec => DrawsGrid)
<1> SUFFICES ASSUME Care = Cares PROVE Spec => DrawsGrid
  OBVIOUS
<1>1. Init => Grid!Init
  BY InitGood
<1>2. GoodScreen /\ [Next]_scr => [Grid!Next]_(Grid!vars)
  <2> SUFFICES ASSUME Good(scr), [Next]_scr PROVE [Grid!Next]_(Grid!vars)
    BY DEF GoodScreen
  <2>1. CASE Next
    BY <2>1, NextSound DEF Sound
  <2>2. CASE UNCHANGED scr
    <3>1. UNCHANGED Grid!vars
      BY <2>2 DEF Grid!vars, Shown, Row, Col
    <3> QED BY <3>1
  <2> QED BY <2>1, <2>2
<1>3. Spec => []GoodScreen
  BY TypeCorrect
<1> QED BY <1>1, <1>2, <1>3, PTL DEF Spec, DrawsGrid, Grid!Spec
=============================================================================
