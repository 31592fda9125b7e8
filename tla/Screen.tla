------------------------------- MODULE Screen -------------------------------
(***************************************************************************)
(* Fl_Term's escape sequences.  There is no screen in memory: the rows of  *)
(* the window are the lines of the scroll back buffer from screen_y on,    *)
(* one after the other in `buff`, and a host that draws on the alternate   *)
(* screen works on size_y lines of size_x bytes laid out behind the text.  *)
(*                                                                         *)
(* Characters are of one byte.  A sequence is one step: its bytes, the     *)
(* attributes that move with the text, titles, character sets, tabs and    *)
(* the size of the window are left out, and the buffer is large enough.    *)
(***************************************************************************)
EXTENDS Integers, Sequences, FiniteSetsExt

CONSTANTS
    size_x, size_y, \* columns and rows of the window
    Counts,         \* the numbers sequences have
    MaxLine,        \* bound: lines of the scroll back buffer
    SavedAt,        \* bound: where the cursor is saved, <<row, column>>
    Care            \* what the host and the user take care of, see Cares

\* "text": after leaving the alternate screen the host sends text before a line
\* feed.  On the alternate screen the user drags no selection out of the window
\* ("drag"), nor the slider of a scrollbar still shown there ("slider").
Cares == {"text", "drag", "slider"}

Blank == "blank"    \* a space, or a byte never written
LF == "LF"
Cells == {"x"}

ASSUME ScreenAssumption ==
    /\ size_x \in Nat /\ size_x > 1 /\ size_y \in Nat /\ size_y > 1
    /\ Counts \subseteq Nat \ {0}
    /\ MaxLine \in Nat
    /\ Care \subseteq Cares

VARIABLE scr

Lines == 0..(MaxLine + 2 * size_y + 2)
Bytes == 0..((MaxLine + 1) * (size_x + 2) + (size_y + 1) * size_x)

Init ==
    scr = [buff |-> [i \in Bytes |-> Blank], line |-> [i \in Lines |-> 0],
           cursor_x |-> 0, cursor_y |-> 0, screen_y |-> 0,
           roll_top |-> 0, roll_bot |-> size_y - 1, save_x |-> 0, save_y |-> 0,
           bAltScreen |-> FALSE, bInsert |-> FALSE, bWraparound |-> TRUE, bOriginMode |-> FALSE]

Row(s) == s.cursor_y - s.screen_y
Col(s) == s.cursor_x - s.line[s.cursor_y]
End(s) == s.line[s.cursor_y + 1]
Top(s) == s.screen_y + s.roll_top
Bot(s) == s.screen_y + s.roll_bot

----------------------------------------------------------------------------
(* What the sequences are made of *)

buff_clear(s, offset, len) ==
    [s EXCEPT !.buff = [i \in Bytes |-> IF i \in offset..(offset + len - 1) THEN Blank ELSE @[i]]]

\* memcpy(); where source and destination overlap, the copy the libraries of
\* the platforms FLTerm is built for make.
Copied(buff, to, from, len) ==
    [i \in Bytes |-> IF i \in to..(to + len - 1) THEN buff[i - to + from] ELSE buff[i]]

\* A loop of such copies: the k-th is of len bytes, to to[k] from from[k].
Copies(buff, to, from, len) ==
    LET b[k \in 0..Len(to)] ==
          IF k = 0 THEN buff
          ELSE LET done == b[k - 1] IN Copied(done, to[k], from[k], len)
    IN  b[Len(to)]

\* The lines of the sequence, in turn, become copies of those d further.
CopyLines(s, lines, d) ==
    [s EXCEPT !.buff = Copies(@, [k \in 1..Len(lines) |-> s.line[lines[k]]],
                                 [k \in 1..Len(lines) |-> s.line[lines[k] + d]], size_x)]

\* The bytes of the sequence, in turn, move by d.
MoveBytes(s, bytes, d) ==
    [s EXCEPT !.buff = Copies(@, [k \in 1..Len(bytes) |-> bytes[k] + d], bytes, 1)]

Ascending(a, z) == [k \in 1..(IF z < a THEN 0 ELSE z - a + 1) |-> a + k - 1]
Descending(z, a) == [k \in 1..(IF z < a THEN 0 ELSE z - a + 1) |-> z - k + 1]

At(s, y, x) == [s EXCEPT !.cursor_y = y, !.cursor_x = s.line[y] + x]

\* next_line() in a buffer that need not grow
next_line(s) ==
    LET y == s.cursor_y + 1
    IN  [s EXCEPT !.cursor_y = y,
                  !.line[y] = s.cursor_x,
                  !.line[y + 1] = IF @ < s.cursor_x THEN s.cursor_x ELSE @,
                  !.screen_y = IF @ = y - size_y THEN @ + 1 ELSE @]

check_cursor_y(s, y) ==
    LET shown == Min({Max({y, s.screen_y}), s.screen_y + size_y - 1})
    IN  IF s.bOriginMode THEN Min({Max({shown, Top(s)}), Bot(s)}) ELSE shown

\* Blank lines of size_x from the cursor's line on, n of them.
BlankLines(s, n) ==
    LET t[k \in 0..n] ==
          IF k = 0 THEN [s EXCEPT !.cursor_x = s.line[s.cursor_y]]
          ELSE LET u == t[k - 1]
               IN  next_line([buff_clear(u, u.cursor_x, size_x) EXCEPT !.cursor_x = @ + size_x])
    IN  t[n]

\* The part of the screen m0 names is laid out again, in blank lines.
screen_clear(s, m0) ==
    LET a == CASE m0 = 2 -> [s EXCEPT !.screen_y = s.cursor_y]
               [] m0 = 1 -> [buff_clear(s, s.line[s.cursor_y], Col(s) + 1)
                               EXCEPT !.cursor_y = s.screen_y]
               [] m0 = 0 -> buff_clear(s, s.cursor_x, End(s) - s.cursor_x)
        b == BlankLines(a, IF m0 = 1 THEN Row(s) ELSE a.screen_y + size_y - a.cursor_y)
    IN  At(IF m0 = 1 THEN b ELSE [b EXCEPT !.screen_y = @ - 1], a.cursor_y, 0)

\* ESC [ n @
InsertSpaces(s, n) ==
    LET moved == MoveBytes(s, Descending(End(s) - n - 1, s.cursor_x), n)
        longer == Min({End(s) + n, s.line[s.cursor_y] + size_x})
    IN  buff_clear(IF s.bAltScreen THEN moved ELSE [moved EXCEPT !.line[s.cursor_y + 1] = longer],
                   s.cursor_x, n)

\* ESC D: the text between the margins moves up by the length of its first
\* line, and the index with it.
IND(s) ==
    IF s.cursor_y < Bot(s) THEN At(s, s.cursor_y + 1, Col(s))
    ELSE LET len == s.line[Top(s) + 1] - s.line[Top(s)]
             a == [s EXCEPT !.buff = Copied(@, s.line[Top(s)], s.line[Top(s) + 1],
                                               s.line[Bot(s) + 1] - s.line[Top(s) + 1])]
             b == [a EXCEPT !.line = [i \in Lines |->
                     IF i \in (Top(s) + 1)..Bot(s) THEN s.line[i + 1] - len ELSE s.line[i]]]
             c == buff_clear(b, b.line[Bot(s)], b.line[Bot(s) + 1] - b.line[Bot(s)])
         IN  At(c, c.cursor_y, Col(s))

----------------------------------------------------------------------------
(* append(): text *)

\* A character, in the next line when the row has size_x of them.
Put(s, ch) ==
    LET a == IF s.bInsert THEN InsertSpaces(s, 1) ELSE s
        b == IF Col(a) # size_x THEN a
             ELSE IF a.bWraparound THEN next_line(a) ELSE [a EXCEPT !.cursor_x = @ - 1]
    IN  [b EXCEPT !.buff[b.cursor_x] = ch, !.cursor_x = @ + 1,
                  !.line[b.cursor_y + 1] = IF @ < b.cursor_x + 1 THEN b.cursor_x + 1 ELSE @]

\* The bound, and in the alternate screen its last row, which the host does not
\* leave by writing on.
LineFollows == IF scr.bAltScreen THEN Row(scr) < size_y - 1 ELSE scr.cursor_y < MaxLine

\* In insert mode the host writes where there is a character to move, or none
\* behind it (ESC [ @ beyond the row's end blanks the next row's first cell;
\* outside of the alternate screen it loses the line's last character).
RoomToInsert(n) ==
    IF scr.bAltScreen THEN Col(scr) + n <= size_x ELSE scr.cursor_x = End(scr)

Character ==
    /\ Col(scr) = size_x /\ scr.bWraparound => LineFollows
    /\ scr.bInsert => Col(scr) < size_x /\ RoomToInsert(1)
    /\ \E ch \in Cells : scr' = Put(scr, ch)

\* 0x0a: ESC D when a line follows, or a new line behind the line's end, which
\* may be before the cursor; after the alternate screen it is not known (0).
LineFeed ==
    IF scr.bAltScreen \/ scr.line[scr.cursor_y + 2] # 0
      THEN scr.cursor_y <= Bot(scr) /\ scr' = IND(scr)
      ELSE /\ LineFollows
           /\ "text" \in Care => End(scr) >= scr.line[scr.cursor_y]
           /\ scr' = next_line([scr EXCEPT !.buff[End(scr)] = LF, !.cursor_x = End(scr) + 1])

CarriageReturn == scr' = At(scr, scr.cursor_y, 0)

Backspace == Col(scr) > 0 /\ scr' = At(scr, scr.cursor_y, Col(scr) - 1)

----------------------------------------------------------------------------
(* vt100_Escape(): the cursor *)

\* CUU, CUD, CNL and CPL; the first two keep the column.
CursorVertical ==
    /\ scr.bAltScreen
    /\ \E n \in Counts, keep \in BOOLEAN :
         \/ scr' = At(scr, check_cursor_y(scr, scr.cursor_y - n), IF keep THEN Col(scr) ELSE 0)
         \/ scr' = At(scr, check_cursor_y(scr, scr.cursor_y + n), IF keep THEN Col(scr) ELSE 0)

\* VPA: from the screen's first row, in origin mode too.
LinePosition ==
    /\ scr.bAltScreen
    /\ \E n \in Counts : scr' = At(scr, scr.screen_y + Min({n, size_y}) - 1, Col(scr))

\* CUF from the cursor and CHA from column 0 go n columns; not behind the last.
ForwardFrom(x, n) == Max({x, Min({x + n, size_x - 1})})
CursorForward ==
    \E n \in Counts, x \in {Col(scr), 0} : scr' = At(scr, scr.cursor_y, ForwardFrom(x, n))

CursorBackward ==
    \E n \in Counts : scr' = At(scr, scr.cursor_y, Max({Col(scr) - n, 0}))

\* CUP; the host asks for a column of the row.
CursorPosition ==
    /\ scr.bAltScreen
    /\ \E n1 \in Counts, n0 \in 1..size_x :
         LET y == scr.screen_y + n1 - 1 + (IF scr.bOriginMode THEN scr.roll_top ELSE 0)
         IN  scr' = At(scr, check_cursor_y(scr, y), n0 - 1)

\* DECSTBM: of two rows at least.
SetMargins ==
    /\ scr.bAltScreen
    /\ \E n1 \in 1..(size_y - 1) : \E n0 \in (n1 + 1)..size_y :
         LET s == [scr EXCEPT !.roll_top = n1 - 1, !.roll_bot = n0 - 1]
         IN  scr' = At(s, s.screen_y + (IF s.bOriginMode THEN s.roll_top ELSE 0), 0)

SaveCursor ==
    /\ scr.bAltScreen
    /\ <<Row(scr), Col(scr)>> \in SavedAt
    /\ scr' = [scr EXCEPT !.save_x = Col(scr), !.save_y = Row(scr)]

RestoreCursor == scr.bAltScreen /\ scr' = At(scr, scr.save_y + scr.screen_y, scr.save_x)

LowerLeft == scr.bAltScreen /\ scr' = At(scr, scr.screen_y + size_y - 1, 0)

\* NEL does not scroll: the host asks for it above the last row.
NextRow == scr.bAltScreen /\ Row(scr) < size_y - 1 /\ scr' = At(scr, scr.cursor_y + 1, 0)

----------------------------------------------------------------------------
(* vt100_Escape(): the text *)

WithinMargins == scr.cursor_y \in Top(scr)..Bot(scr)
MarginRows == scr.roll_bot - scr.roll_top + 1

\* Slip: the line that is copied first is the first.
IL_Ascending(s, n0) ==
    LET n == Min({n0, Bot(s) - s.cursor_y + 1})
        a == CopyLines(s, Ascending(s.cursor_y + n, Bot(s)), -n)
    IN  buff_clear(At(a, s.cursor_y, 0), s.line[s.cursor_y], size_x * n)

IL(s, n0) ==
    LET n == Min({n0, Bot(s) - s.cursor_y + 1})
        a == CopyLines(s, Descending(Bot(s), s.cursor_y + n), -n)
    IN  buff_clear(At(a, s.cursor_y, 0), s.line[s.cursor_y], size_x * n)

DL(s, n0) ==
    LET n == Min({n0, Bot(s) - s.cursor_y + 1})
        a == CopyLines(s, Ascending(s.cursor_y, Bot(s) - n), n)
    IN  buff_clear(At(a, s.cursor_y, 0), s.line[Bot(s) - n + 1], size_x * n)

\* The host inserts and deletes lines between the margins.
InsertLines == scr.bAltScreen /\ WithinMargins /\ \E n \in Counts : scr' = IL(scr, n)
DeleteLines == scr.bAltScreen /\ WithinMargins /\ \E n \in Counts : scr' = DL(scr, n)

SU(s, n) == buff_clear(CopyLines(s, Ascending(Top(s), Bot(s) - n), n), s.line[Bot(s) - n + 1], n * size_x)
SD(s, n) == buff_clear(CopyLines(s, Descending(Bot(s), Top(s) + n), -n), s.line[Top(s)], n * size_x)

\* By no more than the rows between the margins.
ScrollRows ==
    /\ scr.bAltScreen
    /\ \E n \in Counts : n <= MarginRows /\ scr' \in {SU(scr, n), SD(scr, n)}

\* IND and RI; the host is not beyond the margin it may scroll at.
Index == scr.bAltScreen /\ scr.cursor_y <= Bot(scr) /\ scr' = IND(scr)
ReverseIndex ==
    /\ scr.bAltScreen
    /\ scr.cursor_y >= Top(scr)
    /\ scr' = IF scr.cursor_y > Top(scr) THEN At(scr, scr.cursor_y - 1, Col(scr)) ELSE SD(scr, 1)

DeleteCharacters ==
    \E n \in Counts :
      /\ scr.cursor_x + n <= End(scr)
      /\ LET moved == MoveBytes(scr, Ascending(scr.cursor_x + n, End(scr) - 1), -n)
             s == buff_clear(moved, End(scr) - n, n)
         IN  scr' = IF s.bAltScreen THEN s
                    ELSE [s EXCEPT !.line[s.cursor_y + 1] = Max({@ - n, s.line[s.cursor_y]})]

InsertCharacters == \E n \in Counts : RoomToInsert(n) /\ Col(scr) + n <= size_x /\ scr' = InsertSpaces(scr, n)

EraseCharacters == \E n \in Counts : scr.cursor_x + n <= End(scr) /\ scr' = buff_clear(scr, scr.cursor_x, n)

\* EL
EraseInLine ==
    \E m0 \in 0..2 :
      LET a == IF m0 = 0 THEN scr.cursor_x ELSE scr.line[scr.cursor_y]
          z == IF m0 = 1 THEN scr.cursor_x + 1 ELSE End(scr)
      IN  (m0 = 1 => scr.cursor_x < End(scr)) /\ scr' = buff_clear(scr, a, z - a)

\* ED: of the whole screen in its first row, where screen_y stays, and to its
\* end in the first column, as the whole of the row is cleared.
EraseScreen ==
    /\ scr.bAltScreen
    /\ \/ Row(scr) = 0 /\ scr' = screen_clear(scr, 2)
       \/ Col(scr) < size_x /\ scr' = screen_clear(scr, 1)
       \/ Col(scr) = 0 /\ scr' = screen_clear(scr, 0)

\* DECALN
Align ==
    /\ scr.bAltScreen
    /\ \E ch \in Cells :
         scr' = [scr EXCEPT !.buff = [i \in Bytes |->
                   IF i \in scr.line[scr.screen_y]..(scr.line[scr.screen_y] + size_x * size_y - 1)
                     THEN ch ELSE @[i]]]

----------------------------------------------------------------------------
(* vt100_Escape(): modes; handle(): the window *)

\* IRM, DECAWM and DECOM; bound: one of them at a time is not as it starts.
SetMode ==
    /\ scr.bAltScreen
    /\ \E on \in BOOLEAN :
         \/ ~scr.bOriginMode /\ scr.bWraparound /\ scr' = [scr EXCEPT !.bInsert = on]
         \/ ~scr.bOriginMode /\ ~scr.bInsert /\ scr' = [scr EXCEPT !.bWraparound = on]
         \/ ~scr.bInsert /\ scr.bWraparound /\ scr' = [scr EXCEPT !.bOriginMode = on]

\* ESC [?1049h lays out a blank screen from the cursor's line on.
EnterAltScreen ==
    /\ ~scr.bAltScreen
    /\ scr' = screen_clear([scr EXCEPT !.bAltScreen = TRUE], 2)

\* Bound: the host has set the margins back, which play no part in what follows.
WholeScreen == scr.roll_top = 0 /\ scr.roll_bot = size_y - 1

\* Slip: the lines of the alternate screen stay in the index.
LeaveAltScreen_KeepLines ==
    /\ scr.bAltScreen /\ WholeScreen
    /\ scr' = [scr EXCEPT !.bAltScreen = FALSE,
                          !.cursor_y = scr.screen_y, !.cursor_x = scr.line[scr.screen_y],
                          !.screen_y = Max({scr.screen_y - size_y + 1, 0})]

\* ESC [?1049l forgets the screen's lines and shows those before it.
LeaveAltScreen ==
    /\ scr.bAltScreen /\ WholeScreen
    /\ scr' = [scr EXCEPT !.bAltScreen = FALSE,
                          !.cursor_y = scr.screen_y, !.cursor_x = scr.line[scr.screen_y],
                          !.line = [i \in Lines |->
                             IF i \in (scr.screen_y + 1)..(scr.screen_y + size_y + 1) THEN 0 ELSE @[i]],
                          !.screen_y = Max({scr.screen_y - size_y + 1, 0})]

\* Slip: the wheel scrolls the alternate screen too.
Wheel_Always ==
    \E dy \in {-1, 1} : scr' = [scr EXCEPT !.screen_y = Min({Max({@ + dy, 0}), scr.cursor_y})]

Wheel ==
    /\ ~scr.bAltScreen
    /\ \E dy \in {-1, 1} : scr' = [scr EXCEPT !.screen_y = Min({Max({@ + dy, 0}), scr.cursor_y})]

\* Page Up and Page Down
PageKey ==
    /\ ~scr.bAltScreen
    /\ scr' \in {[scr EXCEPT !.screen_y = Max({@ - (size_y - 1), 0})],
                 [scr EXCEPT !.screen_y = Min({@ + (size_y - 1), scr.cursor_y})]}

\* Any other key brings the cursor's line back.
KeyDown == scr' = [scr EXCEPT !.screen_y = Max({@, scr.cursor_y - size_y + 1})]

\* A selection dragged over the window's edge scrolls.
Drag ==
    /\ scr.bAltScreen => "drag" \notin Care
    /\ scr' \in {[scr EXCEPT !.screen_y = Max({@ - 1, 0})],
                 [scr EXCEPT !.screen_y = Min({@ + 1, scr.cursor_y})]}

\* A push on the scrollbar or a drag of its slider, on the alternate screen too.
\* Whether the bar is shown is left out: Page Up shows it, and ?1049h, which
\* sets screen_y anew, leaves it as it is.
Slide ==
    /\ scr.bAltScreen => "slider" \notin Care
    /\ \E y \in 0..Max({scr.cursor_y - 1, 0}) : scr' = [scr EXCEPT !.screen_y = y]

Text == Character \/ LineFeed \/ CarriageReturn \/ Backspace
Cursor == \/ CursorVertical \/ LinePosition \/ CursorForward \/ CursorBackward
          \/ CursorPosition \/ SetMargins \/ SaveCursor \/ RestoreCursor \/ LowerLeft \/ NextRow
\* Bound: outside of the alternate screen the host edits the last line only.
Edit ==
    /\ scr.bAltScreen \/ scr.cursor_y = MaxLine
    /\ \/ InsertLines \/ DeleteLines \/ ScrollRows \/ Index \/ ReverseIndex
       \/ DeleteCharacters \/ InsertCharacters \/ EraseCharacters
       \/ EraseInLine \/ EraseScreen \/ Align
Mode == SetMode \/ EnterAltScreen \/ LeaveAltScreen

Window == Wheel \/ PageKey \/ KeyDown \/ Drag \/ Slide

Next == Text \/ Cursor \/ Edit \/ Mode \/ Window

Spec == Init /\ [][Next]_scr

----------------------------------------------------------------------------
(* Properties *)

\* No sequence pulls the rows apart: on the alternate screen every row of the
\* window is a line of size_x bytes and the cursor is in one of them, which is
\* what makes a place in `buff` a row and a column.  Elsewhere the lines are in
\* order up to the cursor's, which no line follows.
RowsInPlace ==
    IF scr.bAltScreen
      THEN /\ \A r \in 0..(size_y - 1) : scr.line[scr.screen_y + r + 1] = scr.line[scr.screen_y + r] + size_x
           /\ Row(scr) \in 0..(size_y - 1)
           /\ Col(scr) \in 0..size_x
      ELSE /\ \A i \in 0..(scr.cursor_y - 1) : scr.line[i] <= scr.line[i + 1]
           /\ \A i \in Lines : i > scr.cursor_y + 1 => scr.line[i] = 0
           /\ Col(scr) >= 0

\* The first line that output may change.
Base(s) == IF s.bAltScreen THEN s.screen_y ELSE s.cursor_y

\* For a host and a user who take care: what the host draws never reaches the
\* text before the alternate screen, and leaving it returns to the line it was
\* entered on; text that was scrolled back never changes.  It rests on
\* screen_y, which the window moves too: handle() tests bAltScreen for the
\* wheel and the page keys, and nothing but Care holds the rest back.
ScrollbackKept ==
    [][ /\ IF scr.bAltScreen \/ scr'.bAltScreen THEN Base(scr') = Base(scr) ELSE Base(scr') >= Base(scr)
        /\ \A i \in 0..Base(scr) : scr'.line[i] = scr.line[i]
        /\ \A i \in Bytes : i < scr.line[Base(scr)] => scr'.buff[i] = scr.buff[i] ]_scr

Shown ==
    [r \in 0..(size_y - 1) |-> [c \in 0..(size_x - 1) |-> scr.buff[scr.line[scr.screen_y + r] + c]]]

Grid ==
    INSTANCE Vt100Grid
      WITH Rows <- size_y, Cols <- size_x,
           on <- scr.bAltScreen,
           grid <- IF scr.bAltScreen THEN Shown
                   ELSE [r \in 0..(size_y - 1) |-> [c \in 0..(size_x - 1) |-> Blank]],
           row <- IF scr.bAltScreen THEN Row(scr) ELSE 0,
           col <- IF scr.bAltScreen THEN Col(scr) ELSE 0,
           top <- scr.roll_top, bot <- scr.roll_bot

\* The bytes that the sequences copy and clear in one long buffer are, row by
\* row, the cells a vt100 would show.
DrawsGrid == Grid!Spec

\* Text that was written stays: a line feed after the alternate screen too.
LineFeedAfterLeave ==
    [][LineFeed /\ ~scr.bAltScreen => \A i \in Bytes : i < scr.line[scr.cursor_y] => scr'.buff[i] = scr.buff[i]]_scr
=============================================================================
