---------------------------- MODULE ScrollBuffer ----------------------------
(***************************************************************************)
(* Fl_Term's scroll back buffer as plain text fills it: the index of the   *)
(* lines, the cursor, the lines on the screen, and the buffer that is      *)
(* doubled until it has 64K lines and loses its older half from then on.   *)
(*                                                                         *)
(* Of the text only one bit of each byte matters here: whether it is a     *)
(* UTF-8 continuation byte.  Escape sequences are not in this module, so   *)
(* the cursor stays on the last line and bAltScreen is false.              *)
(***************************************************************************)
EXTENDS Integers, FiniteSets

CONSTANTS
    LineSize0,   \* lines of a new buffer: 4096
    LineSizeMax, \* lines of the largest buffer: 65536
    LineBytes,   \* bytes of buffer for each line: 64
    Slack,       \* bytes kept free for the line being written: 1024
    Cols,        \* size_x
    Rows,        \* the values of size_y
    TabStop,     \* distance of the tab stops: 8
    CharBytes,   \* lengths of the host's characters in UTF-8: 1..4
    MaxLine      \* bound: bytes of one line; the code has none

Half == LineSizeMax \div 2

\* A buffer of LineSize0 lines that is doubled again and again gets to LineSizeMax.
ASSUME SizesAssumption ==
    /\ {LineSize0, LineSizeMax, LineBytes, Slack, Cols, TabStop, MaxLine} \subseteq Nat \ {0}
    /\ LineSize0 > 3
    /\ \E Sizes \in SUBSET (LineSize0..Half) :
          LineSize0 \in Sizes /\ \A n \in Sizes : 2 * n \in Sizes \cup {LineSizeMax}
    /\ CharBytes \subseteq 1..4
    /\ Rows \subseteq 1..(LineSize0 - 1)
    /\ Slack < LineSize0 * LineBytes

\* What the code takes for granted of the host and does not see to.  No line is
\* longer than the room that is kept for it, 1024 bytes: lines are cut at size_x
\* characters, but not behind a tab past the last column, since the count of
\* characters, 620, then never is size_x again (ScrollBuffer_Tab.cfg).  And the bytes
\* of the largest buffer do not run out before it has half of its lines: lines of
\* 126 bytes with the code's sizes (ScrollBuffer_Half.cfg).
ShortLines ==
    /\ MaxLine <= Slack
    /\ (Half - 1) * (MaxLine + 1) <= LineSizeMax * LineBytes - Slack

VARIABLES
    buf,      \* line, line_size, cursor_x, cursor_y, screen_y, bScrollbar, and
              \* cont: where the cursor's line has continuation bytes
    size_y,   \* rows of the window
    more      \* continuation bytes the host has still to send

vars == <<buf, size_y, more>>

Start(b) == b.line[b.cursor_y]
End(b) == b.line[b.cursor_y + 1]

\* How many characters are left of the cursor, by their first bytes.
CharCount(b) == Cardinality((Start(b)..(b.cursor_x - 1)) \ b.cont)

\* clear()
Cleared ==
    [line |-> [i \in 0..(LineSize0 - 1) |-> 0], line_size |-> LineSize0,
     cursor_x |-> 0, cursor_y |-> 0, screen_y |-> 0, bScrollbar |-> FALSE, cont |-> {}]

Init ==
    /\ buf = Cleared
    /\ size_y \in Rows
    /\ more = 0

----------------------------------------------------------------------------
(* next_line() *)

\* Slip: the bytes of the buffer are not looked at.
Full_LinesOnly(b) == b.cursor_y > b.line_size - 3

Full(b) == \/ b.cursor_x > b.line_size * LineBytes - Slack
           \/ b.cursor_y > b.line_size - 3

\* Slip: the whole index is zeroed instead of its new half.
Grown_ZeroAll(b) ==
    [b EXCEPT !.line_size = 2 * @, !.line = [i \in 0..(2 * b.line_size - 1) |-> 0]]

\* realloc() to twice the size; the new half is zero.
Grown(b) ==
    [b EXCEPT !.line_size = 2 * @,
              !.line = [i \in 0..(2 * b.line_size - 1) |-> IF i < b.line_size THEN b.line[i] ELSE 0]]

\* The index without its older half.
UpperLines(b) ==
    [i \in 0..(b.line_size - 1) |->
        IF i >= b.line_size - Half THEN 0
        ELSE IF i + Half <= b.cursor_y + 1 THEN b.line[i + Half] - b.line[Half]
        ELSE b.line[i + Half]]

\* Slip: the screen stays at its line number.
Trimmed_KeepScreen(b) ==
    [b EXCEPT !.line = UpperLines(b), !.cursor_y = @ - Half,
              !.cursor_x = @ - b.line[Half], !.cont = {}]

\* Slip: the screen is not clamped to the first line left.
Trimmed_Unclamped(b) == [Trimmed_KeepScreen(b) EXCEPT !.screen_y = @ - Half]

\* The older half is erased: the lines from Half on move down, and what is
\* behind the line just begun is zeroed.
Trimmed(b) ==
    [b EXCEPT !.line = UpperLines(b),
              !.screen_y = IF @ < Half THEN 0 ELSE @ - Half,
              !.cursor_y = @ - Half,
              !.cursor_x = @ - b.line[Half],
              !.cont = {}]

\* Slip: the line just begun keeps the end it had.
Advanced_OldEnd(b) ==
    LET y == b.cursor_y + 1
    IN  [b EXCEPT
          !.cursor_y = y,
          !.line[y] = b.cursor_x,
          !.screen_y = IF @ = y - size_y THEN @ + 1 ELSE @,
          !.cont = {i \in @ : i >= b.cursor_x}]

\* The next line starts at the cursor; the screen follows when it was at its
\* last row.
Advanced(b) ==
    LET y == b.cursor_y + 1
    IN  [b EXCEPT
          !.cursor_y = y,
          !.line = [b.line EXCEPT ![y] = b.cursor_x,
                                  ![y + 1] = IF @ < b.cursor_x THEN b.cursor_x ELSE @],
          !.screen_y = IF @ = y - size_y THEN @ + 1 ELSE @,
          !.cont = {i \in @ : i >= b.cursor_x}]

\* The buffers next_line() may leave: memory may be refused.
NextLine(b) ==
    LET a == Advanced(b)
    IN  IF ~Full(a) THEN {a}
        ELSE IF a.line_size < LineSizeMax THEN {Grown(a), Cleared}
        ELSE {Trimmed(a)}

----------------------------------------------------------------------------
(* append(), one byte of the host's output at a time *)

\* A byte at the cursor; isCont tells a continuation byte.
Put(b, isCont) ==
    [b EXCEPT
       !.cursor_x = @ + 1,
       !.line[b.cursor_y + 1] = IF @ < b.cursor_x + 1 THEN b.cursor_x + 1 ELSE @,
       !.cont = IF isCont THEN @ \cup {b.cursor_x} ELSE @ \ {b.cursor_x}]

\* The host keeps its lines to MaxLine bytes: the code looks at their columns only,
\* where a line has Cols of them exactly.
LineAllows(n) == buf.cursor_x - Start(buf) + n <= MaxLine

\* A byte of a character, on the next line when the line has Cols characters.
PutByte(isCont) ==
    \E b \in IF buf.cursor_x - Start(buf) >= Cols /\ CharCount(buf) = Cols
                THEN NextLine(buf) ELSE {buf} :
        buf' = Put(b, isCont)

FirstByte ==
    /\ more = 0
    /\ LineAllows(1)
    /\ \E n \in CharBytes : more' = n - 1
    /\ PutByte(FALSE)
    /\ UNCHANGED size_y

ContinuationByte ==
    /\ more > 0
    /\ LineAllows(1)
    /\ more' = more - 1
    /\ PutByte(TRUE)
    /\ UNCHANGED size_y

\* 0x0a at the end of the line, wherever the cursor is in it.
LineFeed ==
    /\ more = 0
    /\ buf.line[buf.cursor_y + 2] = 0
    /\ buf' \in NextLine([buf EXCEPT !.cursor_x = End(buf) + 1, !.cont = @ \ {End(buf)}])
    /\ UNCHANGED <<size_y, more>>

\* One column past the line's end and no LF to come: a soft line feed.
CarriageReturn ==
    /\ more = 0
    /\ \/ /\ buf.cursor_x - Start(buf) = Cols + 1
          /\ buf' \in NextLine(buf)
       \/ buf' = [buf EXCEPT !.cursor_x = Start(buf)]   \* the next byte may be LF
    /\ UNCHANGED <<size_y, more>>

\* Over the continuation bytes when the cursor is on one; -1 is the byte before
\* the buffer.
Backspace ==
    /\ more = 0
    /\ buf.cursor_x > Start(buf)
    /\ buf' = [buf EXCEPT !.cursor_x =
                 IF @ \in buf.cont
                    THEN CHOOSE i \in -1..(@ - 1) :
                           i \notin buf.cont /\ \A j \in (i + 1)..(@ - 1) : j \in buf.cont
                    ELSE @ - 1]
    /\ UNCHANGED <<size_y, more>>

\* Spaces to the next tab stop, or to one column past the line's end; the
\* line's end stays where it was.
Tab ==
    /\ more = 0
    /\ LET at == buf.cursor_x - Start(buf)
           to == CHOOSE l \in (at + 1)..(at + TabStop + Cols + 1) :
                   /\ l > Cols \/ l % TabStop = 0
                   /\ \A k \in (at + 1)..(l - 1) : k <= Cols /\ k % TabStop # 0
       IN  /\ LineAllows(to - at)
           /\ buf' = [buf EXCEPT !.cursor_x = Start(buf) + to,
                                 !.cont = {i \in @ : i < buf.cursor_x \/ i >= Start(buf) + to}]
    /\ UNCHANGED <<size_y, more>>

Output == FirstByte \/ ContinuationByte \/ LineFeed \/ CarriageReturn \/ Backspace \/ Tab

----------------------------------------------------------------------------
(* The window: handle(), resize(), !Clear *)

Bottom == buf.cursor_y - size_y + 1

Wheel(dy) ==
    LET top == IF buf.screen_y + dy < 0 THEN 0
               ELSE IF buf.screen_y + dy > buf.cursor_y THEN buf.cursor_y
               ELSE buf.screen_y + dy
    IN  buf' = [buf EXCEPT !.screen_y = top, !.bScrollbar = top < Bottom]

PageUp ==
    buf' = [buf EXCEPT !.bScrollbar = TRUE,
                       !.screen_y = IF @ < size_y - 1 THEN 0 ELSE @ - (size_y - 1)]

PageDown ==
    LET top == buf.screen_y + size_y - 1
    IN  buf' = [buf EXCEPT
                  !.bScrollbar = IF top > buf.cursor_y - size_y THEN FALSE ELSE @,
                  !.screen_y = IF top > buf.cursor_y THEN buf.cursor_y ELSE top]

\* A click on the scrollbar or a drag of its slider, to a line before the last,
\* and the selection of text beyond the first or the last row; bScrollbar stays.
Drag == \E y \in 0..buf.cursor_y : buf' = [buf EXCEPT !.screen_y = y]

\* Any other key brings the cursor's line back; bScrollbar stays.
KeyDown == buf' = [buf EXCEPT !.screen_y = IF @ < Bottom THEN Bottom ELSE @]

Scroll ==
    /\ \/ \E dy \in {-1, 1} : Wheel(dy)
       \/ PageUp \/ PageDown \/ Drag \/ KeyDown
    /\ UNCHANGED <<size_y, more>>

Resize ==
    /\ size_y' \in Rows \ {size_y}
    /\ buf' = [buf EXCEPT !.screen_y = IF @ < buf.cursor_y - size_y' + 1
                                          THEN buf.cursor_y - size_y' + 1 ELSE @]
    /\ UNCHANGED more

\* clear() leaves append() to go on with the bytes that are still to come.
Clear ==
    /\ buf' = Cleared
    /\ UNCHANGED <<size_y, more>>

Next == Output \/ Scroll \/ Resize \/ Clear

Spec == Init /\ [][Next]_vars

----------------------------------------------------------------------------
(* Properties *)

\* The cursor has a line, with two more after it for append() to look at, and
\* the screen starts at a line that has text.
TypeOK ==
    /\ buf.line_size \in LineSize0..LineSizeMax
    /\ buf.line \in [0..(buf.line_size - 1) -> 0..(LineSizeMax * LineBytes)]
    /\ buf.cursor_y \in 0..(buf.line_size - 3)
    /\ buf.screen_y \in 0..buf.cursor_y
    /\ buf.cursor_x \in Nat \cup {-1}
    /\ buf.bScrollbar \in BOOLEAN
    /\ size_y \in Rows
    /\ more \in 0..3

\* The index is ordered as draw() and the mouse use it: each line ends where
\* the next one starts, nothing follows the last one, and the cursor is in it, or
\* one byte before when a backspace takes a character cut by the line's start.
LinesInOrder ==
    /\ \A i \in 0..buf.cursor_y : buf.line[i] <= buf.line[i + 1]
    /\ \A i \in (buf.cursor_y + 2)..(buf.line_size - 1) : buf.line[i] = 0
    /\ Start(buf) - 1 <= buf.cursor_x
    /\ \A i \in buf.cont : i >= Start(buf)

\* Wherever the line starts that is being written there is Slack left for it,
\* in a buffer that grows and loses its older half while the host writes on: a line
\* that is no longer stays in the buffer.  Nothing else keeps it there.
RoomForLine == Start(buf) <= buf.line_size * LineBytes - Slack

\* "if ( cursor_x-line[cursor_y]>=size_x )", 616: a line ends in the buffer.
LineInBuffer == End(buf) <= buf.line_size * LineBytes

CursorShown(b, rows) == b.cursor_y \in b.screen_y..(b.screen_y + rows - 1)

\* Output never scrolls the line it writes out of the window, when that line
\* was in the window: not by a line feed, a doubled or a halved buffer.
FollowsOutput ==
    [][Output /\ CursorShown(buf, size_y) => CursorShown(buf', size_y)]_vars

\* The finished line i of the new buffer is as long as line i + k of the old.
KeptFrom(k) ==
    /\ buf'.cursor_y + k \in {buf.cursor_y, buf.cursor_y + 1}
    /\ \A i \in k..(buf.cursor_y - 1) :
           buf'.line[i - k + 1] - buf'.line[i - k] = buf.line[i + 1] - buf.line[i]

\* Finished lines are kept: no output changes one, but that half of the largest
\* buffer goes at once, or all of it when memory is refused.
NoLineLost ==
    [][Output => \/ KeptFrom(0)
                 \/ buf.line_size = LineSizeMax /\ KeptFrom(Half)
                 \/ buf'.line_size = LineSize0 /\ buf'.cursor_y = 0]_vars

\* 0x08: "if ( cursor_x>line[cursor_y] )", a backspace stays in its line.
CursorInLine == Start(buf) <= buf.cursor_x

\* "erase half of buffer at 64k lines" leaves the cursor in the other half.
CursorInBuffer == buf.cursor_y >= 0

\* "scrollbar is hidden by default, which will appear when scrolled back":
\* draw() divides by cursor_y to place its slider.
ScrollbarHasText == buf.bScrollbar => buf.cursor_y > 0
=============================================================================
