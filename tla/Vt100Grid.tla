------------------------------ MODULE Vt100Grid ------------------------------
(***************************************************************************)
(* What a host that draws on the alternate screen relies on: a grid of     *)
(* cells, a cursor, and margins between which rows scroll.  Every step     *)
(* changes the cells as one vt100 sequence does, at the cursor; where the  *)
(* cursor goes next is left open.                                          *)
(***************************************************************************)
EXTENDS Integers

CONSTANTS Rows, Cols, Blank, Cells, Counts

VARIABLES
    on,        \* the alternate screen is shown
    grid,      \* its cells
    row, col,  \* the cursor; column Cols is behind the last cell
    top, bot   \* the margins

vars == <<on, grid, row, col, top, bot>>

Row == 0..(Rows - 1)
Column == 0..(Cols - 1)
BlankRow == [c \in Column |-> Blank]
BlankGrid == [r \in Row |-> BlankRow]

Init == ~on /\ grid = BlankGrid /\ row = 0 /\ col = 0 /\ top = 0 /\ bot = Rows - 1

\* Rows t to b move up or down by n; the rows that come in are blank.
ScrolledUp(t, b, n) ==
    LET g == grid
    IN  [r \in Row |-> IF r \notin t..b THEN g[r] ELSE IF r + n <= b THEN g[r + n] ELSE BlankRow]
ScrolledDown(t, b, n) ==
    LET g == grid
    IN  [r \in Row |-> IF r \notin t..b THEN g[r] ELSE IF r - n >= t THEN g[r - n] ELSE BlankRow]

\* The cursor's row from the cursor on, n cells longer or shorter.
Inserted(n) ==
    [grid EXCEPT ![row] = [c \in Column |->
        IF c < col THEN @[c] ELSE IF c < col + n THEN Blank ELSE @[c - n]]]
Deleted(n) ==
    [grid EXCEPT ![row] = [c \in Column |->
        IF c < col THEN @[c] ELSE IF c + n < Cols THEN @[c + n] ELSE Blank]]

\* The cells of the row in columns a to z, or rows a to z, blank.
Erased(a, z) == [grid EXCEPT ![row] = [c \in Column |-> IF c \in a..z THEN Blank ELSE @[c]]]
ErasedRows(a, z) == LET g == grid IN [r \in Row |-> IF r \in a..z THEN BlankRow ELSE g[r]]

Same == UNCHANGED <<on, top, bot>>

Enter == ~on /\ on' /\ grid' = BlankGrid /\ row' = 0 /\ col' = 0 /\ UNCHANGED <<top, bot>>
Leave == on /\ ~on' /\ grid' = BlankGrid /\ row' = 0 /\ col' = 0 /\ UNCHANGED <<top, bot>>

\* A character at the cursor, in the next row or in the last cell when the row
\* is full; in insert mode the rest of the row makes room for it.
Character ==
    /\ on
    /\ \E ch \in Cells, insert \in BOOLEAN :
         \/ /\ col < Cols
            /\ grid' = [IF insert THEN Inserted(1) ELSE grid EXCEPT ![row][col] = ch]
            /\ row' = row /\ col' = col + 1
         \/ /\ col = Cols /\ row < Rows - 1
            /\ grid' = [grid EXCEPT ![row + 1][0] = ch]
            /\ row' = row + 1 /\ col' = 1
         \/ /\ col = Cols
            /\ grid' = [grid EXCEPT ![row][Cols - 1] = ch]
            /\ row' = row /\ col' = Cols
    /\ Same

Move == on /\ grid' = grid /\ row' \in Row /\ col' \in 0..Cols /\ Same

SetMargins == on /\ grid' = grid /\ row' \in Row /\ col' = 0 /\ top' < bot' /\ UNCHANGED on

\* IL, DL: the rows from the cursor's to the bottom margin.
InsertOrDeleteLines ==
    /\ on /\ row \in top..bot
    /\ \E n \in Counts : grid' \in {ScrolledDown(row, bot, n), ScrolledUp(row, bot, n)}
    /\ row' = row /\ col' = 0 /\ Same

\* SU, SD by any number; IND at the bottom and RI at the top margin by one.
Scroll ==
    /\ on
    /\ \/ \E n \in Counts : grid' \in {ScrolledUp(top, bot, n), ScrolledDown(top, bot, n)}
       \/ row = bot /\ grid' = ScrolledUp(top, bot, 1)
       \/ row = top /\ grid' = ScrolledDown(top, bot, 1)
    /\ UNCHANGED <<row, col>> /\ Same

\* ICH, DCH, ECH and EL.
EditRow ==
    /\ on
    /\ \/ \E n \in Counts : grid' \in {Inserted(n), Deleted(n), Erased(col, col + n - 1)}
       \/ grid' \in {Erased(col, Cols), Erased(0, col), Erased(0, Cols)}
    /\ UNCHANGED <<row, col>> /\ Same

\* ED: the rows after the cursor's and the rest of its own, those before it and
\* its own to the cursor, or all; FLTerm then has the cursor in column 0, and
\* for the second in the first row.
EraseScreen ==
    /\ on /\ col' = 0 /\ Same
    /\ \/ grid' = ErasedRows(row, Rows - 1) /\ col = 0 /\ row' = row
       \/ /\ grid' = [ErasedRows(0, row) EXCEPT ![row] = Erased(0, col)[row]]
          /\ row' = 0
       \/ grid' = BlankGrid /\ row' = row

\* DECALN
Align ==
    /\ on /\ UNCHANGED <<row, col>> /\ Same
    /\ \E ch \in Cells : grid' = [r \in Row |-> [c \in Column |-> ch]]

Next == \/ Move \/ Enter \/ Leave \/ Character \/ SetMargins \/ InsertOrDeleteLines
        \/ Scroll \/ EditRow \/ EraseScreen \/ Align

Spec == Init /\ [][Next]_vars
=============================================================================
