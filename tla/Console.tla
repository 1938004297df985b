------------------------------ MODULE Console ------------------------------
(***************************************************************************)
(* The text screen (console.cpp): characters are put into a window of      *)
(* Height rows of Width cells, which scrolls; compared with a page of      *)
(* paper that is as long as it needs to be.                                *)
(***************************************************************************)
EXTENDS Integers, Sequences

CONSTANTS Width, Height, Chars, MaxChars

VARIABLES
  videoMemory,            \* from a position to a character, or Blank
  cursorRow, cursorCol,
  hardwareCursor,         \* the position that the screen's controller was told
  page                    \* all rows since the last clearScreen()

vars == <<videoMemory, cursorRow, cursorCol, hardwareCursor, page>>

Blank == 0
NewLine == -1

ScrollWithoutBlank(memory) ==
  [p \in 0..(Width * Height - 1) |->
    IF p < Width * (Height - 1) THEN memory[p + Width] ELSE memory[p]]

\* scrollScreen() copies each row to the one above, and blanks the last.
ScrollScreen(memory) ==
  [p \in 0..(Width * Height - 1) |->
    IF p < Width * (Height - 1) THEN memory[p + Width] ELSE Blank]

\* One character of printf(), at the cursor; a row that is full goes on in the next.
Put(s, c) ==
  LET written == IF c = NewLine THEN s.memory
                 ELSE [s.memory EXCEPT ![s.row * Width + s.col] = c]
      ends    == c = NewLine \/ s.col + 1 >= Width
      row     == IF ends THEN s.row + 1 ELSE s.row
      col     == IF ends THEN 0 ELSE s.col + 1
  IN  IF row >= Height
        THEN [memory |-> ScrollScreen(written), row |-> Height - 1, col |-> col]
        ELSE [memory |-> written, row |-> row, col |-> col]

Printed(text) ==
  LET s[i \in 0..Len(text)] ==
        IF i = 0 THEN [memory |-> videoMemory, row |-> cursorRow, col |-> cursorCol]
        ELSE Put(s[i - 1], text[i])
  IN  s[Len(text)]

\* The page: a character goes to the end of the last row.
OnPage(rows, c) ==
  LET last == rows[Len(rows)]
      row  == IF c = NewLine THEN last ELSE Append(last, c)
      with == [rows EXCEPT ![Len(rows)] = row]
  IN  IF c = NewLine \/ Len(row) = Width THEN Append(with, <<>>) ELSE with

PageAfter(text) ==
  LET p[i \in 0..Len(text)] == IF i = 0 THEN page ELSE OnPage(p[i - 1], text[i])
  IN  p[Len(text)]

\* printf(), and updateCursor() at its end.
Printf(text) ==
  /\ LET s == Printed(text)
     IN  /\ videoMemory' = s.memory
         /\ cursorRow' = s.row
         /\ cursorCol' = s.col
         /\ hardwareCursor' = s.row * Width + s.col
  /\ page' = PageAfter(text)
  /\ Len(page') <= MaxChars

ClearScreen ==
  /\ videoMemory' = [p \in 0..(Width * Height - 1) |-> Blank]
  /\ cursorRow' = 0 /\ cursorCol' = 0 /\ hardwareCursor' = 0
  /\ page' = << <<>> >>

Init ==
  /\ videoMemory = [p \in 0..(Width * Height - 1) |-> Blank]
  /\ cursorRow = 0 /\ cursorCol = 0 /\ hardwareCursor = 0
  /\ page = << <<>> >>

Next ==
  \/ \E n \in 1..3 : \E text \in [1..n -> Chars \cup {NewLine}] : Printf(text)
  \/ ClearScreen

\* The screen shows the end of the page, and the cursor stands where the next
\* character goes, whatever lines, wraps and scrolls there were (printf(),
\* scrollScreen(), updateCursor()).
ScreenShowsPage ==
  LET top == IF Len(page) > Height THEN Len(page) - Height ELSE 0
      cell(r, c) == IF top + r + 1 \in DOMAIN page /\ c + 1 \in DOMAIN page[top + r + 1]
                      THEN page[top + r + 1][c + 1] ELSE Blank
  IN  /\ \A r \in 0..(Height - 1), c \in 0..(Width - 1) : videoMemory[r * Width + c] = cell(r, c)
      /\ top + cursorRow + 1 = Len(page) /\ cursorCol = Len(page[Len(page)])
      /\ hardwareCursor = cursorRow * Width + cursorCol
=============================================================================
