-------------------------------- MODULE Lcd --------------------------------
(* The LCD, DRIVERS/src/LCD.c, and the display items of                      *)
(* FreeRTOS-Env/src/display.c that tell what to do with it: values and       *)
(* operators only.                                                           *)
(*                                                                           *)
(* A character is <<kind, name, i>>, the i-th of a text that is known by its *)
(* kind and name; number 0 is a line feed.                                   *)
EXTENDS Naturals, Sequences, SequencesExt

MAX_ROWS    == 1
MAX_COLUMNS == 15
Cells == (0..MAX_ROWS) \X (0..MAX_COLUMNS)
Blank == <<"blank", "none", 0>>

Text(kind, name, n) == [i \in 1..n |-> <<kind, name, i>>]
\* n characters, a line feed, and m more.
TwoLines(kind, name, n, m) ==
    [i \in 1..(n + 1 + m) |-> <<kind, name, IF i = n + 1 THEN 0 ELSE i>>]
Feed(text) == LET feeds == {i \in DOMAIN text : text[i][3] = 0}
              IN IF feeds = {} THEN Len(text) + 1 ELSE CHOOSE i \in feeds : TRUE
-----------------------------------------------------------------------------
\* The LCD: what the cells of the screen show, and the cursor, <<row, column>>.
\* A position that is not on the screen is ignored.
SetCursor(l, row, column) ==
    IF row > MAX_ROWS \/ column > MAX_COLUMNS THEN l ELSE [l EXCEPT !.cursor = <<row, column>>]

Cleared  == [c \in Cells |-> Blank]
Clear(l) == [l EXCEPT !.cells = Cleared, !.cursor = <<0, 0>>]

\* Where the i-th character of a text goes that has its line feed at feed: in the
\* first row a text goes on in the second, after its last column and after the
\* line feed; what does not fit in the second row is off the screen.  (No text of
\* the program has a line feed behind a full first row.)
Place(l, feed, i) ==
    LET n == l.cursor[2] + i - 1 IN
    IF l.cursor[1] = 1 THEN <<1, n>>
    ELSE IF i > feed THEN <<1, i - feed - 1>>
    ELSE IF n > MAX_COLUMNS THEN <<1, n - MAX_COLUMNS - 1>> ELSE <<0, n>>

\* The cursor stays behind the last character, and wraps with the next one.
WriteString(l, text) ==
    LET feed   == Feed(text)
        places == [i \in DOMAIN text \ {feed} |-> Place(l, feed, i)]
        end    == Place(l, feed, Len(text))
        Char(c) == {text[i] : i \in {k \in DOMAIN places : places[k] = c}}
    IN  [l EXCEPT !.cells = [c \in Cells |-> IF Char(c) = {} THEN @[c] ELSE CHOOSE x \in Char(c) : TRUE],
                  !.cursor = <<end[1], end[2] + 1>>]

Power == [cells |-> Cleared, cursor |-> <<0, 0>>, blink |-> FALSE]
-----------------------------------------------------------------------------
\* The items: id and what args points to.
WRITE_STR(text) == [id |-> "WRITE_STR", args |-> text]
CURSOR_SET(row, column) == [id |-> "CURSOR_SET", args |-> <<row, column>>]
CLEAR == [id |-> "CLEAR", args |-> << >>]
WRITE_CMD(blink) == [id |-> "WRITE_CMD", args |-> <<blink>>]

\* What DISPLAY_Manager does with an item.
Obey(l, item) ==
    CASE item.id = "WRITE_STR"  -> WriteString(l, item.args)
      [] item.id = "CURSOR_SET" -> SetCursor(l, item.args[1], item.args[2])
      [] item.id = "CLEAR"      -> Clear(l)
      [] item.id = "WRITE_CMD"  -> [l EXCEPT !.blink = item.args[1]]

\* The LCD after the first n of some items, for each n, and after all of them.
AfterItems(l, items) ==
    LET after[n \in 0..Len(items)] == IF n = 0 THEN l ELSE Obey(after[n - 1], items[n]) IN after
Drawn(l, items) == AfterItems(l, items)[Len(items)]
-----------------------------------------------------------------------------
\* Every text that the program shows, by kind and name; the items; and the LCD.
CharKinds == {"blank", "started", "main", "unspecified", "selected", "unselected", "question", "answer",
              "date", "begins", "done", "failed", "error", "sucess"}
CharNames == {"none", "Calendar", "Clock", "DelFreq", "DelVolume", "Sync", "Connect", "Yes", "No",
              "display", "buttons", "wifi", "mode", "join", "ntp", "clock", "radio", "mqtt", "menu"}
Chars == CharKinds \X CharNames \X Nat
Items == [id : {"WRITE_STR"}, args : Seq(Chars)]
    \cup [id : {"CURSOR_SET"}, args : Nat \X Nat]
    \cup [id : {"CLEAR"}, args : {<< >>}]
    \cup [id : {"WRITE_CMD"}, args : {<<b>> : b \in BOOLEAN}]
LCDs  == [cells : [Cells -> Chars], cursor : (0..MAX_ROWS) \X Nat, blink : BOOLEAN]

\* A text is on the screen from a position on, row after row.
Visible(l, row, column, text) ==
    \A i \in DOMAIN text : LET n == row * (MAX_COLUMNS + 1) + column + i - 1
        IN l.cells[<<n \div (MAX_COLUMNS + 1), n % (MAX_COLUMNS + 1)>>] = text[i]

\* Nothing but these texts is on the screen.
OnlyTexts(l, texts) == \A c \in Cells : l.cells[c] = Blank \/ \E t \in texts : l.cells[c] \in ToSet(t)
=============================================================================
