-------------------------------- MODULE Kilo --------------------------------
(* The kilo screen editor (src/kilo/kilo.c): rows with their rendered and    *)
(* highlighted forms, a cursor kept as a window offset and a place inside    *)
(* the window, the incremental search and the file on disk.  One step is one *)
(* key.  A character is a string; an array is a sequence, and idx keeps the  *)
(* source's counting from 0.                                                 *)
EXTENDS Integers, Sequences, SequencesExt

CONSTANTS
    Windows,     \* [rows, cols, keys, file, coloured, stale]: the editor's start
    TabStop,     \* 8 in the source
    Keywords,    \* the words of the syntax: set of [word, second]
    QuitTimes,   \* KILO_QUIT_TIMES
    MaxKeys      \* bound: keys pressed

VARIABLES
    win,         \* the start chosen, never changed
    rows,        \* E.row[0 .. numrows-1]
    at,          \* E.cx, E.cy, E.rowoff, E.coloff
    dirty,       \* E.dirty > 0
    quits,       \* quit_times
    disk,        \* the characters of the file, stale tail included
    kept,        \* the lines a load of the file would give
    find,        \* the locals of editorFind
    ended,       \* exit(0)
    off,         \* what has taken the cursor out of the window, where it still is
    steady,      \* no row was added or removed inside the text, no // was seen
    pressed      \* keys pressed so far

vars == <<win, rows, at, dirty, quits, disk, kept, find, ended, off, steady, pressed>>

Commands == {"ENTER", "BS", "LEFT", "RIGHT", "UP", "DOWN", "PGUP", "PGDN",
             "HOME", "END", "^S", "^Q", "^F", "ESC"}
Fill(c, n) == [i \in 1 .. n |-> c]
At(s, i)   == IF i \in 1 .. Len(s) THEN s[i] ELSE "NUL"
Home(r)    == [cx |-> 0, cy |-> 0, rowoff |-> r, coloff |-> 0]
-----------------------------------------------------------------------------
(* Highlighting.                                                             *)
IsSeparator(c) == c \in {"NUL", " ", "*", "/", "."}
IsPrint(c)     == c # "CR"

RowHasOpenComment(row) ==
    LET n == Len(row.render) IN
    /\ n > 0
    /\ At(row.hl, n) = "MLCOMMENT"
    /\ n < 2 \/ row.render[n - 1] # "*" \/ row.render[n] # "/"

\* One turn of the loop over the rendered row: s is its place i, prev_sep,
\* in_string and in_comment, the highlights so far and whether it returned.
Advance(s, n, h) == [s EXCEPT !.i = @ + n,
    !.hl = [k \in DOMAIN @ |-> IF k \in s.i .. s.i + n - 1 THEN h ELSE @[k]]]
KeywordAt(r, i) == {w \in Keywords :
    /\ \A k \in DOMAIN w.word : At(r, i + k - 1) = w.word[k]
    /\ IsSeparator(At(r, i + Len(w.word)))}
Turn(r, s, size) ==
    LET c == r[s.i]  next == At(r, s.i + 1)  was == At(s.hl, s.i - 1) IN
    IF s.sep /\ c = "/" /\ next = "/"
    THEN [Advance(s, size - s.i + 1, "COMMENT") EXCEPT !.cut = TRUE]
    ELSE IF s.comment /\ c = "*" /\ next = "/"
    THEN [Advance(s, 2, "MLCOMMENT") EXCEPT !.comment = FALSE, !.sep = TRUE]
    ELSE IF s.comment
    THEN [Advance(s, 1, "MLCOMMENT") EXCEPT !.sep = FALSE]
    ELSE IF c = "/" /\ next = "*"
    THEN [Advance(s, 2, "MLCOMMENT") EXCEPT !.comment = TRUE, !.sep = FALSE]
    ELSE IF s.string # "no"
    THEN [Advance(s, 1, "STRING") EXCEPT !.string = IF c = s.string THEN "no" ELSE @]
    ELSE IF c \in {"\"", "'"}
    THEN [Advance(s, 1, "STRING") EXCEPT !.string = c, !.sep = FALSE]
    ELSE IF ~IsPrint(c)
    THEN [Advance(s, 1, "NONPRINT") EXCEPT !.sep = FALSE]
    ELSE IF \/ c = "1" /\ (s.sep \/ was = "NUMBER")
            \/ c = "." /\ was = "NUMBER"
    THEN [Advance(s, 1, "NUMBER") EXCEPT !.sep = FALSE]
    ELSE IF s.sep /\ KeywordAt(r, s.i) # {}
    THEN LET w == CHOOSE w \in KeywordAt(r, s.i) : TRUE IN
         [Advance(s, Len(w.word), IF w.second THEN "KEYWORD2" ELSE "KEYWORD1")
             EXCEPT !.sep = FALSE]
    ELSE [Advance(s, 1, "NORMAL") EXCEPT !.sep = IsSeparator(c)]

RECURSIVE Scan(_, _, _)
Scan(r, s, size) == IF s.cut \/ At(r, s.i) = "NUL" THEN s
                    ELSE Scan(r, Turn(r, s, size), size)
RECURSIVE Blanks(_, _)
Blanks(r, i) == IF At(r, i) = " " THEN Blanks(r, i + 1) ELSE i

\* editorUpdateSyntax of the row in place k, when E.numrows is n; the state of
\* the comment goes on to the row after it, whose place is taken from idx.
RECURSIVE UpdateSyntax(_, _, _)
UpdateSyntax(rs, n, k) ==
    LET row   == rs[k]
        above == /\ row.idx > 0
                 /\ IF row.idx <= Len(rs) THEN RowHasOpenComment(rs[row.idx]) ELSE win.stale
        s     == Scan(row.render,
                      [i |-> Blanks(row.render, 1), sep |-> TRUE, string |-> "no",
                       comment |-> above, cut |-> FALSE,
                       hl |-> Fill("NORMAL", Len(row.render))], Len(row.chars))
        lit   == [rs EXCEPT ![k].hl = SubSeq(s.hl, 1, Len(s.hl))]
        oc    == RowHasOpenComment(lit[k])
        below == IF row.oc # oc /\ row.idx + 1 < n THEN UpdateSyntax(lit, n, row.idx + 2)
                 ELSE lit
    IN  IF ~win.coloured THEN [rs EXCEPT ![k].hl = Fill("NORMAL", Len(row.render))]
        ELSE IF s.cut THEN lit
        ELSE [below EXCEPT ![k].oc = oc]
-----------------------------------------------------------------------------
(* Rows.                                                                     *)
\* A TAB is drawn as blanks up to the column before the next stop.
DrawnTo(n) == n + 1 + ((TabStop - 1 - ((n + 1) % TabStop)) % TabStop)
Drawn(chars) == FoldLeft(LAMBDA r, c :
    IF c = "TAB" THEN r \o Fill(" ", DrawnTo(Len(r)) - Len(r)) ELSE Append(r, c), <<>>, chars)

\* Mutant: the rows below are not highlighted again.
UpdateRowAlone(rs, n, k) == UpdateSyntax([rs EXCEPT ![k].render = Drawn(rs[k].chars)], k, k)
UpdateRow(rs, n, k) == UpdateSyntax([rs EXCEPT ![k].render = Drawn(rs[k].chars)], n, k)

InsertRow(rs, pos, chars) ==
    LET row  == [chars |-> chars, render |-> <<>>, hl |-> <<>>, oc |-> FALSE, idx |-> pos]
        tail == [j \in 1 .. Len(rs) - pos |-> [rs[pos + j] EXCEPT !.idx = @ + 1]]
    IN  UpdateRow(SubSeq(rs, 1, pos) \o <<row>> \o tail, Len(rs), pos + 1)

\* The rows above are counted up where they should be counted down.
DelRow(rs, pos) ==
    SubSeq(rs, 1, pos) \o [j \in 1 .. Len(rs) - pos - 1 |->
                              [rs[pos + 1 + j] EXCEPT !.idx = @ + 1]]

SetChars(rs, k, chars) == UpdateRow([rs EXCEPT ![k].chars = chars], Len(rs), k)

RowInsertChar(rs, k, pos, c) ==
    LET old    == rs[k].chars
        padded == IF pos > Len(old) THEN old \o Fill(" ", pos - Len(old)) ELSE old
    IN  SetChars(rs, k, SubSeq(padded, 1, pos) \o <<c>> \o SubSeq(padded, pos + 1, Len(padded)))

RowAppendString(rs, k, s) == SetChars(rs, k, rs[k].chars \o s)

\* The row is drawn with its old size, the terminating NUL as its last
\* character, and only then made shorter.
RowDelChar(rs, k, pos) ==
    LET old  == rs[k].chars
        left == SubSeq(old, 1, pos) \o SubSeq(old, pos + 2, Len(old))
    IN  IF Len(old) <= pos THEN rs
        ELSE [SetChars(rs, k, Append(left, "NUL")) EXCEPT ![k].chars = left]

RowsToString == FlattenSeq([k \in DOMAIN rows |-> rows[k].chars \o <<"CR", "LF">>])

\* getline and the end-of-line trimming of editorOpen.  A line ends at a ^Z
\* as well; the file ends where a line begins with one.
Trimmed(s, c) == IF s # <<>> /\ Last(s) = c THEN Front(s) ELSE s
RECURSIVE LinesOf(_)
LinesOf(bytes) ==
    LET n    == SelectInSeq(bytes \o <<"^Z">>, LAMBDA c : c \in {"LF", "^Z"})
        line == SubSeq(bytes, 1, IF At(bytes, n) = "LF" THEN n ELSE n - 1)
    IN  IF line = <<>> THEN <<>>
        ELSE <<Trimmed(Trimmed(line, "LF"), "CR")>> \o LinesOf(SubSeq(bytes, n + 1, Len(bytes)))
Open(bytes) == FoldLeft(LAMBDA rs, l : InsertRow(rs, Len(rs), l), <<>>, LinesOf(bytes))
-----------------------------------------------------------------------------
(* Editing.                                                                  *)
filerow == at.rowoff + at.cy
filecol == at.coloff + at.cx
NoRow   == filerow >= Len(rows)
Width(r) == IF r \in 0 .. Len(rows) - 1 THEN Len(rows[r + 1].chars) ELSE 0
CursorDown == IF at.cy = win.rows - 1 THEN [at EXCEPT !.rowoff = @ + 1]
              ELSE [at EXCEPT !.cy = @ + 1]

InsertChar(c) ==
    LET more == FoldLeft(LAMBDA rs, x : InsertRow(rs, Len(rs), <<>>), rows,
                         Fill(0, filerow + 1 - Len(rows)))
    IN  /\ rows' = RowInsertChar(more, filerow + 1, filecol, c)
        /\ at' = IF at.cx = win.cols - 1 THEN [at EXCEPT !.coloff = @ + 1]
                 ELSE [at EXCEPT !.cx = @ + 1]
        /\ dirty' = TRUE
        /\ UNCHANGED <<disk, kept, find, ended>>

InsertNewline ==
    /\ IF filerow > Len(rows) THEN UNCHANGED <<rows, at, dirty>>
       ELSE LET col  == IF filecol >= Width(filerow) THEN Width(filerow) ELSE filecol
                line == rows[filerow + 1].chars IN
            /\ rows' = IF NoRow \/ col = 0 THEN InsertRow(rows, filerow, <<>>)
                       ELSE SetChars(InsertRow(rows, filerow + 1,
                                               SubSeq(line, col + 1, Len(line))),
                                     filerow + 1, SubSeq(line, 1, col))
            /\ at' = [CursorDown EXCEPT !.cx = 0, !.coloff = 0]
            /\ dirty' = TRUE
    /\ UNCHANGED <<disk, kept, find, ended>>

\* The shift should be the other way: behind a line wider than the window it
\* puts the cursor to the right of it, and the offset below zero.
Joined(col) == LET shift == IF col >= win.cols THEN win.cols - col + 1 ELSE 0
               IN  [cx |-> col - shift, coloff |-> at.coloff + shift]
DelChar ==
    /\ IF NoRow \/ (filecol = 0 /\ filerow = 0) THEN UNCHANGED <<rows, at, dirty>>
       ELSE IF filecol = 0
       THEN /\ rows' = DelRow(RowAppendString(rows, filerow, rows[filerow + 1].chars), filerow)
            /\ at' = LET j == Joined(Width(filerow - 1)) IN
                     [cx |-> j.cx, coloff |-> j.coloff,
                      cy |-> IF at.cy = 0 THEN 0 ELSE at.cy - 1,
                      rowoff |-> IF at.cy = 0 THEN at.rowoff - 1 ELSE at.rowoff]
            /\ dirty' = TRUE
       ELSE /\ rows' = UpdateRow(RowDelChar(rows, filerow + 1, filecol - 1), Len(rows), filerow + 1)
            /\ at' = IF at.cx = 0 /\ at.coloff # 0 THEN [at EXCEPT !.coloff = @ - 1]
                     ELSE [at EXCEPT !.cx = @ - 1]
            /\ dirty' = TRUE
    /\ UNCHANGED <<disk, kept, find, ended>>

\* What MoveCursor does after the key: the column is brought back into the line.
Fixed(a) ==
    LET over == a.coloff + a.cx - Width(a.rowoff + a.cy) IN
    IF over <= 0 THEN a
    ELSE IF a.cx - over < 0 THEN [a EXCEPT !.coloff = @ + (a.cx - over), !.cx = 0]
    ELSE [a EXCEPT !.cx = @ - over]
EndOf(a, n) == IF n > win.cols - 1
               THEN [a EXCEPT !.coloff = n - win.cols + 1, !.cx = win.cols - 1]
               ELSE [a EXCEPT !.cx = n]
Left(a) ==
    IF a.cx # 0 THEN [a EXCEPT !.cx = @ - 1]
    ELSE IF a.coloff # 0 THEN [a EXCEPT !.coloff = @ - 1]
    ELSE IF a.rowoff + a.cy > 0
    THEN EndOf([a EXCEPT !.cy = @ - 1], Width(a.rowoff + a.cy - 1))
    ELSE a
Right(a) ==
    LET row == a.rowoff + a.cy IN
    IF row >= Len(rows) THEN a
    ELSE IF a.coloff + a.cx < Width(row)
    THEN IF a.cx = win.cols - 1 THEN [a EXCEPT !.coloff = @ + 1] ELSE [a EXCEPT !.cx = @ + 1]
    ELSE IF a.coloff + a.cx > Width(row) THEN a
    ELSE IF a.cy = win.rows - 1
    THEN [a EXCEPT !.cx = 0, !.coloff = 0, !.rowoff = @ + 1]
    ELSE [a EXCEPT !.cx = 0, !.coloff = 0, !.cy = @ + 1]
Up(a) == IF a.cy # 0 THEN [a EXCEPT !.cy = @ - 1]
         ELSE IF a.rowoff # 0 THEN [a EXCEPT !.rowoff = @ - 1] ELSE a
Down(a) == IF a.rowoff + a.cy >= Len(rows) THEN a
           ELSE IF a.cy = win.rows - 1 THEN [a EXCEPT !.rowoff = @ + 1]
           ELSE [a EXCEPT !.cy = @ + 1]
MoveCursor(a, key) == Fixed(CASE key = "LEFT"  -> Left(a)
                              [] key = "RIGHT" -> Right(a)
                              [] key = "UP"    -> Up(a)
                              [] key = "DOWN"  -> Down(a))
Paged(key) ==
    LET edge == [at EXCEPT !.cy = IF key = "UP" THEN 0 ELSE win.rows - 1]
    IN  FoldLeft(LAMBDA a, x : MoveCursor(a, key), edge, Fill(0, win.rows))

Move(key) ==
    /\ at' = CASE key = "HOME" -> [at EXCEPT !.cx = 0, !.coloff = 0]
               [] key = "END"  -> EndOf([at EXCEPT !.coloff = 0], Width(filerow))
               [] key = "PGUP" -> Paged("UP")
               [] key = "PGDN" -> Paged("DOWN")
               [] OTHER        -> MoveCursor(at, key)
    /\ UNCHANGED <<rows, dirty, disk, kept, find, ended>>

\* There is no truncation: the rows, a Ctrl-Z, and what the file had behind them.
\* Mutant: no Ctrl-Z after the rows.
OverwrittenBare(old, new) ==
    LET bare == SelectSeq(new, LAMBDA c : c # "^Z") IN bare \o SubSeq(old, Len(bare) + 1, Len(old))
Overwritten(old, new) == new \o SubSeq(old, Len(new) + 1, Len(old))
\* writeerr: the file cannot be opened, or a write stops at any character.
Save ==
    /\ \E bytes \in {Append(RowsToString, "^Z")} : \E n \in 0 .. Len(bytes) :
           /\ \E d \in {Overwritten(disk, SubSeq(bytes, 1, n))} : disk' = d /\ kept' = LinesOf(d)
           /\ dirty' = (dirty /\ n < Len(bytes))
    /\ UNCHANGED <<rows, at, find, ended>>

Quit ==
    /\ ended' = ~(dirty /\ quits > 0)
    /\ UNCHANGED <<rows, at, dirty, disk, kept, find>>
-----------------------------------------------------------------------------
(* The search: every key changes the query or the direction and searches on. *)
NoFind == [on |-> FALSE, query |-> <<>>, last |-> -1, line |-> -1, hl |-> <<>>, from |-> Home(0), off |-> {}]

Find == /\ find' = [NoFind EXCEPT !.on = TRUE, !.from = at, !.off = off]
        /\ UNCHANGED <<rows, at, dirty, disk, kept, ended>>

RestoreHl(rs) == IF find.line = -1 THEN rs ELSE [rs EXCEPT ![find.line + 1].hl = find.hl]

FindEnds(key) == /\ rows' = RestoreHl(rows)
                 /\ at' = IF key = "ESC" THEN find.from ELSE at
                 /\ find' = NoFind
                 /\ UNCHANGED <<dirty, disk, kept, ended>>

Places(r, q) == {i \in 0 .. Len(r) - Len(q) : SubSeq(r, i + 1, i + Len(q)) = q}
RECURSIVE Seek(_, _, _, _)
Seek(q, from, step, n) ==
    LET next == (from + step + (IF from + step < 0 THEN Len(rows) ELSE 0)) % Len(rows) IN
    IF n = 0 THEN -1
    ELSE IF Places(rows[next + 1].render, q) # {} THEN next
    ELSE Seek(q, next, step, n - 1)

FindKey(key) ==
    LET query == IF key = "BS" THEN IF find.query = <<>> THEN <<>> ELSE Front(find.query)
                 ELSE IF key \in Commands THEN find.query ELSE Append(find.query, key)
        last  == IF key = "BS" \/ key \notin Commands THEN -1 ELSE find.last
        step  == IF last = -1 THEN 1
                 ELSE IF key \in {"RIGHT", "DOWN"} THEN 1
                 ELSE IF key \in {"LEFT", "UP"} THEN -1 ELSE 0
        hit   == Seek(query, last, step, Len(rows))
        plain == RestoreHl(rows)
        place == CHOOSE i \in Places(rows[hit + 1].render, query) :
                     \A j \in Places(rows[hit + 1].render, query) : i <= j
        f     == [find EXCEPT !.query = query, !.last = last]
    IN  /\ IF step = 0 THEN find' = f /\ UNCHANGED <<rows, at>>
           ELSE IF hit = -1
           THEN find' = [f EXCEPT !.line = -1] /\ rows' = plain /\ UNCHANGED at
           ELSE /\ find' = [f EXCEPT !.last = hit, !.line = hit, !.hl = plain[hit + 1].hl]
                /\ rows' = [plain EXCEPT ![hit + 1].hl = [k \in DOMAIN @ |->
                       IF k \in place + 1 .. place + Len(query) THEN "MATCH" ELSE @[k]]]
                /\ at' = LET over == IF place > win.cols THEN place - win.cols ELSE 0 IN
                         [Home(hit) EXCEPT !.cx = place - over, !.coloff = over]
        /\ UNCHANGED <<dirty, disk, kept, ended>>
-----------------------------------------------------------------------------
(* editorRefreshScreen, before every key: the cells of a line of the window  *)
(* and the column of the cursor.                                             *)
Shown(r)    == LET from == at.coloff  drawn == rows[r + 1].render IN
               [x \in 1 .. win.cols |-> IF from + x \in DOMAIN drawn THEN drawn[from + x] ELSE " "]
CursorColumn ==
    FoldLeft(LAMBDA x, j : IF At(rows[filerow + 1].chars, j + 1) = "TAB"
                           THEN x + (TabStop - 1) - (x % TabStop) + 1 ELSE x + 1,
             1, [j \in 1 .. at.cx |-> at.coloff + j - 1]) - 1
-----------------------------------------------------------------------------
(* LEFT at the beginning of the top line goes up without scrolling; a match  *)
(* at the column behind the window leaves the cursor there; see Joined.      *)
InWindow(a) == a.cy \in 0 .. win.rows - 1 /\ a.cx \in 0 .. win.cols - 1 /\ a.coloff >= 0 /\ a.rowoff >= 0
Leaves(key) ==
    IF find.on THEN IF at'.cx = win.cols THEN {"match"} ELSE {}
    ELSE IF key = "LEFT" THEN IF filecol = 0 /\ filerow > 0 /\ at.cy = 0 THEN {"left"} ELSE {}
    ELSE IF key = "BS" /\ ~NoRow /\ filecol = 0 /\ filerow > 0 /\ Width(filerow - 1) > win.cols THEN {"joined"} ELSE {}
\* From there UP leads to a row above the text, LEFT to a column before the
\* line: what is then read and written is not modelled, no key follows.
Astray == filerow < 0 \/ filecol < 0

TabIn(from, to) == \E j \in from + 1 .. to : At(rows[filerow + 1].chars, j) = "TAB"
Slashed(rs) == \E k \in DOMAIN rs : Places(rs[k].chars, <<"/", "/">>) # {}
\* Every key but a ^Q that is not obeyed yet puts quit_times back.
ProcessKeypress(key) ==
    /\ quits' = IF ~find.on /\ key = "^Q" /\ dirty /\ quits > 0 THEN quits - 1 ELSE QuitTimes
    /\ IF find.on
       THEN IF key \in {"ESC", "ENTER"} THEN FindEnds(key) ELSE FindKey(key)
       ELSE CASE key = "ENTER" -> InsertNewline
              [] key = "BS"    -> DelChar
              [] key = "^S"    -> Save
              [] key = "^Q"    -> Quit
              [] key = "^F"    -> Find
              [] key = "ESC"   -> UNCHANGED <<rows, at, dirty, disk, kept, find, ended>>
              [] key \in Commands \ {"ENTER", "BS", "^S", "^Q", "^F", "ESC"} -> Move(key)
              [] OTHER -> InsertChar(key)

Init == /\ win \in Windows
        /\ rows = Open(win.file)
        /\ at = Home(0)
        /\ dirty = FALSE
        /\ quits = QuitTimes
        /\ disk = win.file
        /\ kept = LinesOf(win.file)
        /\ find = NoFind
        /\ ended = FALSE
        /\ off = {}
        /\ steady = ~Slashed(rows)
        /\ pressed = 0

Press(key) ==
    /\ ~ended /\ ~Astray /\ pressed < MaxKeys /\ key \in win.keys
    /\ ProcessKeypress(key)
    /\ off' = IF InWindow(at') THEN {} ELSE off \cup find.off \cup Leaves(key)
    /\ steady' = /\ steady /\ ~Slashed(rows')
                 /\ key = "ENTER" => find.on \/ rows' = rows
                 /\ Len(rows') >= Len(rows)
    /\ pressed' = pressed + 1
    /\ UNCHANGED win

Next == \E w \in {win} : \E key \in w.keys : Press(key)
Spec == Init /\ [][Next]_vars
-----------------------------------------------------------------------------
(* What a reader of the text sees: its lines, the place of the cursor in     *)
(* them, what a load of the file would give, whether there is something to   *)
(* save, and the search.                                                     *)
View == [text  |-> [k \in DOMAIN rows |-> rows[k].chars],
         row   |-> filerow,
         col   |-> filecol,
         kept  |-> kept,
         dirty |-> dirty,
         query |-> find.query,
         mark  |-> IF find.on THEN <<find.from.rowoff + find.from.cy,
                                    find.from.coloff + find.from.cx>> ELSE <<>>]
KText == INSTANCE KiloText

(* The text is what was typed: whatever the window shows and wherever it is  *)
(* scrolled, every key changes the lines at the place of the cursor and no   *)
(* other, and a saved file loads as the lines saved, unless a write failed:  *)
(* then dirty stays as it is (kilo.c:726-815, 886).  All but the steps that  *)
(* leave the text, from a place outside the window.                          *)
Typed == (off' # {} /\ Astray') \/ \E s \in {View} : \E t \in {View'} : KText!Step(s, t)
TextAsTyped == [][Typed]_vars

(* A row changed in place is drawn and highlighted as it would be if the     *)
(* text were loaded afresh, the rows below it included (kilo.c:399-537).     *)
RowsAsLoaded == steady /\ ~find.on =>
    rows = FoldLeft(LAMBDA rs, r : InsertRow(rs, Len(rs), r.chars), <<>>, rows)

(* The search leaves no mark behind, whatever was typed, matched, found      *)
(* again or given up in between (kilo.c:1081-1087).                          *)
NoMarkLeft == ~find.on => \A k \in DOMAIN rows : "MATCH" \notin ToSet(rows[k].hl)

(* The cursor is in the window, in a row and in a column of it, unless one   *)
(* of the three ways out was taken (off) and the cursor is not back.         *)
CursorInWindow == off = {} => InWindow(at)

(* The screen shows under the cursor, which is on it, the character the next *)
(* key is put before (kilo.c:989-1050).  A TAB left of the window moves what *)
(* is drawn but not the cursor; one in it may move the cursor off the screen.*)
CursorOnCharacter ==
    (~find.on /\ off = {} /\ ~NoRow /\ filecol < Width(filerow) /\ ~TabIn(0, at.coloff))
    => /\ CursorColumn < win.cols \/ TabIn(at.coloff, filecol)
       /\ LET c == rows[filerow + 1].chars[filecol + 1] IN
          c # "TAB" /\ CursorColumn < win.cols => Shown(filerow)[CursorColumn + 1] = c
=============================================================================
