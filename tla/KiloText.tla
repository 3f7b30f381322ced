------------------------------ MODULE KiloText ------------------------------
(* What a text editor promises, as a relation of two views of it: the lines  *)
(* (text), the place in them (row, col), the lines the file would give       *)
(* (kept), whether there is something to save (dirty), the query of a search *)
(* and the place it began from (mark).  There is no window here, and a       *)
(* search only moves the place.                                              *)
EXTENDS Integers, Sequences

Line(s, r) == IF r \in 0 .. Len(s.text) - 1 THEN s.text[r + 1] ELSE <<>>
Upto(l, n) == SubSeq(l, 1, n)
From(l, n) == SubSeq(l, n + 1, Len(l))
Blanks(n)  == [i \in 1 .. n |-> " "]
Put(s, from, to, lines) == Upto(s.text, from) \o lines \o From(s.text, to)
Moved(s, r, c) == [s EXCEPT !.row = r, !.col = c]

\* One character at the place, the lines and the blanks it lacks before it.
Type(s, t) == Len(Line(t, s.row)) > s.col /\ \E c \in {Line(t, s.row)[s.col + 1]} :
    LET wide  == Line(s, s.row) \o Blanks(s.col - Len(Line(s, s.row)))
        above == [i \in 1 .. s.row - Len(s.text) |-> <<>>]
    IN  t = [Moved(s, s.row, s.col + 1) EXCEPT !.dirty = TRUE,
                !.text = Upto(s.text \o above, s.row) \o
                         <<Upto(wide, s.col) \o <<c>> \o From(wide, s.col)>> \o
                         From(s.text, s.row + 1)]
Break(s, t) ==
    LET line == Line(s, s.row)
        c    == IF s.col > Len(line) THEN Len(line) ELSE s.col
        two  == IF s.row = Len(s.text) THEN <<<<>>>> ELSE <<Upto(line, c), From(line, c)>>
    IN  s.row <= Len(s.text)
        /\ t = [Moved(s, s.row + 1, 0) EXCEPT !.dirty = TRUE, !.text = Put(s, s.row, s.row + 1, two)]
Rub(s, t) ==
    LET line == Line(s, s.row)  over == Line(s, s.row - 1) IN
    /\ s.row < Len(s.text)
    /\ \/ /\ s.col > 0
          /\ t = [Moved(s, s.row, s.col - 1) EXCEPT !.dirty = TRUE, !.text =
                     Put(s, s.row, s.row + 1, <<Upto(line, s.col - 1) \o From(line, s.col)>>)]
       \/ /\ s.col = 0 /\ s.row > 0
          /\ t = [Moved(s, s.row - 1, Len(over)) EXCEPT !.dirty = TRUE, !.text =
                     Put(s, s.row - 1, s.row + 1, <<over \o line>>)]

\* One character, an end of the line, or up and down with the column brought
\* back into the line.
Go(s, t) ==
    /\ t = Moved(s, t.row, t.col)
    /\ \/ t.row = s.row /\ t.col \in {s.col - 1, s.col + 1, 0, Len(Line(s, s.row))}
       \/ s.col = 0 /\ t.row = s.row - 1 /\ t.col = Len(Line(s, t.row))
       \/ s.col = Len(Line(s, s.row)) /\ t.row = s.row + 1 /\ t.col = 0
       \/ t.col <= s.col
    /\ t.row >= 0 /\ t.col \in 0 .. Len(Line(s, t.row))

\* A save that fails leaves dirty as it was, even FALSE; the file may be anything.
Keep(s, t) == t \in {[s EXCEPT !.kept = s.text, !.dirty = FALSE], [s EXCEPT !.kept = t.kept]}

\* The search begins, goes on to places of its query, and ends there or where
\* it began.  With a TAB in the line the place it finds is another one.
Search(s, t) ==
    /\ t.text = s.text /\ t.kept = s.kept /\ t.dirty = s.dirty
    /\ \/ s.mark = <<>> /\ t = [s EXCEPT !.mark = <<s.row, s.col>>]
       \/ /\ s.mark # <<>> /\ t.mark = s.mark
          /\ \/ <<t.row, t.col>> = <<s.row, s.col>>
             \/ \E k \in DOMAIN Line(t, t.row) : Line(t, t.row)[k] = "TAB"
             \/ \E n \in 0 .. Len(Line(t, t.row)) :
                    SubSeq(Line(t, t.row), t.col + 1, n) = t.query
       \/ /\ s.mark # <<>> /\ t.mark = <<>>
          /\ <<t.row, t.col>> \in {<<s.row, s.col>>, s.mark}

Step(s, t) == \/ s = t
              \/ /\ s.mark = <<>>
                 /\ Type(s, t) \/ Break(s, t) \/ Rub(s, t) \/ Go(s, t) \/ Keep(s, t)
              \/ Search(s, t)
=============================================================================
