------------------------------ MODULE SedRegex ------------------------------
(***************************************************************************)
(* sed/sed0.c and sed1.c: the regular expressions of sed and the s         *)
(* command.  A line, an expression and a replacement are sequences of      *)
(* characters; an expression is compiled to items, each with the STAR bit; *)
(* advance walks the items over the line, backtracking over the starred    *)
(* ones, and leaves the brackets it has passed in braslist and braelist.   *)
(***************************************************************************)
EXTENDS Integers, Sequences, SequencesExt, TLC

CONSTANTS
  Order,     \* the characters, in the order of their codes
  LBSIZE     \* the line buffer: a longer line is "Output line too long"
NBRA == 9
ZERO == "NUL"

Let(v, Op(_)) == Op(v)    \* Op of a value that is computed once

Item(op, arg) == [op |-> op, arg |-> arg, star |-> FALSE]
Bad == [ok |-> FALSE, first |-> FALSE, items |-> << >>, numbra |-> 0]
\* The group a digit names, 0 for another character.
Group(c) == IF \E g \in 1..NBRA : ToString(g) = c
            THEN CHOOSE g \in 1..NBRA : ToString(g) = c ELSE 0
\* The character at p of s, which ends with a zero.
Char(s, p) == IF p \in 1..Len(s) THEN s[p] ELSE ZERO

-----------------------------------------------------------------------------
(***************************************************************************)
(* compile: e without the delimiters.                                      *)
(***************************************************************************)
Rank(c) == CHOOSE i \in 1..Len(Order) : Order[i] = c
Ranged(a, b) == {c \in Range(Order) : Rank(a) <= Rank(c) /\ Rank(c) < Rank(b)}

\* The members of a class from the place p on, start being where the first stands:
\* a "]" that is first is a member.
RECURSIVE Class(_, _, _, _)
Class(e, p, start, set) ==
  IF p > Len(e) THEN [at |-> 0, set |-> {}]
  ELSE LET c == e[p]
           ranged == c = "-" /\ p > start /\ Char(e, p + 1) # "]"
           more == IF ranged /\ p < Len(e)
                   THEN Ranged(e[p - 1], e[p + 1])
                        \cup {IF Rank(e[p - 1]) < Rank(e[p + 1]) THEN e[p + 1] ELSE e[p - 1]}
                   ELSE IF c = "\\" THEN {IF Char(e, p + 1) = "n" THEN "\n" ELSE Char(e, p + 1)}
                   ELSE {c}
           after == IF c = "\\" THEN p + 2 ELSE p + 1
       IN IF Char(e, after) = "]" THEN [at |-> after + 1, set |-> set \cup more]
          ELSE Class(e, after, start, set \cup more)

RECURSIVE Items(_, _, _, _, _, _)
\* open: the brackets that are open; numbra, closed: how many have been opened, closed;
\* last: the index of the item a star applies to, 0 with none.
Items(e, p, c, open, closed, last) ==
  LET n == Len(c.items) + 1
      Add(i, step) == Items(e, p + step, [c EXCEPT !.items = Append(@, i)], open, closed, n)
      d == Char(e, p + 1)
  IN CASE p > Len(e) -> IF open # << >> THEN Bad ELSE c
       [] p <= Len(e) /\ e[p] = "*" /\ last # 0 ->
            IF c.items[last].op = "ket" THEN Bad
            ELSE Items(e, p + 1, [c EXCEPT !.items[last].star = TRUE], open, closed, last)
       [] p <= Len(e) /\ e[p] = "." -> Add(Item("dot", ZERO), 1)
       [] p <= Len(e) /\ e[p] = "$" /\ p = Len(e) -> Add(Item("dol", ZERO), 1)
       [] p <= Len(e) /\ e[p] = "[" ->
            LET neg == d = "^"
                start == IF neg THEN p + 2 ELSE p + 1
                cl == Class(e, start, start, {})
                members == IF neg THEN Range(Order) \ cl.set ELSE cl.set
            IN IF cl.at = 0 THEN Bad ELSE Add(Item("ccl", members), cl.at - p)
       [] p <= Len(e) /\ e[p] = "\\" /\ d = "(" ->
            IF c.numbra = NBRA THEN Bad
            ELSE Items(e, p + 2, [c EXCEPT !.items = Append(@, Item("bra", c.numbra + 1)),
                                           !.numbra = @ + 1],
                       Append(open, c.numbra + 1), closed, n)
       [] p <= Len(e) /\ e[p] = "\\" /\ d = ")" ->
            IF open = << >> THEN Bad
            ELSE Items(e, p + 2, [c EXCEPT !.items = Append(@, Item("ket", Last(open)))],
                       Front(open), closed + 1, n)
       [] p <= Len(e) /\ e[p] = "\\" /\ Group(d) # 0 ->
            IF Group(d) > closed THEN Bad ELSE Add(Item("back", Group(d)), 2)
       [] p <= Len(e) /\ e[p] = "\\" /\ d \notin {"(", ")"} /\ Group(d) = 0 ->
            Add(Item("chr", IF d = "n" THEN "\n" ELSE d), 2)
       [] p <= Len(e) /\ (e[p] \notin {".", "[", "\\", "*", "$"} \/ (e[p] = "*" /\ last = 0)
                          \/ (e[p] = "$" /\ p < Len(e))) ->
            Add(Item("chr", e[p]), 1)

Compile(e) ==
  LET first == e # << >> /\ e[1] = "^"
  IN Items(e, IF first THEN 2 ELSE 1, [Bad EXCEPT !.ok = TRUE, !.first = first], << >>, 0, 0)

-----------------------------------------------------------------------------
(***************************************************************************)
(* advance: the items from k on, on s from lp on.  m: where each bracket   *)
(* begins (b) and ends (e), kept when a way fails, and where the last      *)
(* match of s///g ended (locs, 0 with none).                               *)
(***************************************************************************)
Found(m, lp) == [ok |-> TRUE, at |-> lp, m |-> m]
Fails(m) == [ok |-> FALSE, at |-> 0, m |-> m]
One(i, c) == /\ c # ZERO
             /\ CASE i.op = "chr" -> c = i.arg
                  [] i.op = "dot" -> TRUE
                  [] i.op = "ccl" -> c \in i.arg
\* The first place from lp on that i does not match.
RunEnd(i, s, lp) == CHOOSE q \in lp .. Len(s) + 1 :
                      ~One(i, Char(s, q)) /\ \A x \in lp .. q - 1 : One(i, Char(s, x))
\* ecmp: the text of the group g stands at lp.
Again(m, g, s, lp) == \A x \in 0 .. m.e[g] - m.b[g] - 1 :
                        Char(s, lp + x) = Char(s, m.b[g] + x)
RECURSIVE Copies(_, _, _, _)
\* With an empty group this does not end: -1.
Copies(m, g, s, lp) == IF m.e[g] = m.b[g] THEN -1
                       ELSE IF Again(m, g, s, lp) THEN Copies(m, g, s, lp + m.e[g] - m.b[g])
                       ELSE lp

RECURSIVE Advance(_, _, _, _, _), Retreat(_, _, _, _, _, _, _)
\* From lp down to low, by ct.  After copies of a character (ct = 0) a place where what
\* comes next cannot begin is passed over, and where the last match ended is the end.
Retreat(it, k, s, lp, low, ct, m) ==
  LET next == IF k <= Len(it) /\ ~it[k].star /\ ct = 0 THEN it[k].op ELSE "none"
      wanted == CASE next = "chr" -> {it[k].arg}
                  [] next = "back" -> {Char(s, m.b[it[k].arg])}
                  [] next \notin {"chr", "back"} -> {Char(s, lp)}
      stop == next \notin {"chr", "back"} /\ ct = 0 /\ lp = m.locs
      below == IF ct = 0 THEN lp - 1 ELSE lp - ct
  IN IF lp < low \/ stop THEN Fails(m)
     ELSE IF Char(s, lp) \notin wanted THEN Retreat(it, k, s, below, low, ct, m)
     ELSE Let(Advance(it, k, s, lp, m),
              LAMBDA r : IF r.ok THEN r ELSE Retreat(it, k, s, below, low, ct, r.m))

Advance(it, k, s, lp, m) ==
  IF k > Len(it) THEN Found(m, lp)
  ELSE LET i == it[k]
       IN CASE i.op \in {"chr", "dot", "ccl"} /\ ~i.star ->
                 IF One(i, Char(s, lp)) THEN Advance(it, k + 1, s, lp + 1, m) ELSE Fails(m)
            [] i.op \in {"chr", "dot", "ccl"} /\ i.star ->
                 LET top == RunEnd(i, s, lp)
                 IN IF top = lp THEN Advance(it, k + 1, s, lp, m)
                    ELSE Retreat(it, k + 1, s, top, lp, 0, m)
            [] i.op = "dol" -> IF lp > Len(s) THEN Advance(it, k + 1, s, lp, m) ELSE Fails(m)
            [] i.op = "bra" -> Advance(it, k + 1, s, lp, [m EXCEPT !.b[i.arg] = lp])
            [] i.op = "ket" -> Advance(it, k + 1, s, lp, [m EXCEPT !.e[i.arg] = lp])
            [] i.op = "back" /\ ~i.star ->
                 IF Again(m, i.arg, s, lp)
                 THEN Advance(it, k + 1, s, lp + m.e[i.arg] - m.b[i.arg], m) ELSE Fails(m)
            [] i.op = "back" /\ i.star ->
                 LET top == Copies(m, i.arg, s, lp)
                 IN IF top = -1 THEN [Fails(m) EXCEPT !.at = -1]      \* for ever
                    ELSE Retreat(it, k + 1, s, top, lp, m.e[i.arg] - m.b[i.arg], m)

Nowhere == [b |-> [g \in 1..NBRA |-> 1], e |-> [g \in 1..NBRA |-> 1], locs |-> 0]
RECURSIVE MatchFrom(_, _, _, _)
MatchFrom(c, s, lp, m) ==
  Let(Advance(c.items, 1, s, lp, m), LAMBDA r :
    IF r.ok THEN [ok |-> TRUE, loc1 |-> lp, loc2 |-> r.at, m |-> r.m, hangs |-> FALSE]
    ELSE IF r.at = -1 \/ c.first \/ lp > Len(s)
    THEN [ok |-> FALSE, loc1 |-> 0, loc2 |-> 0, m |-> r.m, hangs |-> r.at = -1]
    ELSE MatchFrom(c, s, lp + 1, r.m))
\* match: in all of s, or for s///g from the end of the last match on.
Match(c, s) == MatchFrom(c, s, 1, Nowhere)
MatchNext(c, s, m, loc2) ==
  IF c.first THEN [ok |-> FALSE, loc1 |-> 0, loc2 |-> 0, m |-> m, hangs |-> FALSE]
  ELSE MatchFrom(c, s, loc2, [m EXCEPT !.locs = loc2])

-----------------------------------------------------------------------------
(***************************************************************************)
(* The s command.  A replacement (compsub) is a sequence of characters,    *)
(* "&" standing for the match and \g for the group g.                      *)
(***************************************************************************)
Piece(c, g) == [text |-> c, group |-> g]
RECURSIVE Pieces(_, _)
Pieces(t, p) ==
  IF p > Len(t) THEN << >>
  ELSE IF t[p] = "\\" /\ Group(Char(t, p + 1)) # 0
  THEN <<Piece({}, Group(t[p + 1]))>> \o Pieces(t, p + 2)
  ELSE IF t[p] = "\\" THEN <<Piece({Char(t, p + 1)}, 0)>> \o Pieces(t, p + 2)
  ELSE <<Piece(IF t[p] = "&" THEN {} ELSE {t[p]}, 0)>> \o Pieces(t, p + 1)
Compsub(t, numbra) ==
  LET rhs == Pieces(t, 1)
  IN [ok |-> \A x \in Range(rhs) : x.group <= numbra, rhs |-> rhs]

\* What is put in for a piece (place).
Placed(piece, s, r) ==
  IF piece.text # {} THEN <<CHOOSE c \in piece.text : TRUE>>
  ELSE IF piece.group = 0 THEN SubSeq(s, r.loc1, r.loc2 - 1)
  ELSE SubSeq(s, r.m.b[piece.group], r.m.e[piece.group] - 1)
Expansion(rhs, s, r) == FoldLeft(LAMBDA a, piece : a \o Placed(piece, s, r), << >>, rhs)

\* dosub: the new line, and loc2 behind what was put in.
Dosub(rhs, s, r) ==
  Let(SubSeq(s, 1, r.loc1 - 1) \o Expansion(rhs, s, r),
      LAMBDA head : [s |-> head \o SubSeq(s, r.loc2, Len(s)), loc2 |-> Len(head) + 1])

RECURSIVE Globally(_, _, _, _)
\* An empty match that is replaced by nothing comes again for ever.
Globally(c, rhs, d, m) ==
  IF d.loc2 > Len(d.s) \/ Len(d.s) > LBSIZE THEN [d |-> d, hangs |-> FALSE]
  ELSE Let(MatchNext(c, d.s, m, d.loc2), LAMBDA r :
         IF ~r.ok THEN [d |-> d, hangs |-> r.hangs]
         ELSE Let(Dosub(rhs, d.s, r), LAMBDA new :
                IF new = d THEN [d |-> d, hangs |-> TRUE] ELSE Globally(c, rhs, new, r.m)))

\* substitute: ok when something was replaced; a line beyond LBSIZE has run away.
Substituted(all) == [ok |-> TRUE, s |-> all.d.s, ends |-> ~all.hangs /\ Len(all.d.s) <= LBSIZE]
Substitute(c, rhs, gfl, s) ==
  Let(Match(c, s), LAMBDA r :
    IF ~r.ok THEN [ok |-> FALSE, s |-> s, ends |-> ~r.hangs]
    ELSE Let(Dosub(rhs, s, r), LAMBDA one :
           Substituted(IF gfl THEN Globally(c, rhs, one, r.m) ELSE [d |-> one, hangs |-> FALSE])))
=============================================================================
