-------------------------------- MODULE Grep --------------------------------
(***************************************************************************)
(* grep/grep.c: compile, advance and execute.  An expression is a sequence *)
(* of tokens, one for each construct the source reads: a token's kind t is *)
(* "char", "quoted" (behind a backslash), "." "*" "$" "^", "set", "(" ")"  *)
(* "<" ">" or "back", and its argument a character, a set of them with its *)
(* negation, or the number of a bracket.  No expression here refers to a   *)
(* bracket that is still open: what braelist holds then is the last line's.*)
(***************************************************************************)
EXTENDS Integers, Sequences, SequencesExt

CONSTANTS
  Letters,   \* the characters of words: isalpha, isdigit and "_"
  Chars,     \* all characters of lines
  Upper      \* toupper, on the small letters

NBRA == 9
ZERO == "NUL"
Token(t, arg) == [t |-> t, arg |-> arg]
Item(op, arg) == [op |-> op, arg |-> arg, star |-> FALSE]
Char(s, p) == IF p \in 1 .. Len(s) THEN s[p] ELSE ZERO

(* -y: a small letter becomes the set of its two cases; sets and quoted    *)
(* characters stay as they are.                                            *)
Either(p) == [k \in DOMAIN p |-> IF p[k].t = "char" /\ p[k].arg \in DOMAIN Upper
                                 THEN Token("set", [neg |-> FALSE, set |-> {p[k].arg, Upper[p[k].arg]}]) ELSE p[k]]

(* compile, a token at a time.  last: the item a star applies to, 0 with   *)
(* none; open: the brackets that are open; closed: how many have closed.   *)
Nothing == [items |-> <<>>, last |-> 0, open |-> <<>>, numbra |-> 0, closed |-> 0, ok |-> TRUE]
Put(st, i) == [st EXCEPT !.items = Append(@, i), !.last = Len(st.items) + 1]
Literal(st, c) == [st EXCEPT !.items = Append(@, Item("chr", c))]
Compile1(st, tok, end) ==
  LET none == st.last = 0 \/ st.items[st.last].op \in {"bra", "ket", "brc", "let"}
  IN CASE ~st.ok -> st
       [] st.ok /\ tok.t = "*" -> IF none THEN Literal(st, "*") ELSE [st EXCEPT !.items[st.last].star = TRUE]
       [] st.ok /\ tok.t = "." -> Put(st, Item("dot", ZERO))
       [] st.ok /\ tok.t = "$" -> Put(st, IF end THEN Item("dol", ZERO) ELSE Item("chr", "$"))
       [] st.ok /\ tok.t = "set" ->
            Put(st, Item("ccl", IF tok.arg.neg THEN Chars \ tok.arg.set ELSE tok.arg.set))
       [] st.ok /\ tok.t = "<" -> Put(st, Item("brc", ZERO))
       [] st.ok /\ tok.t = ">" -> Put(st, Item("let", ZERO))
       [] st.ok /\ tok.t = "(" ->
            IF st.numbra >= NBRA THEN [st EXCEPT !.ok = FALSE]
            ELSE [Put(st, Item("bra", st.numbra + 1)) EXCEPT !.numbra = @ + 1, !.open = Append(@, st.numbra + 1)]
       [] st.ok /\ tok.t = ")" ->
            IF st.open = <<>> THEN [st EXCEPT !.ok = FALSE]
            ELSE [Put(st, Item("ket", Last(st.open))) EXCEPT !.open = Front(@), !.closed = @ + 1]
       [] st.ok /\ tok.t = "back" ->
            IF tok.arg > st.closed THEN [st EXCEPT !.ok = FALSE] ELSE Put(st, Item("back", tok.arg))
       [] st.ok /\ tok.t \in {"char", "quoted", "^"} -> Put(st, Item("chr", tok.arg))

Compile(p0, wflag, yflag) ==
  LET p    == IF yflag THEN Either(p0) ELSE p0
      circ == p # <<>> /\ p[1].t = "^"
      rest == IF circ THEN Tail(p) ELSE p
      from == IF wflag THEN [Nothing EXCEPT !.items = <<Item("brc", ZERO)>>] ELSE Nothing
      st   == FoldLeft(LAMBDA a, k : Compile1(a, rest[k], k = Len(rest)), from, [k \in 1 .. Len(rest) |-> k])
  IN [ok |-> st.ok, circ |-> circ,
      items |-> IF wflag THEN Append(st.items, Item("let", ZERO)) ELSE st.items]

(* advance: whether the items from k on match s from lp on; m: where the   *)
(* brackets begin and end.  Behind copies of an item only the places where *)
(* a plain character to come stands are tried.                             *)
One(i, c) == c # ZERO /\ CASE i.op = "chr" -> c = i.arg [] i.op = "dot" -> TRUE [] i.op = "ccl" -> c \in i.arg
RunEnd(i, s, lp) == CHOOSE q \in lp .. Len(s) + 1 :
                      ~One(i, Char(s, q)) /\ \A x \in lp .. q - 1 : One(i, Char(s, x))
Same(m, g, s, lp) == \A x \in 0 .. m.e[g] - m.b[g] - 1 : Char(s, lp + x) = Char(s, m.b[g] + x)
Word(c) == c \in Letters
\* What stands before the line in memory is no letter.
Begins(s, lp) == Word(Char(s, lp)) /\ ~Word(Char(s, lp - 1))
EndsWord(s, lp) == ~Word(Char(s, lp))

RECURSIVE Advance(_, _, _, _, _), Retreat(_, _, _, _, _, _, _)
Retreat(it, k, s, lp, low, ct, m) ==
  LET passed == ct = 1 /\ k <= Len(it) /\ it[k].op = "chr" /\ ~it[k].star /\ Char(s, lp) # it[k].arg
  IN lp >= low /\ ((~passed /\ Advance(it, k, s, lp, m)) \/ Retreat(it, k, s, lp - ct, low, ct, m))
RECURSIVE Copies(_, _, _, _)
Copies(m, g, s, lp) == IF Same(m, g, s, lp) THEN Copies(m, g, s, lp + m.e[g] - m.b[g]) ELSE lp
Advance(it, k, s, lp, m) ==
  k > Len(it) \/
  LET i == it[k]
      size == m.e[i.arg] - m.b[i.arg]
  IN CASE i.op \in {"chr", "dot", "ccl"} /\ ~i.star -> One(i, Char(s, lp)) /\ Advance(it, k + 1, s, lp + 1, m)
       [] i.op \in {"chr", "dot", "ccl"} /\ i.star -> Retreat(it, k + 1, s, RunEnd(i, s, lp), lp, 1, m)
       [] i.op = "dol" -> lp = Len(s) + 1 /\ Advance(it, k + 1, s, lp, m)
       [] i.op = "bra" -> Advance(it, k + 1, s, lp, [m EXCEPT !.b[i.arg] = lp])
       [] i.op = "ket" -> Advance(it, k + 1, s, lp, [m EXCEPT !.e[i.arg] = lp])
       [] i.op = "back" /\ ~i.star -> Same(m, i.arg, s, lp) /\ Advance(it, k + 1, s, lp + size, m)
       [] i.op = "back" /\ i.star -> Retreat(it, k + 1, s, Copies(m, i.arg, s, lp), lp, size, m)
       [] i.op = "brc" -> Begins(s, lp) /\ Advance(it, k + 1, s, lp, m)
       [] i.op = "let" -> EndsWord(s, lp) /\ Advance(it, k + 1, s, lp, m)

Unset == [b |-> [g \in 1 .. NBRA |-> 1], e |-> [g \in 1 .. NBRA |-> 1]]
Found(c, s) == \E lp \in IF c.circ THEN {1} ELSE 1 .. Len(s) + 1 : Advance(c.items, 1, s, lp, Unset)

(* execute and succeed: the lines of a file in turn.  g: what has been     *)
(* printed, whether something was found, the status of the files.          *)
Says(o, nfile, f, what) == (IF nfile > 1 /\ o.h THEN <<f.name>> ELSE <<>>) \o what
Succeed(o, nfile, f, st, k) ==
  LET g == [st EXCEPT !.nsucc = 1]
  IN CASE o.s -> g
       [] ~o.s /\ o.c -> [g EXCEPT !.tln = @ + 1]
       [] ~o.s /\ ~o.c /\ o.l -> [g EXCEPT !.out = Append(@, <<f.name>>), !.over = TRUE]
       [] ~o.s /\ ~o.c /\ ~o.l ->
            [g EXCEPT !.out = Append(@, Says(o, nfile, f, (IF o.n THEN <<k>> ELSE <<>>) \o <<f.lines[k]>>))]
Chosen(o, found) == found # o.v
Line1(c, o, nfile, f, st, k) ==
  IF ~st.over /\ Chosen(o, Found(c, f.lines[k])) THEN Succeed(o, nfile, f, st, k) ELSE st
Execute(c, o, nfile, st, f) ==
  IF ~f.opens THEN [st EXCEPT !.retcode = 2]
  ELSE LET g == FoldLeft(LAMBDA a, k : Line1(c, o, nfile, f, a, k), [st EXCEPT !.tln = 0, !.over = FALSE],
                         [k \in 1 .. Len(f.lines) |-> k])
       IN IF o.c THEN [g EXCEPT !.out = Append(@, (IF nfile > 1 THEN <<f.name>> ELSE <<>>) \o <<g.tln>>)] ELSE g

\* main: what is printed and the status it exits with.
Start == [out |-> <<>>, nsucc |-> 0, retcode |-> 0, tln |-> 0, over |-> FALSE]
Main(p, o, files) ==
  LET c  == Compile(p, o.w, o.y)
      st == FoldLeft(LAMBDA a, f : Execute(c, o, Len(files), a, f), Start, files)
  IN IF ~c.ok THEN [out |-> <<>>, status |-> 2]
     ELSE [out |-> st.out, status |-> IF st.retcode # 0 THEN st.retcode ELSE 1 - st.nsucc]
=============================================================================
