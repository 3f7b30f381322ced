----------------------------- MODULE TextTools -----------------------------
(***************************************************************************)
(* Four filters: uniq (uniq.c), tr (tr.c), the pair uuencode and uudecode  *)
(* (uucp/*.c) and crc (crc.c), each as the function from its input to its  *)
(* output that its loop computes.                                          *)
(***************************************************************************)
EXTENDS Integers, Sequences, FiniteSetsExt, SequencesExt

CONSTANTS
  Codes,    \* the number of characters, 1..Codes; the code has 255
  Line      \* the bytes on a line of uuencode; the code has 45

(* ---- uniq: a line is a sequence of characters, " " the blank.           *)
RECURSIVE SkipWhile(_, _), SkipFields(_, _)
SkipWhile(s, blank) ==
  IF s # <<>> /\ (Head(s) = " ") = blank THEN SkipWhile(Tail(s), blank) ELSE s
SkipFields(s, n) == IF n = 0 THEN s ELSE SkipFields(SkipWhile(SkipWhile(s, TRUE), FALSE), n - 1)
Skip(s, fields, letters) ==
  LET r == SkipFields(s, fields) IN SubSeq(r, Min({letters, Len(r)}) + 1, Len(r))
Equal(o, a, b) == Skip(a, o.fields, o.letters) = Skip(b, o.fields, o.letters)

Pline(o, st, line) ==
  LET shown == CASE o.mode = "u" -> st.uniq = 0 [] o.mode = "d" -> st.uniq > 0 [] OTHER -> TRUE
  IN [st EXCEPT !.uniq = 0, !.out = IF shown THEN Append(@, <<line, st.linec>>) ELSE @]

\* The two halves of the loop: first in b1 and b2 read, then the other way round.
Counted(st) == [st EXCEPT !.linec = @ + 1]
Alike(st)   == Counted([st EXCEPT !.uniq = @ + 1])
Anew(o, st, line) == Counted([Pline(o, st, line) EXCEPT !.linec = 0])
RECURSIVE Outer(_, _, _, _), Inner(_, _, _, _)
Outer(o, in, b1, st) ==
  IF in = <<>> THEN Pline(o, st, b1)
  ELSE IF Equal(o, b1, Head(in)) THEN Outer(o, Tail(in), b1, Alike(st))
  ELSE Inner(o, Tail(in), Head(in), Anew(o, st, b1))
Inner(o, in, b2, st) ==
  IF in = <<>> THEN Pline(o, st, b2)
  ELSE IF Equal(o, Head(in), b2) THEN Inner(o, Tail(in), b2, Alike(st))
  ELSE Outer(o, Tail(in), Head(in), Anew(o, st, b2))

UniqStart == [linec |-> 1, uniq |-> 0, out |-> <<>>]
Uniq(o, in) == IF in = <<>> THEN <<>> ELSE Outer(o, Tail(in), Head(in), UniqStart).out

(* ---- tr: a set is a sequence of codes; a negative one was written with  *)
(* a backslash.  s is what is left of it, last and max the range begun.    *)
Dash == 2
Nextc(s) == IF s = <<>> THEN 0 ELSE Max({Head(s), -Head(s)})
Rest(s) == IF s = <<>> THEN s ELSE Tail(s)
Plain(t) == LET c == Nextc(t.s) IN [t EXCEPT !.s = Rest(@), !.last = c, !.c = c]

\* One character of a set in .c, 0 at its end.
Next(t) ==
  LET u == [t EXCEPT !.max = 0, !.last = 0]
      top == Nextc(Rest(t.s))
  IN IF t.max # 0 /\ t.last < t.max THEN [t EXCEPT !.last = @ + 1, !.c = t.last + 1]
     ELSE IF t.max # 0 THEN Plain(u)
     ELSE IF t.last # 0 /\ t.s # <<>> /\ Head(t.s) = Dash
          THEN LET r == [t EXCEPT !.s = Rest(Rest(@)), !.max = top]
               IN CASE top = 0 -> [t EXCEPT !.c = Dash]
                    [] top # 0 /\ top < t.last -> [r EXCEPT !.last = top - 1, !.c = Dash]
                    [] top = t.last -> Plain([r EXCEPT !.max = 0, !.last = 0])
                    [] OTHER -> [r EXCEPT !.last = @ + 1, !.c = t.last + 1]
     ELSE Plain(t)
String(s) == [s |-> s, last |-> 0, max |-> 0, c |-> 0]

\* Every character of a set; at most n of them, for a set may have no end.
RECURSIVE Expand(_, _, _)
Expand(u, n, seq) == IF n = 0 \/ u.c = 0 THEN seq ELSE Expand(Next(u), n - 1, Append(seq, u.c))
Most == 3 * Codes
Set(s) == Expand(Next(String(s)), Most, <<>>)

Absent(set) == SelectSeq([c \in 1 .. Codes |-> c], LAMBDA c : c \notin set)
From(c, set) == IF c THEN Absent(ToSet(set)) ELSE set
Paired(to, i) == IF to = <<>> THEN 0 ELSE to[Min({i, Len(to)})]
\* The tables, of which a later pair of the same character overwrites an earlier.
Recoded(o, to, at, c) ==
  IF at = {} THEN c ELSE IF o.d THEN 0
  ELSE LET d == Paired(to, Max(at)) IN IF d = 0 THEN c ELSE d
Codetab(o, from, to) == [c \in 1 .. Codes |-> Recoded(o, to, {i \in DOMAIN from : from[i] = c}, c)]
Squeezed(from, to) == {Paired(to, i) : i \in DOMAIN from} \cup
                      {to[i] : i \in (Len(from) + 1) .. Len(to)} \cup {0}

TrStep(code, sqz, st, c) ==
  LET d == IF c = 0 THEN 0 ELSE code[c]
  IN IF d = 0 \/ (d = st.save /\ d \in sqz) THEN st
     ELSE [save |-> d, out |-> Append(st.out, d)]
Copied(code, sqz, in) ==
  FoldLeft(LAMBDA st, c : TrStep(code, sqz, st, c), [save |-> 0, out |-> <<>>], in).out
Filter(o, from, to, in) ==
  Copied(Codetab(o, from, to), IF o.s THEN Squeezed(from, to) ELSE {}, in)
Tr(o, in) == Filter(o, From(o.c, Set(o.from)), Set(o.to), in)

(* The case of a set on the command line: letters are small but where a %  *)
(* has turned that over; punctuation turns it back.                        *)
FoldChar(c, up) == IF c.kind = "letter" THEN [c EXCEPT !.big = up] ELSE c
StaysUp(c) == c.kind \in {"letter", "digit"}
RECURSIVE Casefold(_, _)
Casefold(s, up) ==
  IF s = <<>> THEN <<>>
  ELSE LET c == Head(s) IN
    IF c.kind = "back" THEN
      LET n == IF Len(s) > 1 THEN <<s[2]>> ELSE <<>>
      IN (IF n # <<>> /\ n[1].kind = "percent" THEN n ELSE <<c>> \o n) \o Casefold(SubSeq(s, Len(n) + 2, Len(s)), FALSE)
    ELSE IF c.kind = "percent" THEN Casefold(Tail(s), ~up)
    ELSE <<FoldChar(c, up)>> \o Casefold(Tail(s), up /\ StaysUp(c))

(* ---- uuencode and uudecode: bytes, of which buf keeps the ones of the   *)
(* line before where the last line is short.                               *)
Enc(c) == IF c % 64 = 0 THEN 96 ELSE 32 + (c % 64)
Dec(c) == (c - 32) % 64
Outdec(p, q, r) == <<Enc(p \div 4), Enc((p % 4) * 16 + q \div 16), Enc((q % 16) * 4 + r \div 64), Enc(r % 64)>>
Over(new, old) == new \o SubSeq(old, Len(new) + 1, Len(old))
RECURSIVE Encode(_, _)
Encode(f, old) ==
  LET n    == Min({Len(f), Line})
      buf  == Over(SubSeq(f, 1, n), old)
      text == FlattenSeq([i \in 1 .. (n + 2) \div 3 |-> Outdec(buf[3 * i - 2], buf[3 * i - 1], buf[3 * i])])
  IN <<<<Enc(n)>> \o text>> \o (IF n = 0 THEN <<>> ELSE Encode(SubSeq(f, n + 1, Len(f)), buf))

Three(q) == LET d == [i \in 1 .. 4 |-> Dec(q[i])]
            IN <<d[1] * 4 + d[2] \div 16, (d[2] % 16) * 16 + d[3] \div 4, (d[3] % 4) * 64 + d[4]>>
Triple(q, n) == SubSeq(Three(q), 1, n)
RECURSIVE Decode(_)
Decode(lines) ==
  LET n == Dec(lines[1][1])
  IN IF n = 0 THEN <<>>
     ELSE FlattenSeq([i \in 1 .. (n + 2) \div 3 |->
            Triple(SubSeq(lines[1], 4 * i - 2, 4 * i + 1), Min({3, n - 3 * (i - 1)}))]) \o Decode(Tail(lines))

(* ---- crc: a register is the set of its bits that are on, so that the    *)
(* exclusive or is the symmetric difference.                               *)
Xor(a, b) == (a \ b) \cup (b \ a)
Shift(a, n) == {b - n : b \in {x \in a : x >= n}}
Polynomial == {5, 8, 9, 15, 19, 20, 21, 23, 24, 26, 27, 29, 30, 31}
\* The table's entry for a byte: what the polynomial leaves after eight shifts.
RECURSIVE Entry(_, _)
Entry(a, n) == IF n = 0 THEN a ELSE Entry(Xor(Shift(a, 1), IF 0 \in a THEN Polynomial ELSE {}), n - 1)
Updc32(crc, octet) == Xor(Entry(Xor(crc, octet) \cap 0 .. 7, 8), Shift(crc, 8))
AllOnes == 0 .. 31
Crc32file(start, bytes) == FoldLeft(Updc32, start, bytes)

CrcFrom(nflag, st) == IF nflag THEN AllOnes ELSE st.total
\* The files in turn, one that does not open or is not read to its end adding nothing.
Crc(nflag, fs) ==
  FoldLeft(LAMBDA st, f :
             LET crc == Crc32file(CrcFrom(nflag, st), f.bytes)
             IN CASE ~f.opens -> [st EXCEPT !.rc = 1]
                  [] f.opens /\ ~f.whole -> st
                  [] OTHER -> [st EXCEPT !.n = @ + 1,
                       !.total = IF nflag THEN @ ELSE crc,
                       !.out = IF nflag THEN Append(@, AllOnes \ crc) ELSE @],
           [total |-> AllOnes, n |-> 0, rc |-> 0, out |-> <<>>], fs)
CrcPrinted(nflag, fs) == LET st == Crc(nflag, fs) IN IF ~nflag /\ st.n > 0 THEN <<AllOnes \ st.total>> ELSE st.out
=============================================================================
