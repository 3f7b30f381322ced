------------------------------ MODULE SortKeys ------------------------------
(***************************************************************************)
(* sort/sort.c: how two lines compare.  The arguments give key fields (+m  *)
(* -m, with flags of their own or else the global ones; +m.n is refused),  *)
(* skip finds a field in a line, and cmp compares the fields in turn, as   *)
(* text through a table and without the ignored characters, or as numbers. *)
(*                                                                         *)
(* A line is a sequence of character codes, without its newline.  The      *)
(* result has the sign of C's: positive when the first line comes first.   *)
(***************************************************************************)
EXTENDS Integers, Sequences, FiniteSetsExt, SequencesExt

Let(v, Op(_)) == Op(v)    \* Op of a value that is computed once

Newline == 10
Blanks == {32, 9}
IsDigit(c) == c \in 48 .. 57
IsLetter(c) == c \in 65 .. 90 \cup 97 .. 122

\* The tables nofold, fold; zero, dict, nonprint.
Code(f, c) == IF f.fold /\ c \in 97 .. 122 THEN c - 32 ELSE c
Ignored(f, c) ==
  CASE f.ignore = "none" -> FALSE
    [] f.ignore = "dict" -> ~(IsDigit(c) \/ IsLetter(c) \/ c \in Blanks)
    [] f.ignore = "nonprint" -> c \notin 32 .. 126 \cup {9}

-----------------------------------------------------------------------------
(***************************************************************************)
(* Arguments to keys: a number m, flags, and a number n behind a ".", each *)
(* -1 where there is none.  usage() ends the program: the key is not ok.   *)
(***************************************************************************)

Proto == [ok |-> TRUE, fold |-> FALSE, ignore |-> "none", nflg |-> FALSE, rflg |-> 1,
          bflg |-> <<FALSE, FALSE>>, m |-> <<0, -1>>, n |-> <<0, 0>>]

\* field(): one flag; k is 1 in +pos and in the global flags, 2 in -pos.
Flag(f, k, c) ==
  CASE c = "b" -> [f EXCEPT !.bflg[k] = TRUE]
    [] c = "d" -> [f EXCEPT !.ignore = "dict"]
    [] c = "f" -> [f EXCEPT !.fold = TRUE]
    [] c = "i" -> [f EXCEPT !.ignore = "nonprint"]
    [] c = "n" -> [f EXCEPT !.nflg = TRUE]
    [] c = "r" -> [f EXCEPT !.rflg = -1]
    [] c = "u" -> f
    \* Any other letter, and the ".", which falls into the case of a digit and is none.
    [] OTHER -> [f EXCEPT !.ok = FALSE]
Field(f, k, arg) ==
  LET place == IF arg.m = -1 THEN f ELSE [f EXCEPT !.m[k] = arg.m]
      chars == IF arg.n = -1 THEN place ELSE Flag(place, k, ".")
  IN FoldLeft(LAMBDA g, c : Flag(g, k, c), chars, arg.flags)

\* main: fields[0] is the global one; each other begins with +pos and may have
\* a -pos.  A key without flags of its own has the global ones.
Plain(f) == [f EXCEPT !.m = Proto.m, !.n = Proto.n] = Proto
\* (faulty form of Inherit: whatever flags it has)
InheritAlways(f, g) == [g EXCEPT !.m = f.m, !.n = f.n, !.bflg = <<g.bflg[1], g.bflg[1]>>]
Inherit(f, g) ==
  IF Plain(f) THEN [g EXCEPT !.m = f.m, !.n = f.n, !.bflg = <<g.bflg[1], g.bflg[1]>>] ELSE f
Fields(args) ==
  LET global == Field(Proto, 1, args.global)
      key(a) == LET plus == Field(Proto, 1, a[1])
                IN Inherit(IF Len(a) > 1 THEN Field(plus, 2, a[2]) ELSE plus, global)
  IN <<global>> \o [i \in DOMAIN args.keys |-> key(args.keys[i])]
Accepted(fields) == \A k \in DOMAIN fields : fields[k].ok

-----------------------------------------------------------------------------
(***************************************************************************)
(* Places in a line: Len(s) + 1 is its newline.                            *)
(***************************************************************************)

At(s, p) == IF p > Len(s) THEN Newline ELSE s[p]
Eol(s) == Len(s) + 1
First(s, p, q, set) == Min({q} \cup {i \in p .. q - 1 : s[i] \in set})
PastBlanks(s, p) == Min({Eol(s)} \cup {i \in p .. Len(s) : s[i] \notin Blanks})

\* skip: i fields on; -1 is the mark of the end of the line met on the way.
RECURSIVE Over(_, _, _, _, _)
Over(s, p, i, tab, j) ==
  IF i = 0 THEN p
  ELSE Let(IF tab # 0 THEN First(s, p, Eol(s), {tab})
                      ELSE First(s, PastBlanks(s, p), Eol(s), Blanks), LAMBDA q :
         IF q = Eol(s) THEN -1
         ELSE Over(s, IF tab # 0 /\ (i > 1 \/ j = 1) THEN q + 1 ELSE q, i - 1, tab, j))

Skip(s, f, tab, j) ==
  IF f.m[j] < 0 THEN Eol(s)
  ELSE Let(Over(s, 1, f.m[j], tab, j), LAMBDA p :
         LET q == IF tab = 0 \/ f.bflg[j] THEN PastBlanks(s, p) ELSE p
         IN IF p = -1 THEN Eol(s) ELSE Min({Eol(s), q + f.n[j]}))

-----------------------------------------------------------------------------
(***************************************************************************)
(* cmp.  0 goes on with the next field.                                    *)
(***************************************************************************)

Digits(s, p, q) == Min({q} \cup {i \in p .. q - 1 : ~IsDigit(s[i])})
NonZero(s, p, q) == \E i \in p .. q - 1 : s[i] # 48

\* Numbers: a sign, the digits before the point, aligned on their right, those
\* after it, aligned on their left.  A field's end limits the digits only.
DigitsEnd(s, p, q) == IF p < q THEN Digits(s, p, q) ELSE p
Number(s, p, q, tab, f) ==
  Let(PastBlanks(s, IF tab # 0 /\ p < q /\ At(s, p) = tab THEN p + 1 ELSE p), LAMBDA p1 :
  Let(IF At(s, p1) = 45 THEN p1 + 1 ELSE p1, LAMBDA p2 :
  Let(DigitsEnd(s, p2, q), LAMBDA point :
  Let(IF At(s, point) = 46 THEN point + 1 ELSE point, LAMBDA frac :
    [sign |-> IF p2 > p1 THEN -f.rflg ELSE f.rflg, from |-> p2, point |-> point, frac |-> frac,
     to |-> DigitsEnd(s, frac, q)]))))

\* The first difference of the digits before the point, or of those after it.
CmpDigits(a, x, b, y) ==
  Let({i \in 1 .. Min({x.point - x.from, y.point - y.from}) : a[x.point - i] # b[y.point - i]}, LAMBDA differ :
  Let({i \in 0 .. Min({x.to - x.frac, y.to - y.frac}) - 1 : a[x.frac + i] # b[y.frac + i]}, LAMBDA fdiffer :
    IF differ # {} THEN b[y.point - Max(differ)] - a[x.point - Max(differ)]
    ELSE IF fdiffer # {} THEN b[y.frac + Min(fdiffer)] - a[x.frac + Min(fdiffer)] ELSE 0))
\* The signs are compared, and where they are the same the digits both have.
CmpNumber(a, x, b, y) ==
  LET same == x.sign = y.sign
      both == IF same THEN Min({x.point - x.from, y.point - y.from}) ELSE 0
      fboth == IF same THEN Min({x.to - x.frac, y.to - y.frac}) ELSE 0
      digits == IF same THEN CmpDigits(a, x, b, y) ELSE 0
  IN IF NonZero(a, x.from, x.point - both) THEN -x.sign
     ELSE IF NonZero(b, y.from, y.point - both) THEN y.sign
     ELSE IF digits # 0 THEN digits * x.sign
     ELSE IF NonZero(a, x.frac + fboth, x.to) THEN -x.sign
     ELSE IF NonZero(b, y.frac + fboth, y.to) THEN y.sign ELSE 0

\* Text: what is left of both fields once the ignored characters are out.
Kept(s, p, q, f) == LET kept == SelectSeq(SubSeq(s, p, q - 1), LAMBDA c : ~Ignored(f, c))
                    IN [i \in DOMAIN kept |-> Code(f, kept[i])]
CmpCodes(s, t) ==
  Let({i \in 1 .. Min({Len(s), Len(t)}) : s[i] # t[i]}, LAMBDA differ :
    IF differ # {} THEN t[Min(differ)] - s[Min(differ)] ELSE Len(t) - Len(s))
CmpText(a, pa, la, b, pb, lb, f) == CmpCodes(Kept(a, pa, la, f), Kept(b, pb, lb, f)) * f.rflg

Place(s, f, whole, tab, j) == IF ~whole THEN Skip(s, f, tab, j) ELSE IF j = 1 THEN 1 ELSE Eol(s)
CmpPlaces(a, pa, la, b, pb, lb, f, tab) ==
  IF f.nflg THEN CmpNumber(a, Number(a, pa, la, tab, f), b, Number(b, pb, lb, tab, f))
            ELSE CmpText(a, pa, la, b, pb, lb, f)
CmpField(a, b, f, whole, tab) ==
  CmpPlaces(a, Place(a, f, whole, tab, 1), Place(a, f, whole, tab, 2),
            b, Place(b, f, whole, tab, 1), Place(b, f, whole, tab, 2), f, tab)

\* cmpa: the whole lines.
Cmpa(a, b, rflg) == CmpCodes(a, b) * rflg

Cmp(a, b, fields, tab, uflg) ==
  LET keys == IF Len(fields) = 1 THEN 1 .. 1 ELSE 2 .. Len(fields)
      told(r) == {k \in keys : r[k] # 0}
  IN Let([k \in keys |-> CmpField(a, b, fields[k], k = 1, tab)], LAMBDA r :
       IF told(r) # {} THEN r[Min(told(r))] ELSE IF uflg THEN 0 ELSE Cmpa(a, b, fields[1].rflg))
=============================================================================
