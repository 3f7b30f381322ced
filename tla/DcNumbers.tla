------------------------------ MODULE DcNumbers ------------------------------
(***************************************************************************)
(* dc/dc.c: the arithmetic.  A number is a sequence of digits of base 100, *)
(* the smallest first; a negative one has a last digit -1, which counts    *)
(* like any other: <<95, -1>> is 95 - 100.  A scaled number [d, s] has s   *)
(* digits of base 10 after the point (the last byte of a C block).         *)
(***************************************************************************)
EXTENDS Integers, Sequences, FiniteSetsExt, SequencesExt

\* Op of a value that is computed once.
Let(v, Op(_)) == Op(v)
Dig(p, i) == IF i \in DOMAIN p THEN p[i] ELSE 0
Zeros(n) == [i \in 1 .. n |-> 0]
Negative(p) == p # << >> /\ Last(p) < 0
Low(p, n) == SubSeq(p, 1, n)
High(p, n) == SubSeq(p, n + 1, Len(p))
Top(p, j) == Dig(p, Len(p) + 1 - j)   \* the j-th digit from the top
SChar(x) == IF x > 127 THEN x - 256 ELSE x

\* The carries out of columns n, and the digits they leave.  C keeps a digit in
\* 0..99 and moves a carry or a borrow of one hundred, column after column.
Carries(n) ==
  LET c[i \in 0 .. Len(n)] == IF i = 0 THEN 0 ELSE (n[i] + c[i - 1]) \div 100 IN c
Carried(n) == [i \in 1 .. Len(n) |-> (n[i] + Carries(n)[i - 1]) % 100]
Carry(n) == Carries(n)[Len(n)]
WithCarry(n) == Carried(n) \o (IF Carry(n) # 0 THEN <<Carry(n)>> ELSE << >>)
Trim(p) == Low(p, Max({0} \cup {i \in DOMAIN p : p[i] # 0}))

\* The digits 99 under a -1 say nothing; one is left if there is nothing else.
DropNines(p) == Low(p, Max({1} \cup {i \in 1 .. Len(p) - 1 : p[i] # 99})) \o <<-1>>
Add(p, q) ==
  Let(Trim(WithCarry([i \in 1 .. Max({Len(p), Len(q)}) |-> Dig(p, i) + Dig(q, i)])),
      LAMBDA sum : IF Negative(sum) THEN DropNines(sum) ELSE sum)

Chsign(p) ==
  LET n == [i \in DOMAIN p |-> -p[i]]
  IN Let(Carried(n), LAMBDA r :
       IF Carry(n) # 0 THEN (IF Last(r) = 99 THEN Front(r) ELSE r) \o <<-1>>
       ELSE IF r # << >> /\ Last(r) = 0 THEN Front(r) ELSE r)
Magnitude(p) == IF Negative(p) THEN Chsign(p) ELSE p
Signed(p, minus) == IF minus THEN Chsign(p) ELSE p

\* The rows of the product are added up as columns.
RECURSIVE Columns(_, _, _)
Columns(p, q, j) ==
  IF j > Len(q) THEN Zeros(Len(p) + Len(q) - 1)
  ELSE [i \in 1 .. Len(p) + Len(q) - 1 |-> Dig(p, i - j + 1) * q[j] + Columns(p, q, j + 1)[i]]
Mult(p, q) ==
  IF p = << >> \/ q = << >> THEN << >>
  ELSE Signed(WithCarry(Columns(Magnitude(p), Magnitude(q), 1)), Negative(p) # Negative(q))

-----------------------------------------------------------------------------
(***************************************************************************)
(* dcdiv: long division; each digit is estimated from the first digits of  *)
(* the dividend and of the divisor.                                        *)
(***************************************************************************)

\* A divisor that begins with a digit below ten is taken to three digits, in
\* eighths of a hundred.
Small(r) == Top(r, 1) < 10
Lead(r) == IF Small(r) THEN (((Top(r, 1) * 100 + Top(r, 2)) * 100 + Top(r, 3)) * 2) \div 25
                       ELSE Top(r, 1) * 100 + Top(r, 2)
Estimate(v, r, offset) ==
  LET t == (Top(v, 1) * 100 + Top(v, 2)) * 100 + Top(v, 3) + (IF offset = 0 THEN 1 ELSE 0)
      td == IF Small(r) THEN t * 8 ELSE t
      cc == IF offset = 0 THEN Lead(r) ELSE Lead(r) + 1
      under == Small(r) /\ td % cc < 8 /\ td \div cc > 0
  IN [dig |-> IF under THEN td \div cc - 1 ELSE td \div cc, under |-> under]

\* Take dig times the divisor from the dividend, offset digits up; what is left
\* over a digit's place goes to the digit below.
RECURSIVE DivSteps(_, _, _, _)
DivSteps(v, r, q, offset) ==
  Let(Estimate(v, r, offset), LAMBDA e :
    Let([i \in DOMAIN r |-> r[i] * e.dig], LAMBDA rows :
      Let([i \in 1 .. Len(v) - offset |-> v[offset + i] - Dig(Append(Carried(rows), Carry(rows)), i)], LAMBDA n :
        Let(Low(v, offset) \o Carried(n), LAMBDA left :
          IF offset = 0 THEN [v |-> left, q |-> <<e.dig>> \o q, under |-> e.under, borrow |-> Carry(n) # 0]
          ELSE DivSteps(Front(IF Last(left) # 0 THEN [left EXCEPT ![Len(left) - 1] = SChar(@ + 100)] ELSE left),
                        r, <<e.dig>> \o q, offset - 1)))))

\* (faulty form of Adjust: a digit too large is kept)
AdjustUp(s, r) == [q |-> s.q, v |-> s.v]

\* The last digit may be one too small or one too large.
Adjust(s, r) ==
  Let(Add(Chsign(r), s.v), LAMBDA less :
    IF s.borrow THEN [q |-> <<s.q[1] - 1>> \o Tail(s.q), v |-> Add(r, Front(s.v) \o <<-1>>)]
    ELSE IF s.under /\ ~Negative(less) THEN [q |-> <<s.q[1] + 1>> \o Tail(s.q), v |-> less]
    ELSE [q |-> s.q, v |-> s.v])

Dcdiv(p, q) ==
  LET offset == Len(Magnitude(p)) - Len(Magnitude(q))
      steps(r) == DivSteps(Magnitude(p) \o <<0>>, r, << >>, offset)
  IN IF offset < 0 THEN [q |-> << >>, rem |-> p]
     ELSE Let(Let(Magnitude(q), LAMBDA r : Adjust(steps(r), r)), LAMBDA a :
            [q |-> Signed(Trim(WithCarry(a.q)), Negative(p) # Negative(q)),
             rem |-> Signed(Trim(a.v), Negative(p))])

Two == <<2>>
Ten == <<10>>

-----------------------------------------------------------------------------
(***************************************************************************)
(* Scales: ct decimal digits more (add0) or less (removc, removr).         *)
(***************************************************************************)

Add0(p, ct) == LET q == Zeros(ct \div 2) \o p IN IF ct % 2 = 1 THEN Mult(Ten, q) ELSE q
Removc(p, n) ==
  LET q == High(p, Min({n \div 2, Len(p)})) IN IF n % 2 = 1 THEN Dcdiv(q, Ten).q ELSE q

\* What is removed is kept in irem.  sgetc at the end of p gives -1.
Removr(p, n) ==
  Let(Magnitude(p), LAMBDA a :
    LET low == [i \in 1 .. n \div 2 |-> IF i <= Len(a) THEN a[i] ELSE -1]
        high == High(a, Min({n \div 2, Len(a)}))
        removed(r, irem) == [r |-> Signed(r, Negative(p)), irem |-> Signed(irem, Negative(p))]
    IN IF n % 2 = 0 THEN removed(high, low)
       ELSE Let(Dcdiv(high, Ten), LAMBDA d : removed(d.q, low \o Low(d.rem, Min({1, Len(d.rem)})))))

\* '/' and '%' with scale k (dscale, casediv and the case '%' of commnds).
Shift(x, y, k) == k - x.s + y.s
Quotient(x, y, k) ==
  LET c == Shift(x, y, k)
  IN [d |-> Dcdiv(IF c < 0 THEN Removr(x.d, -c).r ELSE Add0(x.d, c), y.d).q, s |-> k]
Remainder(x, y, k) ==
  LET c == Shift(x, y, k)
  IN IF c >= 0 THEN [d |-> Dcdiv(Add0(x.d, c), y.d).rem, s |-> y.s + k]
     ELSE Let(Removr(x.d, -c), LAMBDA r : [d |-> Add(Add0(Dcdiv(r.r, y.d).rem, -c), r.irem), s |-> x.s])

\* '+': eqk gives both the larger scale.  '*': the product keeps the larger of
\* the scales, or k digits.
Sum(x, y) ==
  LET s == Max({x.s, y.s}) IN [d |-> Add(Add0(x.d, s - x.s), Add0(y.d, s - y.s)), s |-> s]
Product(x, y, k) ==
  LET s == Max({x.s, y.s, k})
      all == x.s + y.s
  IN [d |-> IF all > s THEN Removc(Mult(x.d, y.d), all - s) ELSE Mult(x.d, y.d), s |-> Min({all, s})]

-----------------------------------------------------------------------------
(***************************************************************************)
(* Roots and powers.                                                       *)
(***************************************************************************)

\* Newton's steps go on while they get smaller.
RECURSIVE Newton(_, _)
Newton(p, r) ==
  Let(Dcdiv(Add(Dcdiv(p, r).q, r), Two).q, LAMBDA q : IF Negative(Add(Chsign(r), q)) THEN Newton(p, q) ELSE r)

\* The first guess has the root of the first one or two digits, rounded up, on top.
Dcsqrt(p) ==
  LET n == Len(p)
      c == IF n % 2 = 1 THEN Top(p, 1) ELSE Top(p, 1) * 100 + Top(p, 2)
      guess == Min({i \in 1 .. 101 : i * i > c})
      low == Zeros((n + 1) \div 2 - 1)
  IN Newton(p, low \o (IF guess >= 100 THEN <<guess - 100, 1>> ELSE <<guess>>))
Root(x, k) ==
  IF x.d = << >> THEN x
  ELSE [d |-> Dcsqrt(Add0(x.d, IF k < x.s THEN x.s ELSE 2 * k - x.s)), s |-> Max({k, x.s})]

\* Powers by squaring (no caller has a negative exponent: '^' divides 1 by the
\* power).
RECURSIVE Dcexp(_, _, _)
Dcexp(p, e, r) ==
  IF e = << >> THEN r
  ELSE Let(Dcdiv(e, Two), LAMBDA h : Dcexp(Mult(p, p), h.q, IF h.rem # << >> THEN Mult(p, r) ELSE r))
Power(x, e, k) ==
  LET up == Magnitude(e)
      d == (Dig(up, 1) + 100 * Dig(up, 2)) * x.s
      n == Max({k, x.s})
      cut(p) == IF n < d THEN [d |-> Removc(p, d - n), s |-> n] ELSE [d |-> p, s |-> d]
  IN Let(cut(Dcexp(x.d, up, <<1>>)), LAMBDA r : IF Negative(e) THEN Quotient([d |-> <<1>>, s |-> 0], r, k) ELSE r)

-----------------------------------------------------------------------------
(***************************************************************************)
(* Numbers read and printed, as digits of the base; the point is "places"  *)
(* digits from the end.                                                    *)
(***************************************************************************)

Readin(ds, places, inbas) ==
  LET cut(p) == IF places = 0 THEN p ELSE Dcdiv(Add0(p, places), Dcexp(inbas, <<places>>, <<1>>)).q
  IN [d |-> cut(FoldLeft(LAMBDA a, c : Add(IF c = 0 THEN << >> ELSE <<c>>, Mult(a, inbas)), << >>, ds)), s |-> places]

\* The fraction of p, sc digits.
Getdec(p, sc) ==
  LET low == Low(p, (sc + 1) \div 2)
  IN IF Len(p) * 2 < sc THEN p
     ELSE IF sc % 2 = 0 THEN low
     ELSE Let(Mult(low, Ten), LAMBDA t : Dcdiv([i \in 1 .. Len(low) |-> Dig(t, i)] \o <<0>>, Ten).q)

RECURSIVE Whole(_, _)
Whole(p, base) ==
  IF p = << >> THEN << >>
  ELSE Let(Dcdiv(p, base), LAMBDA d : Append(Whole(d.q, base), Dig(d.rem, 1)))
RECURSIVE Fraction(_, _, _, _)
Fraction(dec, base, sc, n) ==
  IF n = 0 THEN << >>
  ELSE Let(Mult(base, dec), LAMBDA q : <<Dig(Removc(q, sc), 1)>> \o Fraction(Getdec(q, sc), base, sc, n - 1))

\* dclog2 of a positive number.
Log2(n) == Max({i \in 0 .. 30 : 2 ^ i <= n})

\* tenot: base ten is printed as it is held.
Decimal(p, i) == (Dig(p, i \div 2 + 1) \div 10 ^ (i % 2)) % 10
Tenot(p, sc) ==
  [whole |-> [i \in 1 .. Max({0, 2 * Len(p) - sc}) |-> Decimal(p, 2 * Len(p) - i)],
   fraction |-> [i \in 1 .. sc |-> Decimal(p, sc - i)]]

\* dcprint with a base of two or more: any but ten is printed at scale k, and how
\* many digits follow the point comes from that of the scale, through logarithms.
Dcprint(x, base, k) ==
  LET dig == Log2(10) * k
      n == Max({1, (dig \div 10 + dig) \div Log2(base)})
      digits(p) == [whole |-> Whole(Removc(p, k), <<base>>),
                    fraction |-> IF k = 0 THEN << >> ELSE Fraction(Getdec(p, k), <<base>>, k, n)]
  IN IF base = 10 THEN Tenot(Magnitude(x.d), x.s)
                  ELSE digits(Magnitude(Quotient(x, [d |-> <<1>>, s |-> 0], k).d))
=============================================================================
