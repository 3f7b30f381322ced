----------------------------- MODULE NumberSpec ------------------------------
(***************************************************************************)
(* What the keys of sort mean: the fields between the separators ":", or   *)
(* between blanks, each as a number or as text, in the order of its own    *)
(* flags or, when it has none, of the global ones; and what the numbers of *)
(* dc mean.                                                                *)
(***************************************************************************)
EXTENDS Jobs, Integers, Sequences, FiniteSets, FiniteSetsExt, SequencesExt

K == INSTANCE SortKeys

KColon == 58
KNumbers == UpTo({45, 46, 48, 50}, 3) \cup {<<50, KColon, 45, 50>>, <<48, KColon, 48, 46, 50>>, <<50, KColon, 50>>, <<45, KColon, 50, 48>>}
KTexts == UpTo({45, 65, 97, KColon}, 2) \cup {<<97, KColon, 65>>, <<65, KColon, 65, KColon, 97>>, <<97, KColon, 97, 45>>,
  <<97, KColon, 32, 65>>, <<97, KColon, 1, 97>>, <<97, KColon, 32, 97, KColon, 65>>}
KWords == UpTo({32, 65, 97}, 3) \cup {<<97, 32, 32, 65>>, <<97, 32, 97, 32>>, <<32, 97, 32, 65, 32, 97>>, <<97, 32, 1, 65>>, <<97, 32, 45, 97, 32, 65>>}
KColumns == {<<>>, <<50>>, <<32, 48, 32>>, <<50, 32, 50>>, <<48, 32, 32, 45, 50>>, <<32, 50, 32, 48, 46, 50>>, <<50, 32, 45, 50, 32, 50>>, <<48, 32, 50, 48>>}
KLine(of) == CASE of = "numbers" -> KNumbers [] of = "texts" -> KTexts [] of = "words" -> KWords [] of = "columns" -> KColumns
KPos(m, flags) == [m |-> m, n |-> -1, flags |-> flags]
\* No key; a field on; one field only; two keys, the second of the first field.
KKeys(flags) == {<<>>, <<<<KPos(1, flags)>>>>, <<<<KPos(1, flags), KPos(2, <<>>)>>>>, <<<<KPos(1, flags), KPos(2, <<>>)>>, <<KPos(0, <<"f">>), KPos(1, <<>>)>>>>}
KJob(of, tab, globals, owns, us) ==
  [prog : {"sortkeys"}, tab : {tab}, global : globals, keys : UNION {KKeys(flags) : flags \in owns}, u : us,
   of : {of}, a : KLine(of)]
\* A letter that stands for nothing; an offset in characters.
KOdd == [prog : {"sortkeys"}, tab : {0}, global : {<<"k">>}, keys : {<<>>}, u : {FALSE}, of : {"columns"}, a : KColumns]
  \cup [prog : {"sortkeys"}, tab : {0}, global : {<<>>}, keys : {<<<<[m |-> 1, n |-> n, flags |-> <<>>]>>>> : n \in 0 .. 1},
        u : {FALSE}, of : {"words"}, a : KWords]
KeysJobs == KJob("numbers", KColon, {<<"n">>, <<"n", "r">>}, {<<>>, <<"n">>}, BOOLEAN)
  \cup KJob("texts", KColon, {<<>>, <<"d", "r">>}, {<<>>, <<"f">>, <<"r">>, <<"b">>}, BOOLEAN)
  \cup KJob("words", 0, {<<>>, <<"b", "i">>}, {<<>>, <<"i", "f">>, <<"d">>}, {TRUE})
  \cup KJob("columns", 0, {<<>>, <<"n">>}, {<<>>, <<"n", "r">>}, {FALSE}) \cup KOdd
KArgs == [global |-> [m |-> -1, n |-> -1, flags |-> job.global], keys |-> job.keys]
KeysRuns ==
  /\ job.prog = "sortkeys" /\ ~done
  /\ \E fields \in {K!Fields(KArgs)} :
       Answer(IF ~K!Accepted(fields) THEN [usage |-> TRUE, cmp |-> <<>>]
              ELSE [usage |-> FALSE, cmp |-> [b \in KLine(job.of) |-> K!Cmp(job.a, b, fields, job.tab, job.u)]])

\* The sign of a comparison, from what is compared.
KSign(n) == CASE n > 0 -> 1 [] n < 0 -> -1 [] OTHER -> 0
KBytes(s, t) == LET differ == {i \in 1 .. Min({Len(s), Len(t)}) : s[i] # t[i]}
                IN IF differ = {} THEN KSign(Len(t) - Len(s)) ELSE KSign(t[Min(differ)] - s[Min(differ)])
\* In hundredths.
KDigits(s, p) == SubSeq(s, p, Min({Len(s) + 1} \cup {i \in p .. Len(s) : s[i] \notin {48, 50}}) - 1)
KNat(ds) == FoldLeft(LAMBDA v, d : 10 * v + d - 48, 0, ds)
KNumber(whole, frac) == 100 * KNat(whole) + KNat(SubSeq(frac \o <<48, 48>>, 1, 2))
KUnsigned(s) == LET point == Len(KDigits(s, 1)) + 1
                IN KNumber(KDigits(s, 1), IF point <= Len(s) /\ s[point] = 46 THEN KDigits(s, point + 1) ELSE <<>>)
KValue(s) == IF s # <<>> /\ s[1] = 45 THEN -KUnsigned(Tail(s)) ELSE KUnsigned(s)
\* The fields from one on, to another or to the end of the line: between blanks a field
\* begins with its first other character, and a key ends before the next field.
KBlankField(s, key) ==
  LET begins == SelectSeq([i \in DOMAIN s |-> i], LAMBDA i : s[i] # 32 /\ (i = 1 \/ s[i - 1] = 32))
      begin(m) == IF m + 1 > Len(begins) THEN Len(s) + 1 ELSE begins[m + 1]
  IN SubSeq(s, begin(key[1].m) + Max({0, key[1].n}), IF Len(key) = 1 THEN Len(s) ELSE begin(key[2].m) - 1)
KTabField(s, key) ==
  LET tabs == SelectSeq([i \in DOMAIN s |-> i], LAMBDA i : s[i] = KColon)
      after(m) == IF m = 0 THEN 1 ELSE IF m > Len(tabs) THEN Len(s) + 1 ELSE tabs[m] + 1
      before(m) == IF m > Len(tabs) THEN Len(s) ELSE tabs[m] - 1
  IN SubSeq(s, after(key[1].m), IF Len(key) = 1 THEN Len(s) ELSE before(key[2].m))
KUnblanked(s) == SubSeq(s, Min({Len(s) + 1} \cup {i \in DOMAIN s : s[i] # 32}), Len(s))
KFlags(key) == ToSet(IF key[1].flags = <<>> THEN job.global ELSE key[1].flags)
KField(s, key) ==
  IF job.tab = 0 THEN KBlankField(s, key)
  ELSE IF "b" \in KFlags(key) THEN KUnblanked(KTabField(s, key)) ELSE KTabField(s, key)
KText(flags, s) ==
  LET kept == SelectSeq(s, LAMBDA c : ("d" \in flags => c \notin {1, 45, KColon}) /\ ("i" \in flags => c # 1))
  IN [i \in DOMAIN kept |-> IF "f" \in flags /\ kept[i] = 97 THEN 65 ELSE kept[i]]
KBy(flags, s, t) ==
  (IF "r" \in flags THEN -1 ELSE 1) *
    (IF "n" \in flags THEN KSign(KValue(KUnblanked(t)) - KValue(KUnblanked(s))) ELSE KBytes(KText(flags, s), KText(flags, t)))
KTold(s, t) == IF job.keys = <<>> THEN <<KBy(ToSet(job.global), s, t)>>
               ELSE [k \in DOMAIN job.keys |-> KBy(KFlags(job.keys[k]), KField(s, job.keys[k]), KField(t, job.keys[k]))]
KMeant(s, t) ==
  LET differ == SelectSeq(KTold(s, t), LAMBDA sign : sign # 0)
  IN CASE differ # <<>> -> Head(differ)
       [] differ = <<>> /\ job.u -> 0
       [] OTHER -> KBytes(s, t) * (IF "r" \in ToSet(job.global) THEN -1 ELSE 1)

KOffset == \E k \in DOMAIN job.keys : job.keys[k][1].n # -1

(* sort's comparison is the order that the keys describe: numbers by their *)
(* values whatever their length and sign, text without what is ignored,    *)
(* then the next key, and the bytes of the lines last (cmp, skip, field).  *)
(* A letter that is no option is refused, and nothing else is, but for a   *)
(* key with an offset in characters, which the usage text allows.          *)
KeysOrder ==
  Ended("sortkeys") =>
    /\ KOffset \/ (out.usage <=> "k" \in ToSet(job.global))
    /\ ~out.usage => \A b \in KLine(job.of) : KSign(out.cmp[b]) = KMeant(job.a, b)

-----------------------------------------------------------------------------
(***************************************************************************)
(* dc: arithmetic on integers, for the digits that make carries, borrows and*)
(* wrong estimates happen.                                                 *)
(***************************************************************************)
D == INSTANCE DcNumbers

DNaturals(S, n) == {D!Trim(SubSeq(p, 1, n)) : p \in [1 .. n -> S]}
DSigned(S) == S \cup {D!Chsign(p) : p \in S}
DScaled(S, scales) == [d : S, s : scales]
DivJobs == [prog : {"dcint"}, p : DSigned(DNaturals({0, 9, 10, 50, 99}, 3)), q : DSigned(DNaturals({0, 1, 10, 33, 99}, 2))]
  \cup [prog : {"dcint"}, p : DSigned(DNaturals({0, 33, 99}, 4)), q : DSigned({<<3>>, <<99, 1>>, <<1, 10>>})]
ScaleJobs == [prog : {"dcscale"}, x : DScaled({<<>>, <<1>>, <<25>>, <<50>>, <<99>>, <<0, 1>>, <<25, 9>>, <<99, 9>>, <<1, 10>>}, 0 .. 3),
      y : DScaled({<<3>>, <<10>>, <<25, 1>>}, 0 .. 3), k : 0 .. 2]
PrintJobs == [prog : {"dcprint"}, x : DScaled(DNaturals({0, 1, 5, 10, 99}, 2), 0 .. 3), base : {2, 3, 8, 10, 16, 99}, k : 0 .. 2]
NumeralJobs == [prog : {"dcread"}, ds : UpTo({0, 1, 9}, 4) \ {<<>>}, base : {2, 8, 10, 16}, n : 0 .. 2]
DcJobs == DivJobs \cup ScaleJobs \cup PrintJobs \cup {j \in NumeralJobs : j.n <= Len(j.ds)}

DcRuns ==
  \/ job.prog = "dcint" /\
     Answer([sum |-> D!Add(job.p, job.q), minus |-> D!Chsign(job.p), product |-> D!Mult(job.p, job.q),
             div |-> IF job.q = <<>> THEN <<>> ELSE D!Dcdiv(job.p, job.q),
             root |-> IF job.p = <<>> \/ D!Negative(job.p) THEN <<>> ELSE D!Dcsqrt(job.p)])
  \/ job.prog = "dcscale" /\
     Answer([sum |-> D!Sum(job.x, job.y), product |-> D!Product(job.x, job.y, job.k), quotient |-> D!Quotient(job.x, job.y, job.k),
             root |-> D!Root(job.x, job.k), power |-> D!Power(job.x, <<3>>, job.k), remainder |-> D!Remainder(job.x, job.y, job.k)])
  \/ job.prog = "dcprint" /\ Answer(D!Dcprint(job.x, job.base, job.k))
  \/ job.prog = "dcread" /\ Answer(D!Readin(job.ds, job.n, <<job.base>>))

DValue(p) == FoldRight(LAMBDA d, v : d + 100 * v, p, 0)
DAbs(v) == IF v < 0 THEN -v ELSE v
DDiv(v, w) == IF (v < 0) # (w < 0) THEN -(DAbs(v) \div DAbs(w)) ELSE DAbs(v) \div DAbs(w)
DRoot(v, r) == r * r <= v /\ (r + 1) * (r + 1) > v
\* v with s decimals, cut to t.
DCut(v, s, t) == IF t >= s THEN v * 10 ^ (t - s) ELSE v \div 10 ^ (s - t)
DDigits(ds, base) == FoldLeft(LAMBDA v, d : base * v + d, 0, ds)

(* The digits of base 100 hold the sum, the product, the quotient cut      *)
(* toward zero with its remainder, and the whole root (dc.c add, chsign,   *)
(* mult, div, dcsqrt).                                                     *)
IntegersRight ==
  Ended("dcint") =>
    LET v == DValue(job.p)
        w == DValue(job.q)
    IN /\ DValue(out.sum) = v + w /\ DValue(out.minus) = -v
       /\ w = 0 \/ DAbs(v) < 1000000000 \div DAbs(w) => DValue(out.product) = v * w   \* TLC's integers
       /\ w # 0 => DValue(out.div.q) = DDiv(v, w) /\ DValue(out.div.rem) = v - w * DDiv(v, w)
       /\ v > 0 => DRoot(v, DValue(out.root))

(* With decimals the results are the exact ones cut to the scale that the  *)
(* manual gives; what is left by / is %, unless the dividend was cut.      *)
ScalesRight ==
  Ended("dcscale") =>
    LET x == job.x
        y == job.y
        v == DValue(x.d)
        w == DValue(y.d)
        at(r) == DValue(r.d)
    IN /\ out.sum.s = Max({x.s, y.s}) /\ at(out.sum) = DCut(v, x.s, out.sum.s) + DCut(w, y.s, out.sum.s)
       /\ out.product.s = Min({x.s + y.s, Max({x.s, y.s, job.k})}) /\ at(out.product) = DCut(v * w, x.s + y.s, out.product.s)
       /\ out.quotient.s = job.k /\ at(out.quotient) = DCut(v, x.s, job.k + y.s) \div w
       /\ v > 0 => out.root.s = Max({x.s, job.k}) /\ DRoot(DCut(v, x.s, 2 * out.root.s), at(out.root))
       /\ out.power.s = Min({3 * x.s, Max({x.s, job.k})}) /\ at(out.power) = DCut(v * v * v, 3 * x.s, out.power.s)

(* A number is printed in every base as what it is, cut to the scale, and  *)
(* read as what it says.                                                   *)
BasesRight ==
  /\ Ended("dcprint") =>
       LET s == IF job.base = 10 THEN job.x.s ELSE job.k
           v == DCut(DValue(job.x.d), job.x.s, s)
           n == Min({2, Len(out.fraction)})
       IN /\ DDigits(out.whole, job.base) = v \div 10 ^ s
          /\ DDigits(SubSeq(out.fraction, 1, n), job.base) = ((v % 10 ^ s) * job.base ^ n) \div 10 ^ s
  /\ Ended("dcread") => DValue(out.d) = DCut(DDigits(job.ds, job.base), 0, job.n) \div job.base ^ job.n
NumbersRight == IntegersRight /\ ScalesRight /\ BasesRight
=============================================================================
