-------------------------------- MODULE Diff --------------------------------
(***************************************************************************)
(* diff/diffreg.c: the comparison of two files (prune, sort, equiv, stone, *)
(* unravel, check) and what is written of it (output, change, fetch,       *)
(* dump_context_vec).  A file is a sequence of lines.  A line is known by  *)
(* its class, what -b -w -i leave of it, and its class by its hash:        *)
(* different classes may have the same.  Arrays are from 1, as in the code.*)
(* Then diff/diffh.c, which compares in a window.                          *)
(***************************************************************************)
EXTENDS Integers, Sequences, FiniteSets, SequencesExt

CONSTANTS
  Class,     \* Class[x]: the lines that compare equal to x
  Hash,      \* Hash[k]: readhash of a line of the class k, never 0
  MAXCONTEXT, \* MAX_CONTEXT: changes one record has room for
  C, RANGE   \* diffh: the lines that must agree, and those of the window

Larger(x, y) == IF x > y THEN x ELSE y
Smaller(x, y) == IF x < y THEN x ELSE y
Line(s, v) == [serial |-> s, value |-> v]
Prepare(f) == [i \in 1..Len(f) |-> Hash[Class[f[i]]]]

-----------------------------------------------------------------------------
(***************************************************************************)
(* prune: the lines in common at the front and at the end.                 *)
(***************************************************************************)
Pref(f, g) == CHOOSE p \in 0 .. Smaller(Len(f), Len(g)) :
                /\ \A i \in 1..p : f[i] = g[i]
                /\ p = Smaller(Len(f), Len(g)) \/ f[p + 1] # g[p + 1]
Suff(f, g, p) == CHOOSE s \in 0 .. Smaller(Len(f), Len(g)) - p :
                   /\ \A i \in 0 .. s - 1 : f[Len(f) - i] = g[Len(g) - i]
                   /\ \/ s = Smaller(Len(f), Len(g)) - p
                      \/ f[Len(f) - s] # g[Len(g) - s]
Pruned(f, p, s) == [i \in 1 .. Len(f) - p - s |-> Line(i, f[p + i])]

\* sort (Shell's): by value, then by serial number.
After(x, y) == x.value > y.value \/ (x.value = y.value /\ x.serial > y.serial)
RECURSIVE Sift(_, _, _), Pass(_, _, _), Gaps(_, _)
Sift(a, i, m) == IF i < 1 THEN a
                 ELSE IF After(a[i + m], a[i]) THEN a
                 ELSE Sift([a EXCEPT ![i] = a[i + m], ![i + m] = a[i]], i - m, m)
Pass(a, j, m) == IF j > Len(a) - m THEN a ELSE Pass(Sift(a, j, m), j + 1, m)
Gaps(a, m) == IF m = 0 THEN a ELSE Gaps(Pass(a, 1, m), m \div 2)
FirstGap(n) == LET pows == {j \in {1, 2, 4, 8, 16} : j <= n}
               IN CHOOSE j \in pows : \A x \in pows : x <= j
DiffSort(a) == IF a = << >> THEN a ELSE Gaps(SubSeq(a, 1, Len(a)), (2 * FirstGap(Len(a)) - 1) \div 2)

\* equiv: the lines of a by the place in b where their class begins, 0 for none; the lines
\* of b by their serial numbers, the first of a class negative.
RECURSIVE Equiv(_, _, _, _)
Equiv(a, b, i, j) ==
  IF i > Len(a) THEN a
  ELSE IF j > Len(b) \/ a[i].value < b[j].value THEN Equiv([a EXCEPT ![i].value = 0], b, i + 1, j)
  ELSE IF a[i].value = b[j].value THEN Equiv([a EXCEPT ![i].value = j], b, i + 1, j)
  ELSE Equiv(a, b, i, j + 1)
Member(b) == [j \in 1 .. Len(b) + 1 |->
                IF j > Len(b) THEN -1
                ELSE IF j > 1 /\ b[j].value = b[j - 1].value THEN b[j].serial ELSE -b[j].serial]
Unsort(f) == [s \in 1..Len(f) |-> f[CHOOSE i \in 1..Len(f) : f[i].serial = s].value]

-----------------------------------------------------------------------------
(***************************************************************************)
(* stone: the longest common subsequence.  st: the candidates (x, y and    *)
(* the one before, numbered from 0), k, and c[l], the candidate that ends  *)
(* the common subsequences of length l earliest in the second file.        *)
(***************************************************************************)
Cand(st, l) == st.clist[st.c[l] + 1]
Newcand(st, l, x, y, pred) ==
  [st EXCEPT !.clist = Append(@, [x |-> x, y |-> y, pred |-> pred]), !.c[l] = Len(st.clist)]

\* The least l with c[l] at y or behind it, k + 1 for none.
RECURSIVE Bisect(_, _, _, _)
Bisect(st, y, i, j) ==
  LET l == (i + j) \div 2
  IN IF l <= i THEN l + 1
     ELSE IF Cand(st, l).y > y THEN Bisect(st, y, i, l)
     ELSE IF Cand(st, l).y < y THEN Bisect(st, y, l, j)
     ELSE l
StoneSearch(st, y) == IF Cand(st, st.k).y < y THEN st.k + 1 ELSE Bisect(st, y, 0, st.k + 1)

\* The lines of b from the place j on that are equal to the line x of a, one after another:
\* a candidate that is replaced is still the one before the next.
RECURSIVE Inner(_, _, _, _, _, _, _)
Inner(st, b, x, j, y, oldl, oldc) ==
  LET l == StoneSearch(st, y)
      before == IF l # oldl + 1 THEN st.c[l - 1] ELSE oldc
      more == b[j + 1] > 0
  IN IF y <= st.clist[oldc + 1].y
     THEN IF more THEN Inner(st, b, x, j + 1, b[j + 1], oldl, oldc) ELSE st
     ELSE IF l > st.k THEN [Newcand(st, l, x, y, before) EXCEPT !.k = @ + 1]
     ELSE IF Cand(st, l).y <= y
     THEN IF more THEN Inner(st, b, x, j + 1, b[j + 1], oldl, before) ELSE st
     ELSE LET new == Newcand(st, l, x, y, before)
          IN IF more THEN Inner(new, b, x, j + 1, b[j + 1], l, st.c[l]) ELSE new
RECURSIVE Stone(_, _, _, _)
Stone(st, a, b, i) ==
  IF i > Len(a) THEN st
  ELSE IF a[i] = 0 THEN Stone(st, a, b, i + 1)
  ELSE Stone(Inner(st, b, i, a[i], -b[a[i]], 0, st.c[0]), a, b, i + 1)
StoneInit(n) == [k |-> 0, clist |-> <<[x |-> 0, y |-> 0, pred |-> 0]>>, c |-> [l \in 0 .. n + 1 |-> 0]]

\* unravel: J[i], the line of the new file that is the line i of the old, 0 for none.
RECURSIVE Chain(_, _)
Chain(st, q) == IF st.clist[q + 1].y = 0 THEN {}
                ELSE {st.clist[q + 1]} \cup Chain(st, st.clist[q + 1].pred)
Unravel(st, len0, len1, p, s) ==
  LET ch == Chain(st, st.c[st.k])
  IN [i \in 0 .. len0 + 1 |->
        IF i > len0 THEN len1 + 1
        ELSE IF i <= p THEN i
        ELSE IF i > len0 - s THEN i + len1 - len0
        ELSE IF \E q \in ch : q.x + p = i THEN (CHOOSE q \in ch : q.x + p = i).y + p ELSE 0]
\* check: lines that only have the same hash are parted again.  (CheckNot: they are not.)
CheckNot(J, f, g) == J
Check(J, f, g) == [i \in DOMAIN J |-> IF i \in 1..Len(f) /\ J[i] # 0 /\ Class[f[i]] # Class[g[J[i]]]
                                      THEN 0 ELSE J[i]]
\* diffreg
Correspondence(f, g) ==
  LET h0 == Prepare(f)
      h1 == Prepare(g)
      p == Pref(h0, h1)
      s == Suff(h0, h1, p)
      b == DiffSort(Pruned(h1, p, s))
      a == Unsort(Equiv(DiffSort(Pruned(h0, p, s)), b, 1, 1))
      st == Stone(StoneInit(Len(a)), a, Member(b), 1)
  IN Check(Unravel(st, Len(f), Len(g), p, s), f, g)

-----------------------------------------------------------------------------
(***************************************************************************)
(* output: the changes <<a, b, c, d>>, the lines a..b of the old file for  *)
(* c..d of the new, from the front, or for an ed script from the end.      *)
(***************************************************************************)
Run(J, i, last, step) == \* along matched lines
  LET ok(x) == IF step = 1 THEN x <= last /\ J[x] = J[x - 1] + 1
               ELSE x >= last /\ J[x] = J[x + 1] - 1 /\ J[x] # 0
  IN CHOOSE x \in 0 .. Cardinality(DOMAIN J) : /\ IF step = 1 THEN x >= i ELSE x <= i
                             /\ ~ok(x) /\ \A w \in DOMAIN J :
                                  (IF step = 1 THEN w >= i /\ w < x ELSE w <= i /\ w > x) => ok(w)
RECURSIVE Forward(_, _, _), Backward(_, _, _)
Forward(J, m, from) ==
  IF from > m THEN << >>
  ELSE LET i0 == Run(J, from, m, 1)
           i1 == CHOOSE x \in i0 - 1 .. m : /\ x = m \/ J[x + 1] # 0
                                            /\ \A w \in i0 .. x : J[w] = 0
           j1 == J[i1 + 1] - 1
       IN <<<<i0, i1, J[i0 - 1] + 1, j1>>>> \o Forward([J EXCEPT ![i1] = j1], m, i1 + 1)
Backward(J, m, from) ==
  IF from < 1 THEN << >>
  ELSE LET i0 == Run(J, from, 1, -1)
           i1 == CHOOSE x \in 1 .. i0 + 1 : /\ x = 1 \/ J[x - 1] # 0
                                            /\ \A w \in x .. i0 : J[w] = 0
           j1 == J[i1 - 1] + 1
       IN <<<<i1, i0, j1, J[i0 + 1] - 1>>>> \o Backward([J EXCEPT ![i1] = j1], m, i1 - 1)

Changes(J, m, len1, edit) ==
  LET all == (IF edit THEN Backward(J, m, m) ELSE Forward(J, m, 1))
             \o (IF m = 0 THEN <<<<1, 0, 1, len1>>>> ELSE << >>)
  IN SelectSeq(all, LAMBDA c : ~(c[1] > c[2] /\ c[3] > c[4]))

\* change: for ed, one command; for -n, one or two.  range: the line before, to append.
Edit(c, g) == [cmd |-> IF c[1] > c[2] THEN "a" ELSE IF c[3] > c[4] THEN "d" ELSE "c",
               from |-> IF c[1] > c[2] THEN c[2] ELSE c[1], to |-> c[2],
               text |-> SubSeq(g, c[3], c[4])]
Numbered(c, g) ==
  IF c[1] > c[2] THEN <<[cmd |-> "a", at |-> c[2], n |-> c[4] - c[3] + 1, text |-> SubSeq(g, c[3], c[4])]>>
  ELSE <<[cmd |-> "d", at |-> c[1], n |-> c[2] - c[1] + 1, text |-> << >>]>>
       \o (IF c[3] > c[4] THEN << >>
           ELSE <<[cmd |-> "a", at |-> c[2], n |-> c[4] - c[3] + 1, text |-> SubSeq(g, c[3], c[4])]>>)

\* fetch for -D: the old file is copied down to the change; at the end the rest of it.
\* (A change is written in the same breath, so nothing is open between two.)
Copied(f, at, to) == [i \in 1 .. Larger(to - at, 0) |-> f[at + i]]
Merged(f, g, chs) ==
  LET Part(s, c) ==
        LET old == SubSeq(f, c[1], c[2])
            new == SubSeq(g, c[3], c[4])
            upto == IF c[1] > c[2] THEN c[2] ELSE c[1] - 1
        IN [out |-> s.out \o Copied(f, s.at, upto)
                     \o (IF old = << >> THEN << >> ELSE <<"#ifndef">> \o old)
                     \o (IF new = << >> THEN << >>
                         ELSE <<IF old = << >> THEN "#ifdef" ELSE "#else">> \o new)
                     \o (IF old = << >> /\ new = << >> THEN << >> ELSE <<"#endif">>),
            at |-> Larger(s.at, IF c[1] > c[2] THEN upto ELSE c[2])]
      s == FoldLeft(Part, [out |-> << >>, at |-> 0], chs)
  IN s.out \o Copied(f, s.at, Len(f))

\* change and dump_context_vec for -c: the records, a record being the changes in one hunk;
\* a full one is only dumped by the change after the one that did not fit.
Hunks(chs, context) ==
  LET Add(hs, c) ==
        LET cur == Last(hs)
            prev == Last(cur)
            apart == c[1] > prev[2] + 2 * context /\ c[3] > prev[4] + 2 * context
        IN IF hs = << >> \/ Len(cur) > MAXCONTEXT \/ apart THEN Append(hs, <<c>>)
           ELSE [hs EXCEPT ![Len(hs)] = Append(@, c)]
  IN FoldLeft(Add, << >>, chs)
\* One half of a hunk (lo, hi: the columns of its file): marked lines between unmarked.
\* There are none when nothing of that file is in a change.
Half(h, len, lo, hi, context) ==
  LET low == Larger(1, h[1][lo] - context)
      upper == Smaller(len, Last(h)[hi] + context)
      Lines(mark, x, y) == [i \in 1 .. Larger(y - x + 1, 0) |-> <<mark, x + i - 1>>]
      Part(s, c) == [out |-> s.out \o (IF c[lo] > c[hi] THEN Lines(" ", s.at, c[hi])
                                       ELSE Lines(" ", s.at, c[lo] - 1) \o Lines("!", c[lo], c[hi])),
                     at |-> c[hi] + 1]
      all == FoldLeft(Part, [out |-> << >>, at |-> low], h)
  IN IF \A i \in 1..Len(h) : h[i][lo] > h[i][hi] THEN << >>
     ELSE all.out \o Lines(" ", all.at, upper)

-----------------------------------------------------------------------------
(***************************************************************************)
(* diffh: the comparison of files of any length in a window of RANGE lines *)
(* of each.  Where they part it looks for the nearest place where C lines  *)
(* agree; beyond the window it gives up.                                   *)
(***************************************************************************)
INF == 1000
NoText == "NULL"

\* getl: the line n of f.  (What is kept of the two windows is left out.)
Getl(f, n) == IF n > Len(f) THEN NoText ELSE f[n]

\* easysynch: the C lines of f that end at n0 + i are those of g that end at n1 + k.
Agree(f, g, n0, n1, i, k) ==
  /\ i >= C - 1 /\ k >= C - 1
  /\ \A m \in 0 .. C - 1 : Getl(f, n0 + i - m) = Getl(g, n1 + k - m)
Least(S) == CHOOSE x \in S : \A y \in S : x <= y

RECURSIVE Easysynch(_, _, _, _, _)
\* <<a, b>>: the lines that differ are n0 .. n0 + a and n1 .. n1 + b; << >> for not found.
Easysynch(f, g, n0, n1, i) ==
  LET first == {k \in C - 1 .. i - 1 : Agree(f, g, n0, n1, i, k)}
      second == {k \in C - 1 .. i : Agree(f, g, n0, n1, k, i)}
  IN IF i >= RANGE THEN << >>
     ELSE IF Getl(f, n0 + i) = NoText THEN <<INF, INF>>
     ELSE IF first # {} THEN <<i - C, Least(first) - C>>
     ELSE IF Getl(g, n1 + i) = NoText THEN <<INF, INF>>
     ELSE IF second # {} THEN <<Least(second) - C, i - C>>
     ELSE Easysynch(f, g, n0, n1, i + 1)

\* output: one change (a and b may be INF); n0 and n1 are left at the last lines of it.
Changed(f, g, n0, n1, a, b) ==
  [cmd |-> IF a < 0 THEN "a" ELSE IF b < 0 THEN "d" ELSE "c",
   from |-> IF a < 0 THEN n0 - 1 ELSE n0,
   old |-> SubSeq(f, n0, IF a = INF THEN Len(f) ELSE n0 + a),
   new |-> SubSeq(g, n1, IF b = INF THEN Len(g) ELSE n1 + b)]

\* main: n0 and n1 are the lines to be compared now.
RECURSIVE Scan(_, _, _, _)
Scan(f, g, n0, n1) ==
  LET s0 == Getl(f, n0)
      s1 == Getl(g, n1)
      ab == Easysynch(f, g, n0, n1, 1)
      One(a, b) == <<Changed(f, g, n0, n1, a, b)>>
      Behind(h, n, x) == IF x = INF THEN Len(h) + 1 ELSE n + x + 1
  IN IF s0 = NoText /\ s1 = NoText THEN [ok |-> TRUE, out |-> << >>]
     ELSE IF s0 = NoText THEN [ok |-> TRUE, out |-> One(-1, INF)]
     ELSE IF s1 = NoText THEN [ok |-> TRUE, out |-> One(INF, -1)]
     ELSE IF s0 = s1 THEN Scan(f, g, n0 + 1, n1 + 1)
     ELSE IF ab = << >> THEN [ok |-> FALSE, out |-> << >>]                 \* hardsynch
     ELSE LET rest == Scan(f, g, Behind(f, n0, ab[1]), Behind(g, n1, ab[2]))
          IN [ok |-> rest.ok, out |-> One(ab[1], ab[2]) \o rest.out]
Diffh(f, g) == Scan(f, g, 1, 1)
=============================================================================
