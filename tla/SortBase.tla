------------------------------- MODULE SortBase -------------------------------
(***************************************************************************)
(* The data of sort: the order of the lines, the parts of quicksort, how   *)
(* often a line occurs; and what holds of its files, streams and pointers  *)
(* whatever the lines are: the types, and which of them are in use.        *)
(***************************************************************************)
EXTENDS SortMerge, FiniteSetTheorems, SequenceTheorems, WellFoundedInduction, TLAPS

\* Compare, for the option u.
Cmp(u, x, y) == IF Key[x] # Key[y] THEN Key[y] - Key[x] ELSE IF u THEN 0 ELSE y - x

\* A line, or a voided one.
Cells == Lines \cup {NoLine}

\* s is ascending; without equals.
Asc(u, s) == \A i \in 1 .. Len(s) - 1 : Cmp(u, s[i], s[i + 1]) >= 0
Uniq(u, s) == \A i \in 1 .. Len(s) - 1 : Cmp(u, s[i], s[i + 1]) > 0

\* x comes before y, strictly when st; so do the lines of s.
Precedes(st, u, x, y) == IF st THEN Cmp(u, x, y) > 0 ELSE Cmp(u, x, y) >= 0
Rising(st, u, s) == IF st THEN Uniq(u, s) ELSE Asc(u, s)

\* x may stand before y among pointers: the larger line first, no equals with u.
InOrder(u, x, y) == x = NoLine \/ y = NoLine \/ Cmp(u, x, y) < 0 \/ (~u /\ Cmp(u, x, y) = 0)

-----------------------------------------------------------------------------
(***************************************************************************)
(* qusort: sg are the ranges still to be sorted.                           *)
(***************************************************************************)
\* A range: the first and the last place.
Ranges == Int \X Int
Inside(k, r) == r[1] <= k /\ k <= r[2]

\* Nothing is twice.
Distinct(arr) == \A k, l \in DOMAIN arr : arr[k] = arr[l] => k = l

\* The ranges lie apart.
Apart(r, s) == r[2] < s[1] \/ s[2] < r[1]
RangesRight(n, sg) ==
  /\ \A s \in DOMAIN sg : 1 <= sg[s][1] /\ sg[s][2] <= n
  /\ \A s, t \in DOMAIN sg : s # t => Apart(sg[s], sg[t])

\* What is not in one range is in order, and nothing in a range is voided.
Separated(u, line, arr, sg) ==
  \A k, l \in DOMAIN arr : k < l =>
    \/ \E s \in DOMAIN sg : Inside(k, sg[s]) /\ Inside(l, sg[s])
    \/ InOrder(u, line[arr[k]], line[arr[l]])
Whole(line, arr, sg) ==
  \A s \in DOMAIN sg : \A k \in DOMAIN arr : Inside(k, sg[s]) => line[arr[k]] # NoLine

\* The part of r being sorted: the larger lines, those not looked at, the equals,
\* those not looked at, the smaller ones.
PartRight(u, line, arr, r, p) ==
  /\ r[1] <= p.i /\ p.i <= p.lp /\ p.lp <= p.hp /\ p.hp <= p.j /\ p.j <= r[2]
  /\ \A k \in DOMAIN arr : r[1] <= k /\ k < p.i => Cmp(u, line[arr[k]], line[arr[p.lp]]) < 0
  /\ \A k \in DOMAIN arr : p.lp <= k /\ k <= p.hp => Cmp(u, line[arr[k]], line[arr[p.lp]]) = 0
  /\ \A k \in DOMAIN arr : p.j < k /\ k <= r[2] => Cmp(u, line[arr[p.lp]], line[arr[k]]) < 0
  /\ ~p.top /\ p.i < p.lp => Cmp(u, line[arr[p.i]], line[arr[p.lp]]) > 0

\* qusort in between.
Sorting(u, line, arr, sg, p) ==
  /\ RangesRight(Len(arr), sg) /\ Separated(u, line, arr, sg) /\ Whole(line, arr, sg)
  /\ p # Idle => sg # << >> /\ PartRight(u, line, arr, Last(sg), p)

\* The pointers b are sorted: the largest first.
Descending(u, line, b) == \A k, l \in DOMAIN b : k < l => InOrder(u, line[b[k]], line[b[l]])

-----------------------------------------------------------------------------
\* compare orders the lines, and makes no difference between equal ones.
LEMMA CmpOrder ==
  ASSUME NEW u \in BOOLEAN
  PROVE  /\ \A x, y \in Lines : Cmp(u, x, y) \in Int /\ Cmp(u, x, y) = -Cmp(u, y, x)
         /\ \A x \in Lines : Cmp(u, x, x) = 0
         /\ \A x, y, z \in Lines :
              /\ Cmp(u, x, y) >= 0 /\ Cmp(u, y, z) >= 0 => Cmp(u, x, z) >= 0
              /\ Cmp(u, x, y) > 0 /\ Cmp(u, y, z) >= 0 => Cmp(u, x, z) > 0
              /\ Cmp(u, x, y) >= 0 /\ Cmp(u, y, z) > 0 => Cmp(u, x, z) > 0
<1>1. Lines \subseteq Nat /\ \A x \in Lines : Key[x] \in Int
  BY SortAssumption
<1> QED BY <1>1 DEF Cmp

\* Lines that compare equal are one line, or with u have one key.
LEMMA CmpEqual ==
  ASSUME NEW x \in Lines, NEW y \in Lines
  PROVE  /\ Cmp(TRUE, x, y) = 0 <=> Key[x] = Key[y]
         /\ Cmp(FALSE, x, y) = 0 <=> x = y
<1>1. Lines \subseteq Nat /\ \A z \in Lines : Key[z] \in Int
  BY SortAssumption
<1> QED BY <1>1 DEF Cmp

-----------------------------------------------------------------------------
(***************************************************************************)
(* Pointers moved.                                                         *)
(***************************************************************************)
LEMMA SwapFacts ==
  ASSUME NEW D, NEW s \in Seq(D), NEW p \in 1 .. Len(s), NEW q \in 1 .. Len(s)
  PROVE  /\ Swap(s, p, q) \in Seq(D) /\ Len(Swap(s, p, q)) = Len(s)
         /\ \A k \in 1 .. Len(s) : Swap(s, p, q)[k] =
              IF k = q THEN s[p] ELSE IF k = p THEN s[q] ELSE s[k]
<1>1. s[p] \in D /\ s[q] \in D
  BY ElementOfSeq
<1> DEFINE t == [s EXCEPT ![p] = s[q]]
<1>2. t \in Seq(D) /\ Len(t) = Len(s) /\ \A k \in 1 .. Len(s) : t[k] = IF k = p THEN s[q] ELSE s[k]
  BY <1>1, ExceptSeq
<1>3. Swap(s, p, q) = [t EXCEPT ![q] = s[p]]
  BY DEF Swap
<1> HIDE DEF t
<1>4. Swap(s, p, q) \in Seq(D) /\ Len(Swap(s, p, q)) = Len(t)
      /\ \A k \in 1 .. Len(t) : Swap(s, p, q)[k] = IF k = q THEN s[p] ELSE t[k]
  BY <1>1, <1>2, <1>3, ExceptSeq
<1> QED BY <1>2, <1>4

LEMMA SwapAt ==
  ASSUME NEW D, NEW s \in Seq(D), NEW p \in 1 .. Len(s), NEW q \in 1 .. Len(s), NEW k \in 1 .. Len(s)
  PROVE  Swap(s, p, q)[k] = IF k = q THEN s[p] ELSE IF k = p THEN s[q] ELSE s[k]
BY SwapFacts

LEMMA TurnFacts ==
  ASSUME NEW D, NEW s \in Seq(D), NEW p \in 1 .. Len(s), NEW q \in 1 .. Len(s), NEW r \in 1 .. Len(s)
  PROVE  /\ Turn(s, p, q, r) \in Seq(D) /\ Len(Turn(s, p, q, r)) = Len(s)
         /\ \A k \in 1 .. Len(s) : Turn(s, p, q, r)[k] =
              IF k = q THEN s[p] ELSE IF k = r THEN s[q] ELSE IF k = p THEN s[r] ELSE s[k]
<1>1. s[p] \in D /\ s[q] \in D /\ s[r] \in D
  BY ElementOfSeq
<1> DEFINE t == [s EXCEPT ![p] = s[r]]
           v == [t EXCEPT ![r] = s[q]]
<1>2. t \in Seq(D) /\ Len(t) = Len(s) /\ \A k \in 1 .. Len(s) : t[k] = IF k = p THEN s[r] ELSE s[k]
  BY <1>1, ExceptSeq
<1>3. Turn(s, p, q, r) = [v EXCEPT ![q] = s[p]]
  BY DEF Turn
<1> HIDE DEF t
<1>4. v \in Seq(D) /\ Len(v) = Len(t) /\ \A k \in 1 .. Len(t) : v[k] = IF k = r THEN s[q] ELSE t[k]
  BY <1>1, <1>2, ExceptSeq
<1> HIDE DEF v
<1>5. Turn(s, p, q, r) \in Seq(D) /\ Len(Turn(s, p, q, r)) = Len(v)
      /\ \A k \in 1 .. Len(v) : Turn(s, p, q, r)[k] = IF k = q THEN s[p] ELSE v[k]
  BY <1>1, <1>2, <1>3, <1>4, ExceptSeq
<1> QED BY <1>2, <1>4, <1>5

\* The pointers of r are permuted: the others stay, none is lost or doubled.
Permuted(s, t, r) ==
  /\ Len(t) = Len(s)
  /\ \A k \in 1 .. Len(s) : ~Inside(k, r) => t[k] = s[k]
  /\ \A k \in 1 .. Len(s) : Inside(k, r) => \E l \in 1 .. Len(s) : Inside(l, r) /\ t[k] = s[l]
  /\ \A k \in 1 .. Len(s) : Inside(k, r) => \E l \in 1 .. Len(s) : Inside(l, r) /\ s[k] = t[l]
  /\ Distinct(s) => Distinct(t)

LEMMA SwapPermutes ==
  ASSUME NEW D, NEW s \in Seq(D), NEW p \in 1 .. Len(s), NEW q \in 1 .. Len(s), NEW r \in Ranges,
         Inside(p, r), Inside(q, r)
  PROVE  Permuted(s, Swap(s, p, q), r)
<1> DEFINE t == Swap(s, p, q)
<1>1. t \in Seq(D) /\ Len(t) = Len(s)
      /\ \A k \in 1 .. Len(s) : t[k] = IF k = q THEN s[p] ELSE IF k = p THEN s[q] ELSE s[k]
  BY SwapFacts
<1>2. DOMAIN s = 1 .. Len(s) /\ DOMAIN t = 1 .. Len(s) /\ Len(s) \in Nat
  BY <1>1, LenProperties
<1> HIDE DEF t
<1>3. \A k \in 1 .. Len(s) : Inside(k, r) => \E l \in 1 .. Len(s) : Inside(l, r) /\ t[k] = s[l]
  BY <1>1
<1>4. \A k \in 1 .. Len(s) : Inside(k, r) => \E l \in 1 .. Len(s) : Inside(l, r) /\ s[k] = t[l]
  BY <1>1
<1>5. Distinct(s) => Distinct(t)
  BY <1>1, <1>2 DEF Distinct
<1>6. \A k \in 1 .. Len(s) : ~Inside(k, r) => t[k] = s[k]
  BY <1>1
<1> QED BY <1>1, <1>3, <1>4, <1>5, <1>6 DEF Permuted, t

LEMMA TurnPermutes ==
  ASSUME NEW D, NEW s \in Seq(D), NEW p \in 1 .. Len(s), NEW q \in 1 .. Len(s), NEW o \in 1 .. Len(s),
         NEW r \in Ranges, Inside(p, r), Inside(q, r), Inside(o, r), p # q, p # o
  PROVE  Permuted(s, Turn(s, p, q, o), r)
<1> DEFINE t == Turn(s, p, q, o)
<1>1. t \in Seq(D) /\ Len(t) = Len(s)
      /\ \A k \in 1 .. Len(s) : t[k] =
           IF k = q THEN s[p] ELSE IF k = o THEN s[q] ELSE IF k = p THEN s[o] ELSE s[k]
  <2>1. Turn(s, p, q, o) \in Seq(D)
    BY TurnFacts
  <2>2. Len(Turn(s, p, q, o)) = Len(s)
    BY TurnFacts
  <2>3. ASSUME NEW k \in 1 .. Len(s)
        PROVE  Turn(s, p, q, o)[k] =
                 IF k = q THEN s[p] ELSE IF k = o THEN s[q] ELSE IF k = p THEN s[o] ELSE s[k]
    BY TurnFacts, SMTT(60)
  <2> QED BY <2>1, <2>2, <2>3
<1>2. DOMAIN s = 1 .. Len(s) /\ DOMAIN t = 1 .. Len(s) /\ Len(s) \in Nat
  BY <1>1, LenProperties
<1> HIDE DEF t
<1>3. \A k \in 1 .. Len(s) : Inside(k, r) => \E l \in 1 .. Len(s) : Inside(l, r) /\ t[k] = s[l]
  BY <1>1
<1>4. \A k \in 1 .. Len(s) : Inside(k, r) => \E l \in 1 .. Len(s) : Inside(l, r) /\ s[k] = t[l]
  BY <1>1
<1>5. Distinct(s) => Distinct(t)
  BY <1>1, <1>2 DEF Distinct
<1>6. \A k \in 1 .. Len(s) : ~Inside(k, r) => t[k] = s[k]
  BY <1>1
<1> QED BY <1>1, <1>3, <1>4, <1>5, <1>6 DEF Permuted, t

\* Nothing is inside two ranges.
LEMMA ApartInside ==
  ASSUME NEW r \in Ranges, NEW s \in Ranges, Apart(r, s), NEW k \in Int, Inside(k, r)
  PROVE  ~Inside(k, s)
<1>1. r[1] \in Int /\ r[2] \in Int /\ s[1] \in Int /\ s[2] \in Int
  BY DEF Ranges
<1> QED BY <1>1 DEF Apart, Inside

\* What permutes the last range disturbs nothing that was in order.
LEMMA PermutedKeeps ==
  ASSUME NEW u \in BOOLEAN, NEW D, NEW line \in [D -> Cells], NEW s \in Seq(D), NEW t \in Seq(D),
         NEW sg \in Seq(Ranges), sg # << >>, RangesRight(Len(s), sg),
         Separated(u, line, s, sg), Whole(line, s, sg), Permuted(s, t, Last(sg))
  PROVE  RangesRight(Len(t), sg) /\ Separated(u, line, t, sg) /\ Whole(line, t, sg)
<1> DEFINE n == Len(s)
           z == Len(sg)
<1>1. n \in Nat /\ DOMAIN s = 1 .. n /\ DOMAIN t = 1 .. n /\ Len(t) = n
  BY LenProperties DEF Permuted
<1>2. z \in Nat \ {0} /\ DOMAIN sg = 1 .. z /\ Last(sg) = sg[z] /\ sg[z] \in Ranges
  BY LenProperties, EmptySeq, ElementOfSeq DEF Last
<1>3. \A i \in 1 .. z : sg[i] \in Ranges /\ sg[i][1] \in Int /\ sg[i][2] \in Int
  BY ElementOfSeq DEF Ranges
<1>4. \A k \in 1 .. n : \E l \in 1 .. n :
        /\ t[k] = s[l]
        /\ IF Inside(k, sg[z]) THEN Inside(l, sg[z]) ELSE l = k
  BY <1>1, <1>2 DEF Permuted
<1>5. \A i, j \in 1 .. z : i # j => \A k \in 1 .. n : Inside(k, sg[i]) => ~Inside(k, sg[j])
  <2> SUFFICES ASSUME NEW i \in 1 .. z, NEW j \in 1 .. z, i # j, NEW k \in 1 .. n, Inside(k, sg[i])
               PROVE  ~Inside(k, sg[j])
    OBVIOUS
  <2>1. Apart(sg[i], sg[j])
    BY <1>2 DEF RangesRight
  <2> QED BY <1>1, <1>3, <2>1, ApartInside
<1> HIDE DEF n, z
<1>6. Whole(line, t, sg)
  <2> SUFFICES ASSUME NEW i \in 1 .. z, NEW k \in 1 .. n, Inside(k, sg[i])
               PROVE  line[t[k]] # NoLine
    BY <1>1, <1>2 DEF Whole
  <2>1. PICK l \in 1 .. n : t[k] = s[l] /\ IF Inside(k, sg[z]) THEN Inside(l, sg[z]) ELSE l = k
    BY <1>4
  <2>2. ASSUME Inside(k, sg[z]), i # z PROVE FALSE
    <3>1. z \in 1 .. z
      BY <1>2
    <3> QED BY <1>5, <2>2, <3>1
  <2>3. Inside(l, sg[i])
    BY <2>1, <2>2
  <2> QED BY <1>1, <1>2, <2>1, <2>3 DEF Whole
<1>7. Separated(u, line, t, sg)
  <2> SUFFICES ASSUME NEW k \in 1 .. n, NEW l \in 1 .. n, k < l,
                      ~\E i \in 1 .. z : Inside(k, sg[i]) /\ Inside(l, sg[i])
               PROVE  InOrder(u, line[t[k]], line[t[l]])
    BY <1>1, <1>2 DEF Separated
  <2>1. PICK k1 \in 1 .. n : t[k] = s[k1] /\ IF Inside(k, sg[z]) THEN Inside(k1, sg[z]) ELSE k1 = k
    BY <1>4
  <2>2. PICK l1 \in 1 .. n : t[l] = s[l1] /\ IF Inside(l, sg[z]) THEN Inside(l1, sg[z]) ELSE l1 = l
    BY <1>4
  <2>3. k1 < l1
    BY <1>2, <1>3, <2>1, <2>2 DEF Inside
  <2>4. \A i \in 1 .. z : ~(Inside(k1, sg[i]) /\ Inside(l1, sg[i]))
    <3> SUFFICES ASSUME NEW i \in 1 .. z, Inside(k1, sg[i]), Inside(l1, sg[i]) PROVE FALSE
      OBVIOUS
    <3>1. i = z => Inside(k, sg[i]) /\ Inside(l, sg[i])
      BY <1>2, <1>3, <2>1, <2>2
    <3>2. i # z => Inside(k, sg[i]) /\ Inside(l, sg[i])
      <4> SUFFICES ASSUME i # z PROVE Inside(k, sg[i]) /\ Inside(l, sg[i])
        OBVIOUS
      <4>1. ~Inside(k1, sg[z]) /\ ~Inside(l1, sg[z])
        <5>1. z \in 1 .. z
          BY <1>2
        <5> QED BY <1>5, <5>1
      <4> QED BY <2>1, <2>2, <4>1
    <3> QED BY <3>1, <3>2
  <2> QED BY <1>1, <1>2, <2>1, <2>2, <2>3, <2>4 DEF Separated
<1> QED BY <1>1, <1>6, <1>7 DEF n

-----------------------------------------------------------------------------
(***************************************************************************)
(* qusort's loop.                                                          *)
(***************************************************************************)
Parts == [i : Int, j : Int, lp : Int, hp : Int, top : BOOLEAN]
PartLines(line, arr, r) == \A k \in DOMAIN arr : Inside(k, r) => line[arr[k]] \in Lines

\* The part, by a line that is equal to the middle.
PartAbout(u, line, arr, r, p, x) ==
  /\ r[1] <= p.i /\ p.i <= p.lp /\ p.lp <= p.hp /\ p.hp <= p.j /\ p.j <= r[2]
  /\ \A k \in DOMAIN arr : r[1] <= k /\ k < p.i => Cmp(u, line[arr[k]], x) < 0
  /\ \A k \in DOMAIN arr : p.lp <= k /\ k <= p.hp => Cmp(u, line[arr[k]], x) = 0
  /\ \A k \in DOMAIN arr : p.j < k /\ k <= r[2] => Cmp(u, line[arr[k]], x) > 0
  /\ ~p.top /\ p.i < p.lp => Cmp(u, line[arr[p.i]], x) > 0

LEMMA AboutIsRight ==
  ASSUME NEW u \in BOOLEAN, NEW D, NEW line \in [D -> Cells], NEW s \in Seq(D), NEW r \in Ranges,
         1 <= r[1], r[2] <= Len(s), NEW p \in Parts, PartLines(line, s, r),
         NEW x \in Lines, PartAbout(u, line, s, r, p, x)
  PROVE  PartRight(u, line, s, r, p)
<1> DEFINE n == Len(s)
           v(k) == line[s[k]]
<1>1. n \in Nat /\ DOMAIN s = 1 .. n /\ r[1] \in Int /\ r[2] \in Int
  BY LenProperties DEF Ranges
<1>2. p.i \in Int /\ p.j \in Int /\ p.lp \in Int /\ p.hp \in Int
  BY DEF Parts
<1>3. \A k \in 1 .. n : r[1] <= k /\ k <= r[2] => v(k) \in Lines
  BY <1>1 DEF PartLines, Inside
<1>4. r[1] <= p.i /\ p.i <= p.lp /\ p.lp <= p.hp /\ p.hp <= p.j /\ p.j <= r[2]
  BY DEF PartAbout
<1>5. p.lp \in 1 .. n /\ v(p.lp) \in Lines /\ Cmp(u, v(p.lp), x) = 0
  <2>1. p.lp \in 1 .. n /\ r[1] <= p.lp /\ p.lp <= r[2] /\ p.lp <= p.lp
    BY <1>1, <1>2, <1>4
  <2>2. v(p.lp) \in Lines
    BY <1>3, <2>1
  <2>3. Cmp(u, v(p.lp), x) = 0
    BY <1>1, <1>4, <2>1 DEF PartAbout
  <2> QED BY <2>1, <2>2, <2>3
<1>6. \A z \in Lines : /\ Cmp(u, z, x) < 0 => Cmp(u, z, v(p.lp)) < 0
                       /\ Cmp(u, z, x) = 0 => Cmp(u, z, v(p.lp)) = 0
                       /\ Cmp(u, z, x) > 0 => (Cmp(u, z, v(p.lp)) > 0 /\ Cmp(u, v(p.lp), z) < 0)
  <2> DEFINE y == v(p.lp)
  <2> HIDE DEF y
  <2> SUFFICES ASSUME NEW z \in Lines
               PROVE  /\ Cmp(u, z, x) < 0 => Cmp(u, z, y) < 0
                      /\ Cmp(u, z, x) = 0 => Cmp(u, z, y) = 0
                      /\ Cmp(u, z, x) > 0 => (Cmp(u, z, y) > 0 /\ Cmp(u, y, z) < 0)
    BY DEF y
  <2>1. y \in Lines /\ Cmp(u, y, x) = 0
    BY <1>5 DEF y
  <2> QED BY <2>1, CmpOrder
<1> HIDE DEF n
<1>7. ASSUME NEW k \in 1 .. n, r[1] <= k, k < p.i PROVE Cmp(u, v(k), v(p.lp)) < 0
  <2>1. r[1] <= k /\ k <= r[2]
    BY <1>1, <1>2, <1>4, <1>7
  <2>2. Cmp(u, v(k), x) < 0
    BY <1>1, <1>7 DEF PartAbout
  <2>3. v(k) \in Lines
    BY <1>3, <2>1
  <2> QED BY <1>6, <2>2, <2>3
<1>8. ASSUME NEW k \in 1 .. n, p.lp <= k, k <= p.hp PROVE Cmp(u, v(k), v(p.lp)) = 0
  <2>1. r[1] <= k /\ k <= r[2]
    BY <1>1, <1>2, <1>4, <1>8
  <2>2. Cmp(u, v(k), x) = 0
    BY <1>1, <1>8 DEF PartAbout
  <2>3. v(k) \in Lines
    BY <1>3, <2>1
  <2> QED BY <1>6, <2>2, <2>3
<1>9. ASSUME NEW k \in 1 .. n, p.j < k, k <= r[2] PROVE Cmp(u, v(p.lp), v(k)) < 0
  <2>1. r[1] <= k /\ k <= r[2]
    BY <1>1, <1>2, <1>4, <1>9
  <2>2. Cmp(u, v(k), x) > 0
    BY <1>1, <1>9 DEF PartAbout
  <2>3. v(k) \in Lines
    BY <1>3, <2>1
  <2> QED BY <1>6, <2>2, <2>3
<1>10. ASSUME ~p.top, p.i < p.lp PROVE Cmp(u, v(p.i), v(p.lp)) > 0
  <2>1. p.i \in 1 .. n /\ r[1] <= p.i /\ p.i <= r[2]
    BY <1>1, <1>2, <1>4, <1>10 DEF n
  <2>2. Cmp(u, v(p.i), x) > 0
    BY <1>10 DEF PartAbout
  <2>3. v(p.i) \in Lines
    BY <1>3, <2>1
  <2> QED BY <1>6, <2>2, <2>3
<1> QED BY <1>1, <1>4, <1>7, <1>8, <1>9, <1>10 DEF PartRight

\* What is equal to the middle compares as it does.
LEMMA CmpSame ==
  ASSUME NEW u \in BOOLEAN, NEW x \in Lines, NEW y \in Lines, NEW z \in Lines, Cmp(u, y, x) = 0
  PROVE  /\ Cmp(u, y, z) = 0 => Cmp(u, z, x) = 0
         /\ Cmp(u, y, z) < 0 => Cmp(u, z, x) > 0
         /\ Cmp(u, y, z) > 0 => Cmp(u, z, x) < 0
<1>1. /\ Cmp(u, y, z) \in Int /\ Cmp(u, z, x) \in Int /\ Cmp(u, z, y) = -Cmp(u, y, z)
      /\ Cmp(u, x, z) = -Cmp(u, z, x) /\ Cmp(u, x, y) = 0
  BY CmpOrder
<1>2. Cmp(u, y, z) <= 0 => Cmp(u, z, x) >= 0
  BY <1>1, CmpOrder
<1>3. Cmp(u, y, z) >= 0 => Cmp(u, x, z) >= 0
  BY <1>1, CmpOrder
<1>4. Cmp(u, y, z) < 0 => Cmp(u, z, x) > 0
  BY <1>1, CmpOrder
<1>5. Cmp(u, y, z) > 0 => Cmp(u, x, z) > 0
  BY <1>1, CmpOrder
<1> QED BY <1>1, <1>2, <1>3, <1>4, <1>5

\* Which side is looked at next.
LEMMA TopField ==
  ASSUME NEW p \in Parts
  PROVE  /\ [p EXCEPT !.lp = @ - 1].top <=> p.top
         /\ [p EXCEPT !.i = @ + 1].top <=> p.top
         /\ [p EXCEPT !.hp = @ + 1, !.top = FALSE].top <=> FALSE
         /\ [p EXCEPT !.i = p.lp + 1, !.lp = @ + 1, !.hp = @ + 1, !.top = FALSE].top <=> FALSE
         /\ [p EXCEPT !.i = @ + 1, !.j = @ - 1, !.top = TRUE].top <=> TRUE
         /\ [p EXCEPT !.j = @ - 1, !.top = FALSE].top <=> FALSE
         /\ [p EXCEPT !.lp = @ - 1, !.hp = @ - 1, !.j = p.hp - 1, !.top = TRUE].top <=> TRUE
<1>1. [p EXCEPT !.lp = @ - 1].top <=> p.top
  BY DEF Parts
<1>2. [p EXCEPT !.i = @ + 1].top <=> p.top
  BY DEF Parts
<1>3. [p EXCEPT !.hp = @ + 1, !.top = FALSE].top <=> FALSE
  BY DEF Parts
<1>4. [p EXCEPT !.i = p.lp + 1, !.lp = @ + 1, !.hp = @ + 1, !.top = FALSE].top <=> FALSE
  BY DEF Parts
<1>5. [p EXCEPT !.i = @ + 1, !.j = @ - 1, !.top = TRUE].top <=> TRUE
  BY DEF Parts
<1>6. [p EXCEPT !.j = @ - 1, !.top = FALSE].top <=> FALSE
  BY DEF Parts
<1>7. [p EXCEPT !.lp = @ - 1, !.hp = @ - 1, !.j = p.hp - 1, !.top = TRUE].top <=> TRUE
  BY DEF Parts
<1> QED BY <1>1, <1>2, <1>3, <1>4, <1>5, <1>6, <1>7

\* A part with fields changed is a part.
LEMMA PartChanged ==
  ASSUME NEW p \in Parts
  PROVE  /\ [p EXCEPT !.lp = @ - 1] \in Parts
         /\ [p EXCEPT !.i = @ + 1] \in Parts
         /\ [p EXCEPT !.hp = @ + 1, !.top = FALSE] \in Parts
         /\ [p EXCEPT !.i = p.lp + 1, !.lp = @ + 1, !.hp = @ + 1, !.top = FALSE] \in Parts
         /\ [p EXCEPT !.i = @ + 1, !.j = @ - 1, !.top = TRUE] \in Parts
         /\ [p EXCEPT !.j = @ - 1, !.top = FALSE] \in Parts
         /\ [p EXCEPT !.lp = @ - 1, !.hp = @ - 1, !.j = p.hp - 1, !.top = TRUE] \in Parts
<1>1. p.i \in Int /\ p.j \in Int /\ p.lp \in Int /\ p.hp \in Int
  BY DEF Parts
<1>2. [p EXCEPT !.lp = @ - 1] \in Parts
  BY <1>1 DEF Parts
<1>3. [p EXCEPT !.i = @ + 1] \in Parts
  BY <1>1 DEF Parts
<1>4. [p EXCEPT !.hp = @ + 1, !.top = FALSE] \in Parts
  <2> DEFINE q1 == [p EXCEPT !.hp = p.hp + 1]
             q2 == [q1 EXCEPT !.top = FALSE]
  <2>1. [p EXCEPT !.hp = @ + 1, !.top = FALSE] = q2
    OBVIOUS
  <2>2. q1 \in Parts
    BY <1>1 DEF Parts
  <2> HIDE DEF q1
  <2>3. q2 \in Parts
    BY <1>1, <2>2 DEF Parts
  <2> QED BY <2>1, <2>3 DEF q1, q2
<1>5. [p EXCEPT !.i = p.lp + 1, !.lp = @ + 1, !.hp = @ + 1, !.top = FALSE] \in Parts
  <2> DEFINE q1 == [p EXCEPT !.i = p.lp + 1]
             q2 == [q1 EXCEPT !.lp = p.lp + 1]
             q3 == [q2 EXCEPT !.hp = p.hp + 1]
             q4 == [q3 EXCEPT !.top = FALSE]
  <2>1. [p EXCEPT !.i = p.lp + 1, !.lp = @ + 1, !.hp = @ + 1, !.top = FALSE] = q4
    OBVIOUS
  <2>2. q1 \in Parts
    BY <1>1 DEF Parts
  <2> HIDE DEF q1
  <2>3. q2 \in Parts
    BY <1>1, <2>2 DEF Parts
  <2> HIDE DEF q2
  <2>4. q3 \in Parts
    BY <1>1, <2>3 DEF Parts
  <2> HIDE DEF q3
  <2>5. q4 \in Parts
    BY <1>1, <2>4 DEF Parts
  <2> QED BY <2>1, <2>5 DEF q1, q2, q3, q4
<1>6. [p EXCEPT !.i = @ + 1, !.j = @ - 1, !.top = TRUE] \in Parts
  <2> DEFINE q1 == [p EXCEPT !.i = p.i + 1]
             q2 == [q1 EXCEPT !.j = p.j - 1]
             q3 == [q2 EXCEPT !.top = TRUE]
  <2>1. [p EXCEPT !.i = @ + 1, !.j = @ - 1, !.top = TRUE] = q3
    OBVIOUS
  <2>2. q1 \in Parts
    BY <1>1 DEF Parts
  <2> HIDE DEF q1
  <2>3. q2 \in Parts
    BY <1>1, <2>2 DEF Parts
  <2> HIDE DEF q2
  <2>4. q3 \in Parts
    BY <1>1, <2>3 DEF Parts
  <2> QED BY <2>1, <2>4 DEF q1, q2, q3
<1>7. [p EXCEPT !.j = @ - 1, !.top = FALSE] \in Parts
  <2> DEFINE q1 == [p EXCEPT !.j = p.j - 1]
             q2 == [q1 EXCEPT !.top = FALSE]
  <2>1. [p EXCEPT !.j = @ - 1, !.top = FALSE] = q2
    OBVIOUS
  <2>2. q1 \in Parts
    BY <1>1 DEF Parts
  <2> HIDE DEF q1
  <2>3. q2 \in Parts
    BY <1>1, <2>2 DEF Parts
  <2> QED BY <2>1, <2>3 DEF q1, q2
<1>8. [p EXCEPT !.lp = @ - 1, !.hp = @ - 1, !.j = p.hp - 1, !.top = TRUE] \in Parts
  <2> DEFINE q1 == [p EXCEPT !.lp = p.lp - 1]
             q2 == [q1 EXCEPT !.hp = p.hp - 1]
             q3 == [q2 EXCEPT !.j = p.hp - 1]
             q4 == [q3 EXCEPT !.top = TRUE]
  <2>1. [p EXCEPT !.lp = @ - 1, !.hp = @ - 1, !.j = p.hp - 1, !.top = TRUE] = q4
    OBVIOUS
  <2>2. q1 \in Parts
    BY <1>1 DEF Parts
  <2> HIDE DEF q1
  <2>3. q2 \in Parts
    BY <1>1, <2>2 DEF Parts
  <2> HIDE DEF q2
  <2>4. q3 \in Parts
    BY <1>1, <2>3 DEF Parts
  <2> HIDE DEF q3
  <2>5. q4 \in Parts
    BY <1>1, <2>4 DEF Parts
  <2> QED BY <2>1, <2>5 DEF q1, q2, q3, q4
<1> QED BY <1>2, <1>3, <1>4, <1>5, <1>6, <1>7, <1>8

LEMMA RightIsAbout ==
  ASSUME NEW u \in BOOLEAN, NEW D, NEW line \in [D -> Cells], NEW s \in Seq(D), NEW r \in Ranges,
         1 <= r[1], r[2] <= Len(s), NEW p \in Parts, PartLines(line, s, r), PartRight(u, line, s, r, p)
  PROVE  /\ line[s[p.lp]] \in Lines /\ PartAbout(u, line, s, r, p, line[s[p.lp]])
         /\ p.i \in 1 .. Len(s) /\ p.lp \in 1 .. Len(s) /\ p.hp \in 1 .. Len(s) /\ p.j \in 1 .. Len(s)
         /\ Inside(p.i, r) /\ Inside(p.lp, r) /\ Inside(p.hp, r) /\ Inside(p.j, r)
         /\ \A k \in 1 .. Len(s) : Inside(k, r) =>
               line[s[k]] \in Lines /\ Cmp(u, line[s[p.lp]], line[s[k]]) = -Cmp(u, line[s[k]], line[s[p.lp]])
<1> DEFINE n == Len(s)
           v(k) == line[s[k]]
<1>1. n \in Nat /\ DOMAIN s = 1 .. n /\ r[1] \in Int /\ r[2] \in Int
  BY LenProperties DEF Ranges
<1>2. p.i \in Int /\ p.j \in Int /\ p.lp \in Int /\ p.hp \in Int
  BY DEF Parts
<1>3. \A k \in 1 .. n : Inside(k, r) => v(k) \in Lines
  BY <1>1 DEF PartLines
<1>4. r[1] <= p.i /\ p.i <= p.lp /\ p.lp <= p.hp /\ p.hp <= p.j /\ p.j <= r[2]
  BY DEF PartRight
<1> HIDE DEF n
<1>5. p.i \in 1 .. n /\ p.lp \in 1 .. n /\ p.hp \in 1 .. n /\ p.j \in 1 .. n
  BY <1>1, <1>2, <1>4 DEF n
<1>6. Inside(p.i, r) /\ Inside(p.lp, r) /\ Inside(p.hp, r) /\ Inside(p.j, r)
  BY <1>1, <1>2, <1>4 DEF Inside
<1>7. v(p.lp) \in Lines
  BY <1>3, <1>5, <1>6
<1>8. \A k \in 1 .. n : Inside(k, r) => v(k) \in Lines /\ Cmp(u, v(p.lp), v(k)) = -Cmp(u, v(k), v(p.lp))
                                      /\ Cmp(u, v(p.lp), v(k)) \in Int /\ Cmp(u, v(k), v(p.lp)) \in Int
  <2> HIDE DEF v
  <2> QED BY <1>3, <1>7, CmpOrder
<1>9. \A k \in 1 .. n : p.j < k /\ k <= r[2] => Cmp(u, v(k), v(p.lp)) > 0
  BY <1>1, <1>2, <1>4, <1>5, <1>8 DEF PartRight, Inside, Ranges
<1>10. PartAbout(u, line, s, r, p, v(p.lp))
  BY <1>1, <1>4, <1>9 DEF PartAbout, PartRight
<1> QED BY <1>5, <1>6, <1>7, <1>8, <1>10 DEF n

\* The left element is equal: it joins the middle.
LEMMA LeftEqualKeeps ==
  ASSUME NEW u \in BOOLEAN, NEW D, NEW line \in [D -> Cells], NEW s \in Seq(D), NEW r \in Ranges,
         1 <= r[1], r[2] <= Len(s), NEW p \in Parts, PartLines(line, s, r), PartRight(u, line, s, r, p),
         p.top, p.i < p.lp, Cmp(u, line[s[p.i]], line[s[p.lp]]) = 0
  PROVE  PartLines(line, Swap(s, p.i, p.lp - 1), r) /\ PartRight(u, line, Swap(s, p.i, p.lp - 1), r, [p EXCEPT !.lp = @ - 1]) /\ [p EXCEPT !.lp = @ - 1] \in Parts
         /\ Permuted(s, Swap(s, p.i, p.lp - 1), r) /\ Swap(s, p.i, p.lp - 1) \in Seq(D)
<1> DEFINE x == line[s[p.lp]]
           i == p.i
           j == p.j
           lp == p.lp
           hp == p.hp
           a == r[1]
           b == r[2]
           n == Len(s)
           c == [k \in 1 .. n |-> Cmp(u, line[s[k]], x)]
           o == [p EXCEPT !.lp = @ - 1]
           m1 == i
           m2 == lp - 1
           t == Swap(s, m1, m2)
<1>1. /\ x \in Lines /\ PartAbout(u, line, s, r, p, x)
      /\ i \in 1 .. n /\ lp \in 1 .. n /\ hp \in 1 .. n /\ j \in 1 .. n
      /\ \A k \in 1 .. n : Inside(k, r) => line[s[k]] \in Lines
  BY RightIsAbout
<1>2. n \in Nat /\ DOMAIN s = 1 .. n /\ a \in Int /\ b \in Int
      /\ i \in Int /\ j \in Int /\ lp \in Int /\ hp \in Int /\ \A k \in Int : a <= k /\ k <= b => Inside(k, r)
  BY LenProperties DEF Parts, Inside, Ranges
<1>3. a <= i /\ i <= lp /\ lp <= hp /\ hp <= j /\ j <= b /\ 1 <= a /\ b <= n
  BY <1>1 DEF PartAbout
<1>4. /\ \A k \in 1 .. n : a <= k /\ k < i => c[k] < 0
      /\ \A k \in 1 .. n : lp <= k /\ k <= hp => c[k] = 0
      /\ \A k \in 1 .. n : j < k /\ k <= b => c[k] > 0
  BY <1>1, <1>2 DEF PartAbout
<1>5. o \in Parts /\ o.i = i /\ o.lp = lp - 1 /\ o.hp = hp /\ o.j = j /\ (o.top <=> p.top)
  <2>1. o \in Parts
    BY PartChanged
  <2>2. o.i = i /\ o.lp = lp - 1
    BY DEF Parts
  <2>4. o.hp = hp /\ o.j = j
    BY DEF Parts
  <2>3. o.top <=> p.top
    BY TopField
  <2> QED BY <2>1, <2>2, <2>3, <2>4
<1>6. c[i] = 0 /\ p.top /\ i < lp
  BY <1>1
<1> HIDE DEF x, i, j, lp, hp, a, b, n, c, o
<1>7. m1 \in 1 .. n /\ m2 \in 1 .. n
      /\ Inside(m1, r) /\ Inside(m2, r)
  BY <1>2, <1>3, <1>6
<1> HIDE DEF m1, m2
<1>8. /\ t \in Seq(D) /\ Len(t) = n /\ Permuted(s, t, r)
      /\ \A k \in 1 .. n : t[k] = IF k = m2 THEN s[m1] ELSE IF k = m1 THEN s[m2] ELSE s[k]
  <2>1. t \in Seq(D) /\ Len(t) = n
    BY <1>7, SwapFacts DEF n
  <2>2. Permuted(s, t, r)
    BY <1>7, SwapPermutes DEF n
  <2>3. ASSUME NEW k \in 1 .. n
        PROVE  t[k] = IF k = m2 THEN s[m1] ELSE IF k = m1 THEN s[m2] ELSE s[k]
    BY <1>7, SwapAt DEF n
  <2> QED BY <2>1, <2>2, <2>3
<1> HIDE DEF t
<1> DEFINE d == [k \in 1 .. n |-> Cmp(u, line[t[k]], x)]
<1>9. DOMAIN t = 1 .. n
  BY <1>2, <1>8, LenProperties
<1>10. PartLines(line, t, r)
  BY <1>1, <1>2, <1>8, <1>9 DEF PartLines, Permuted, n
<1>11. \A k \in 1 .. n : d[k] = IF k = m2 THEN c[m1] ELSE IF k = m1 THEN c[m2] ELSE c[k]
  BY <1>7, <1>8 DEF c
<1> HIDE DEF d
<1>12. /\ a <= o.i /\ o.i <= o.lp /\ o.lp <= o.hp /\ o.hp <= o.j /\ o.j <= b
       /\ o.i \in Int /\ o.lp \in Int /\ o.hp \in Int /\ o.j \in Int
  BY <1>1, <1>2, <1>3, <1>5, <1>6
<1>13. ASSUME NEW k \in 1 .. n, a <= k, k < o.i PROVE d[k] < 0
  BY <1>1, <1>2, <1>3, <1>4, <1>5, <1>6, <1>11, <1>13, <1>7 DEF m1, m2
<1>14. ASSUME NEW k \in 1 .. n, o.lp <= k, k <= o.hp PROVE d[k] = 0
  BY <1>1, <1>2, <1>3, <1>4, <1>5, <1>6, <1>11, <1>14, <1>7 DEF m1, m2
<1>15. ASSUME NEW k \in 1 .. n, o.j < k, k <= b PROVE d[k] > 0
  BY <1>1, <1>2, <1>3, <1>4, <1>5, <1>6, <1>11, <1>15, <1>7 DEF m1, m2
<1>16. ~o.top /\ o.i < o.lp => d[o.i] > 0
  BY <1>1, <1>2, <1>3, <1>4, <1>5, <1>6, <1>11, <1>7 DEF m1, m2
<1>17. PartAbout(u, line, t, r, o, x)
  <2>1. ~o.top /\ o.i < o.lp => Cmp(u, line[t[o.i]], x) > 0
    <3>1. o.i \in 1 .. n
      BY <1>2, <1>3, <1>12
    <3> QED BY <1>16, <3>1 DEF d
  <2>2. \A k \in 1 .. n : a <= k /\ k < o.i => Cmp(u, line[t[k]], x) < 0
    BY <1>13 DEF d
  <2>3. \A k \in 1 .. n : o.lp <= k /\ k <= o.hp => Cmp(u, line[t[k]], x) = 0
    BY <1>14 DEF d
  <2>4. \A k \in 1 .. n : o.j < k /\ k <= b => Cmp(u, line[t[k]], x) > 0
    BY <1>15 DEF d
  <2> QED BY <1>9, <1>12, <2>1, <2>2, <2>3, <2>4 DEF PartAbout, a, b
<1>18. PartRight(u, line, t, r, o)
  <2>1. r[2] <= Len(t)
    BY <1>8 DEF n
  <2> QED BY <1>1, <1>5, <1>8, <1>10, <1>17, <2>1, AboutIsRight
<1> QED BY <1>5, <1>8, <1>10, <1>18 DEF t, o, i, j, lp, hp, m1, m2

\* The left element is larger: it stays.
LEMMA LeftLargerKeeps ==
  ASSUME NEW u \in BOOLEAN, NEW D, NEW line \in [D -> Cells], NEW s \in Seq(D), NEW r \in Ranges,
         1 <= r[1], r[2] <= Len(s), NEW p \in Parts, PartLines(line, s, r), PartRight(u, line, s, r, p),
         p.top, p.i < p.lp, Cmp(u, line[s[p.i]], line[s[p.lp]]) < 0
  PROVE  PartLines(line, s, r) /\ PartRight(u, line, s, r, [p EXCEPT !.i = @ + 1]) /\ [p EXCEPT !.i = @ + 1] \in Parts
<1> DEFINE x == line[s[p.lp]]
           i == p.i
           j == p.j
           lp == p.lp
           hp == p.hp
           a == r[1]
           b == r[2]
           n == Len(s)
           c == [k \in 1 .. n |-> Cmp(u, line[s[k]], x)]
           o == [p EXCEPT !.i = @ + 1]
           t == s
<1>1. /\ x \in Lines /\ PartAbout(u, line, s, r, p, x)
      /\ i \in 1 .. n /\ lp \in 1 .. n /\ hp \in 1 .. n /\ j \in 1 .. n
      /\ \A k \in 1 .. n : Inside(k, r) => line[s[k]] \in Lines
  BY RightIsAbout
<1>2. n \in Nat /\ DOMAIN s = 1 .. n /\ a \in Int /\ b \in Int
      /\ i \in Int /\ j \in Int /\ lp \in Int /\ hp \in Int /\ \A k \in Int : a <= k /\ k <= b => Inside(k, r)
  BY LenProperties DEF Parts, Inside, Ranges
<1>3. a <= i /\ i <= lp /\ lp <= hp /\ hp <= j /\ j <= b /\ 1 <= a /\ b <= n
  BY <1>1 DEF PartAbout
<1>4. /\ \A k \in 1 .. n : a <= k /\ k < i => c[k] < 0
      /\ \A k \in 1 .. n : lp <= k /\ k <= hp => c[k] = 0
      /\ \A k \in 1 .. n : j < k /\ k <= b => c[k] > 0
  BY <1>1, <1>2 DEF PartAbout
<1>5. o \in Parts /\ o.i = i + 1 /\ o.lp = lp /\ o.hp = hp /\ o.j = j /\ (o.top <=> p.top)
  <2>1. o \in Parts
    BY PartChanged
  <2>2. o.i = i + 1 /\ o.lp = lp
    BY DEF Parts
  <2>4. o.hp = hp /\ o.j = j
    BY DEF Parts
  <2>3. o.top <=> p.top
    BY TopField
  <2> QED BY <2>1, <2>2, <2>3, <2>4
<1>6. c[i] < 0 /\ p.top /\ i < lp
  BY <1>1
<1> HIDE DEF x, i, j, lp, hp, a, b, n, c, o
<1>8. t \in Seq(D) /\ Len(t) = n /\ \A k \in 1 .. n : t[k] = s[k]
  BY DEF n
<1> HIDE DEF t
<1> DEFINE d == [k \in 1 .. n |-> Cmp(u, line[t[k]], x)]
<1>9. DOMAIN t = 1 .. n
  BY <1>2, <1>8, LenProperties
<1>10. PartLines(line, t, r)
  BY <1>1, <1>8, <1>9 DEF PartLines
<1>11. \A k \in 1 .. n : d[k] = c[k]
  BY <1>8 DEF c
<1> HIDE DEF d
<1>12. /\ a <= o.i /\ o.i <= o.lp /\ o.lp <= o.hp /\ o.hp <= o.j /\ o.j <= b
       /\ o.i \in Int /\ o.lp \in Int /\ o.hp \in Int /\ o.j \in Int
  BY <1>1, <1>2, <1>3, <1>5, <1>6
<1>13. ASSUME NEW k \in 1 .. n, a <= k, k < o.i PROVE d[k] < 0
  BY <1>1, <1>2, <1>3, <1>4, <1>5, <1>6, <1>11, <1>13
<1>14. ASSUME NEW k \in 1 .. n, o.lp <= k, k <= o.hp PROVE d[k] = 0
  BY <1>1, <1>2, <1>3, <1>4, <1>5, <1>6, <1>11, <1>14
<1>15. ASSUME NEW k \in 1 .. n, o.j < k, k <= b PROVE d[k] > 0
  BY <1>1, <1>2, <1>3, <1>4, <1>5, <1>6, <1>11, <1>15
<1>16. ~o.top /\ o.i < o.lp => d[o.i] > 0
  BY <1>1, <1>2, <1>3, <1>4, <1>5, <1>6, <1>11
<1>17. PartAbout(u, line, t, r, o, x)
  <2>1. ~o.top /\ o.i < o.lp => Cmp(u, line[t[o.i]], x) > 0
    <3>1. o.i \in 1 .. n
      BY <1>2, <1>3, <1>12
    <3> QED BY <1>16, <3>1 DEF d
  <2>2. \A k \in 1 .. n : a <= k /\ k < o.i => Cmp(u, line[t[k]], x) < 0
    BY <1>13 DEF d
  <2>3. \A k \in 1 .. n : o.lp <= k /\ k <= o.hp => Cmp(u, line[t[k]], x) = 0
    BY <1>14 DEF d
  <2>4. \A k \in 1 .. n : o.j < k /\ k <= b => Cmp(u, line[t[k]], x) > 0
    BY <1>15 DEF d
  <2> QED BY <1>9, <1>12, <2>1, <2>2, <2>3, <2>4 DEF PartAbout, a, b
<1>18. PartRight(u, line, t, r, o)
  <2>1. r[2] <= Len(t)
    BY <1>8 DEF n
  <2> QED BY <1>1, <1>5, <1>8, <1>10, <1>17, <2>1, AboutIsRight
<1> QED BY <1>5, <1>10, <1>18 DEF t, o

\* The right element is equal: it joins the middle.
LEMMA RightEqualKeeps ==
  ASSUME NEW u \in BOOLEAN, NEW D, NEW line \in [D -> Cells], NEW s \in Seq(D), NEW r \in Ranges,
         1 <= r[1], r[2] <= Len(s), NEW p \in Parts, PartLines(line, s, r), PartRight(u, line, s, r, p),
         p.j > p.hp, Cmp(u, line[s[p.hp]], line[s[p.j]]) = 0, p.i < p.lp => Cmp(u, line[s[p.i]], line[s[p.lp]]) > 0
  PROVE  PartLines(line, Swap(s, p.hp + 1, p.j), r) /\ PartRight(u, line, Swap(s, p.hp + 1, p.j), r, [p EXCEPT !.hp = @ + 1, !.top = FALSE]) /\ [p EXCEPT !.hp = @ + 1, !.top = FALSE] \in Parts
         /\ Permuted(s, Swap(s, p.hp + 1, p.j), r) /\ Swap(s, p.hp + 1, p.j) \in Seq(D)
<1> DEFINE x == line[s[p.lp]]
           i == p.i
           j == p.j
           lp == p.lp
           hp == p.hp
           a == r[1]
           b == r[2]
           n == Len(s)
           c == [k \in 1 .. n |-> Cmp(u, line[s[k]], x)]
           o == [p EXCEPT !.hp = @ + 1, !.top = FALSE]
           m1 == hp + 1
           m2 == j
           t == Swap(s, m1, m2)
<1>1. /\ x \in Lines /\ PartAbout(u, line, s, r, p, x)
      /\ i \in 1 .. n /\ lp \in 1 .. n /\ hp \in 1 .. n /\ j \in 1 .. n
      /\ \A k \in 1 .. n : Inside(k, r) => line[s[k]] \in Lines
  BY RightIsAbout
<1>2. n \in Nat /\ DOMAIN s = 1 .. n /\ a \in Int /\ b \in Int
      /\ i \in Int /\ j \in Int /\ lp \in Int /\ hp \in Int /\ \A k \in Int : a <= k /\ k <= b => Inside(k, r)
  BY LenProperties DEF Parts, Inside, Ranges
<1>3. a <= i /\ i <= lp /\ lp <= hp /\ hp <= j /\ j <= b /\ 1 <= a /\ b <= n
  BY <1>1 DEF PartAbout
<1>4. /\ \A k \in 1 .. n : a <= k /\ k < i => c[k] < 0
      /\ \A k \in 1 .. n : lp <= k /\ k <= hp => c[k] = 0
      /\ \A k \in 1 .. n : j < k /\ k <= b => c[k] > 0
  BY <1>1, <1>2 DEF PartAbout
<1>5. o \in Parts /\ o.i = i /\ o.lp = lp /\ o.hp = hp + 1 /\ o.j = j /\ (o.top <=> FALSE)
  <2>1. o \in Parts
    BY PartChanged
  <2>2. o.i = i /\ o.lp = lp
    BY DEF Parts
  <2>4. o.hp = hp + 1 /\ o.j = j
    BY DEF Parts
  <2>3. o.top <=> FALSE
    BY TopField
  <2> QED BY <2>1, <2>2, <2>3, <2>4
<1>6. j > hp /\ c[j] = 0 /\ (i < lp => c[i] > 0)
  <2> DEFINE y == line[s[hp]]
             z == line[s[j]]
  <2>1. y \in Lines /\ z \in Lines /\ Cmp(u, y, x) = 0 /\ Cmp(u, y, z) = 0 /\ c[j] = Cmp(u, z, x)
    <3>1. Inside(hp, r) /\ Inside(j, r)
      BY RightIsAbout
    <3>2. y \in Lines /\ z \in Lines
      BY <1>1, <3>1
    <3>3. c[hp] = 0
      BY <1>1, <1>3, <1>4
    <3> QED BY <1>1, <3>2, <3>3
  <2>2. i < lp => c[i] > 0
    BY <1>1
  <2> HIDE DEF x, y, z
  <2>3. Cmp(u, z, x) = 0
    BY <1>1, <2>1, CmpSame
  <2> QED BY <2>1, <2>2, <2>3
<1> HIDE DEF x, i, j, lp, hp, a, b, n, c, o
<1>7. m1 \in 1 .. n /\ m2 \in 1 .. n
      /\ Inside(m1, r) /\ Inside(m2, r)
  BY <1>2, <1>3, <1>6
<1> HIDE DEF m1, m2
<1>8. /\ t \in Seq(D) /\ Len(t) = n /\ Permuted(s, t, r)
      /\ \A k \in 1 .. n : t[k] = IF k = m2 THEN s[m1] ELSE IF k = m1 THEN s[m2] ELSE s[k]
  <2>1. t \in Seq(D) /\ Len(t) = n
    BY <1>7, SwapFacts DEF n
  <2>2. Permuted(s, t, r)
    BY <1>7, SwapPermutes DEF n
  <2>3. ASSUME NEW k \in 1 .. n
        PROVE  t[k] = IF k = m2 THEN s[m1] ELSE IF k = m1 THEN s[m2] ELSE s[k]
    BY <1>7, SwapAt DEF n
  <2> QED BY <2>1, <2>2, <2>3
<1> HIDE DEF t
<1> DEFINE d == [k \in 1 .. n |-> Cmp(u, line[t[k]], x)]
<1>9. DOMAIN t = 1 .. n
  BY <1>2, <1>8, LenProperties
<1>10. PartLines(line, t, r)
  BY <1>1, <1>2, <1>8, <1>9 DEF PartLines, Permuted, n
<1>11. \A k \in 1 .. n : d[k] = IF k = m2 THEN c[m1] ELSE IF k = m1 THEN c[m2] ELSE c[k]
  BY <1>7, <1>8 DEF c
<1> HIDE DEF d
<1>12. /\ a <= o.i /\ o.i <= o.lp /\ o.lp <= o.hp /\ o.hp <= o.j /\ o.j <= b
       /\ o.i \in Int /\ o.lp \in Int /\ o.hp \in Int /\ o.j \in Int
  BY <1>1, <1>2, <1>3, <1>5, <1>6
<1>13. ASSUME NEW k \in 1 .. n, a <= k, k < o.i PROVE d[k] < 0
  BY <1>1, <1>2, <1>3, <1>4, <1>5, <1>6, <1>11, <1>13, <1>7 DEF m1, m2
<1>14. ASSUME NEW k \in 1 .. n, o.lp <= k, k <= o.hp PROVE d[k] = 0
  BY <1>1, <1>2, <1>3, <1>4, <1>5, <1>6, <1>11, <1>14, <1>7 DEF m1, m2
<1>15. ASSUME NEW k \in 1 .. n, o.j < k, k <= b PROVE d[k] > 0
  BY <1>1, <1>2, <1>3, <1>4, <1>5, <1>6, <1>11, <1>15, <1>7 DEF m1, m2
<1>16. ~o.top /\ o.i < o.lp => d[o.i] > 0
  BY <1>1, <1>2, <1>3, <1>4, <1>5, <1>6, <1>11, <1>7 DEF m1, m2
<1>17. PartAbout(u, line, t, r, o, x)
  <2>1. ~o.top /\ o.i < o.lp => Cmp(u, line[t[o.i]], x) > 0
    <3>1. o.i \in 1 .. n
      BY <1>2, <1>3, <1>12
    <3> QED BY <1>16, <3>1 DEF d
  <2>2. \A k \in 1 .. n : a <= k /\ k < o.i => Cmp(u, line[t[k]], x) < 0
    BY <1>13 DEF d
  <2>3. \A k \in 1 .. n : o.lp <= k /\ k <= o.hp => Cmp(u, line[t[k]], x) = 0
    BY <1>14 DEF d
  <2>4. \A k \in 1 .. n : o.j < k /\ k <= b => Cmp(u, line[t[k]], x) > 0
    BY <1>15 DEF d
  <2> QED BY <1>9, <1>12, <2>1, <2>2, <2>3, <2>4 DEF PartAbout, a, b
<1>18. PartRight(u, line, t, r, o)
  <2>1. r[2] <= Len(t)
    BY <1>8 DEF n
  <2> QED BY <1>1, <1>5, <1>8, <1>10, <1>17, <2>1, AboutIsRight
<1> QED BY <1>5, <1>8, <1>10, <1>18 DEF t, o, i, j, lp, hp, m1, m2

\* The right element is larger, and nothing on the left is to be exchanged for it:
\* the middle moves to the right.
LEMMA RightTurnKeeps ==
  ASSUME NEW u \in BOOLEAN, NEW D, NEW line \in [D -> Cells], NEW s \in Seq(D), NEW r \in Ranges,
         1 <= r[1], r[2] <= Len(s), NEW p \in Parts, PartLines(line, s, r), PartRight(u, line, s, r, p),
         p.j > p.hp, Cmp(u, line[s[p.hp]], line[s[p.j]]) > 0, p.i = p.lp
  PROVE  PartLines(line, Turn(s, p.i, p.hp + 1, p.j), r) /\ PartRight(u, line, Turn(s, p.i, p.hp + 1, p.j), r, [p EXCEPT !.i = p.lp + 1, !.lp = @ + 1, !.hp = @ + 1, !.top = FALSE]) /\ [p EXCEPT !.i = p.lp + 1, !.lp = @ + 1, !.hp = @ + 1, !.top = FALSE] \in Parts
         /\ Permuted(s, Turn(s, p.i, p.hp + 1, p.j), r) /\ Turn(s, p.i, p.hp + 1, p.j) \in Seq(D)
<1> DEFINE x == line[s[p.lp]]
           i == p.i
           j == p.j
           lp == p.lp
           hp == p.hp
           a == r[1]
           b == r[2]
           n == Len(s)
           c == [k \in 1 .. n |-> Cmp(u, line[s[k]], x)]
           o == [p EXCEPT !.i = p.lp + 1, !.lp = @ + 1, !.hp = @ + 1, !.top = FALSE]
           m1 == i
           m2 == hp + 1
           m3 == j
           t == Turn(s, m1, m2, m3)
<1>1. /\ x \in Lines /\ PartAbout(u, line, s, r, p, x)
      /\ i \in 1 .. n /\ lp \in 1 .. n /\ hp \in 1 .. n /\ j \in 1 .. n
      /\ \A k \in 1 .. n : Inside(k, r) => line[s[k]] \in Lines
  BY RightIsAbout
<1>2. n \in Nat /\ DOMAIN s = 1 .. n /\ a \in Int /\ b \in Int
      /\ i \in Int /\ j \in Int /\ lp \in Int /\ hp \in Int /\ \A k \in Int : a <= k /\ k <= b => Inside(k, r)
  BY LenProperties DEF Parts, Inside, Ranges
<1>3. a <= i /\ i <= lp /\ lp <= hp /\ hp <= j /\ j <= b /\ 1 <= a /\ b <= n
  BY <1>1 DEF PartAbout
<1>4. /\ \A k \in 1 .. n : a <= k /\ k < i => c[k] < 0
      /\ \A k \in 1 .. n : lp <= k /\ k <= hp => c[k] = 0
      /\ \A k \in 1 .. n : j < k /\ k <= b => c[k] > 0
  BY <1>1, <1>2 DEF PartAbout
<1>5. o \in Parts /\ o.i = lp + 1 /\ o.lp = lp + 1 /\ o.hp = hp + 1 /\ o.j = j /\ (o.top <=> FALSE)
  <2>1. o \in Parts
    BY PartChanged
  <2>2. o.i = lp + 1 /\ o.lp = lp + 1
    BY DEF Parts
  <2>4. o.hp = hp + 1 /\ o.j = j
    BY DEF Parts
  <2>3. o.top <=> FALSE
    BY TopField
  <2> QED BY <2>1, <2>2, <2>3, <2>4
<1>6. j > hp /\ i = lp /\ c[j] < 0 /\ (i < lp => c[i] > 0)
  <2> DEFINE y == line[s[hp]]
             z == line[s[j]]
  <2>1. y \in Lines /\ z \in Lines /\ Cmp(u, y, x) = 0 /\ Cmp(u, y, z) > 0 /\ c[j] = Cmp(u, z, x)
    <3>1. Inside(hp, r) /\ Inside(j, r)
      BY RightIsAbout
    <3>2. y \in Lines /\ z \in Lines
      BY <1>1, <3>1
    <3>3. c[hp] = 0
      BY <1>1, <1>3, <1>4
    <3> QED BY <1>1, <3>2, <3>3
  <2>2. i < lp => c[i] > 0
    BY <1>1
  <2> HIDE DEF x, y, z
  <2>3. Cmp(u, z, x) < 0
    BY <1>1, <2>1, CmpSame
  <2> QED BY <2>1, <2>2, <2>3
<1> HIDE DEF x, i, j, lp, hp, a, b, n, c, o
<1>7. m1 \in 1 .. n /\ m2 \in 1 .. n /\ m3 \in 1 .. n
      /\ Inside(m1, r) /\ Inside(m2, r) /\ Inside(m3, r) /\ m1 # m2 /\ m1 # m3
  BY <1>2, <1>3, <1>6
<1> HIDE DEF m1, m2, m3
<1>8. /\ t \in Seq(D) /\ Len(t) = n /\ Permuted(s, t, r)
      /\ \A k \in 1 .. n : t[k] = IF k = m2 THEN s[m1] ELSE IF k = m3 THEN s[m2] ELSE IF k = m1 THEN s[m3] ELSE s[k]
  <2>1. t \in Seq(D)
    BY <1>7, TurnFacts DEF n
  <2>2. Len(t) = n
    BY <1>7, TurnFacts DEF n
  <2>3. ASSUME NEW k \in 1 .. n
        PROVE  t[k] = IF k = m2 THEN s[m1] ELSE IF k = m3 THEN s[m2] ELSE IF k = m1 THEN s[m3] ELSE s[k]
    BY <1>7, TurnFacts, SMTT(60) DEF n
  <2>4. Permuted(s, t, r)
    BY <1>7, TurnPermutes, SMTT(60) DEF n
  <2> QED BY <2>1, <2>2, <2>3, <2>4
<1> HIDE DEF t
<1> DEFINE d == [k \in 1 .. n |-> Cmp(u, line[t[k]], x)]
<1>9. DOMAIN t = 1 .. n
  BY <1>2, <1>8, LenProperties
<1>10. PartLines(line, t, r)
  BY <1>1, <1>2, <1>8, <1>9 DEF PartLines, Permuted, n
<1>11. \A k \in 1 .. n : d[k] = IF k = m2 THEN c[m1] ELSE IF k = m3 THEN c[m2] ELSE IF k = m1 THEN c[m3] ELSE c[k]
  BY <1>7, <1>8 DEF c
<1> HIDE DEF d
<1>12. /\ a <= o.i /\ o.i <= o.lp /\ o.lp <= o.hp /\ o.hp <= o.j /\ o.j <= b
       /\ o.i \in Int /\ o.lp \in Int /\ o.hp \in Int /\ o.j \in Int
  BY <1>1, <1>2, <1>3, <1>5, <1>6
<1>13. ASSUME NEW k \in 1 .. n, a <= k, k < o.i PROVE d[k] < 0
  BY <1>1, <1>2, <1>3, <1>4, <1>5, <1>6, <1>11, <1>13, <1>7 DEF m1, m2, m3
<1>14. ASSUME NEW k \in 1 .. n, o.lp <= k, k <= o.hp PROVE d[k] = 0
  BY <1>1, <1>2, <1>3, <1>4, <1>5, <1>6, <1>11, <1>14, <1>7 DEF m1, m2, m3
<1>15. ASSUME NEW k \in 1 .. n, o.j < k, k <= b PROVE d[k] > 0
  BY <1>1, <1>2, <1>3, <1>4, <1>5, <1>6, <1>11, <1>15, <1>7 DEF m1, m2, m3
<1>16. ~o.top /\ o.i < o.lp => d[o.i] > 0
  BY <1>1, <1>2, <1>3, <1>4, <1>5, <1>6, <1>11, <1>7 DEF m1, m2, m3
<1>17. PartAbout(u, line, t, r, o, x)
  <2>1. ~o.top /\ o.i < o.lp => Cmp(u, line[t[o.i]], x) > 0
    <3>1. o.i \in 1 .. n
      BY <1>2, <1>3, <1>12
    <3> QED BY <1>16, <3>1 DEF d
  <2>2. \A k \in 1 .. n : a <= k /\ k < o.i => Cmp(u, line[t[k]], x) < 0
    BY <1>13 DEF d
  <2>3. \A k \in 1 .. n : o.lp <= k /\ k <= o.hp => Cmp(u, line[t[k]], x) = 0
    BY <1>14 DEF d
  <2>4. \A k \in 1 .. n : o.j < k /\ k <= b => Cmp(u, line[t[k]], x) > 0
    BY <1>15 DEF d
  <2> QED BY <1>9, <1>12, <2>1, <2>2, <2>3, <2>4 DEF PartAbout, a, b
<1>18. PartRight(u, line, t, r, o)
  <2>1. r[2] <= Len(t)
    BY <1>8 DEF n
  <2> QED BY <1>1, <1>5, <1>8, <1>10, <1>17, <2>1, AboutIsRight
<1> QED BY <1>5, <1>8, <1>10, <1>18 DEF t, o, i, j, lp, hp, m1, m2, m3

\* The right element is larger and the left one smaller: they change places.
LEMMA RightSwapKeeps ==
  ASSUME NEW u \in BOOLEAN, NEW D, NEW line \in [D -> Cells], NEW s \in Seq(D), NEW r \in Ranges,
         1 <= r[1], r[2] <= Len(s), NEW p \in Parts, PartLines(line, s, r), PartRight(u, line, s, r, p),
         p.j > p.hp, Cmp(u, line[s[p.hp]], line[s[p.j]]) > 0, p.i < p.lp, p.i < p.lp => Cmp(u, line[s[p.i]], line[s[p.lp]]) > 0
  PROVE  PartLines(line, Swap(s, p.i, p.j), r) /\ PartRight(u, line, Swap(s, p.i, p.j), r, [p EXCEPT !.i = @ + 1, !.j = @ - 1, !.top = TRUE]) /\ [p EXCEPT !.i = @ + 1, !.j = @ - 1, !.top = TRUE] \in Parts
         /\ Permuted(s, Swap(s, p.i, p.j), r) /\ Swap(s, p.i, p.j) \in Seq(D)
<1> DEFINE x == line[s[p.lp]]
           i == p.i
           j == p.j
           lp == p.lp
           hp == p.hp
           a == r[1]
           b == r[2]
           n == Len(s)
           c == [k \in 1 .. n |-> Cmp(u, line[s[k]], x)]
           o == [p EXCEPT !.i = @ + 1, !.j = @ - 1, !.top = TRUE]
           m1 == i
           m2 == j
           t == Swap(s, m1, m2)
<1>1. /\ x \in Lines /\ PartAbout(u, line, s, r, p, x)
      /\ i \in 1 .. n /\ lp \in 1 .. n /\ hp \in 1 .. n /\ j \in 1 .. n
      /\ \A k \in 1 .. n : Inside(k, r) => line[s[k]] \in Lines
  BY RightIsAbout
<1>2. n \in Nat /\ DOMAIN s = 1 .. n /\ a \in Int /\ b \in Int
      /\ i \in Int /\ j \in Int /\ lp \in Int /\ hp \in Int /\ \A k \in Int : a <= k /\ k <= b => Inside(k, r)
  BY LenProperties DEF Parts, Inside, Ranges
<1>3. a <= i /\ i <= lp /\ lp <= hp /\ hp <= j /\ j <= b /\ 1 <= a /\ b <= n
  BY <1>1 DEF PartAbout
<1>4. /\ \A k \in 1 .. n : a <= k /\ k < i => c[k] < 0
      /\ \A k \in 1 .. n : lp <= k /\ k <= hp => c[k] = 0
      /\ \A k \in 1 .. n : j < k /\ k <= b => c[k] > 0
  BY <1>1, <1>2 DEF PartAbout
<1>5. o \in Parts /\ o.i = i + 1 /\ o.lp = lp /\ o.hp = hp /\ o.j = j - 1 /\ (o.top <=> TRUE)
  <2>1. o \in Parts
    BY PartChanged
  <2>2. o.i = i + 1 /\ o.lp = lp
    BY DEF Parts
  <2>4. o.hp = hp /\ o.j = j - 1
    BY DEF Parts
  <2>3. o.top <=> TRUE
    BY TopField
  <2> QED BY <2>1, <2>2, <2>3, <2>4
<1>6. j > hp /\ i < lp /\ c[j] < 0 /\ (i < lp => c[i] > 0)
  <2> DEFINE y == line[s[hp]]
             z == line[s[j]]
  <2>1. y \in Lines /\ z \in Lines /\ Cmp(u, y, x) = 0 /\ Cmp(u, y, z) > 0 /\ c[j] = Cmp(u, z, x)
    <3>1. Inside(hp, r) /\ Inside(j, r)
      BY RightIsAbout
    <3>2. y \in Lines /\ z \in Lines
      BY <1>1, <3>1
    <3>3. c[hp] = 0
      BY <1>1, <1>3, <1>4
    <3> QED BY <1>1, <3>2, <3>3
  <2>2. i < lp => c[i] > 0
    BY <1>1
  <2> HIDE DEF x, y, z
  <2>3. Cmp(u, z, x) < 0
    BY <1>1, <2>1, CmpSame
  <2> QED BY <2>1, <2>2, <2>3
<1> HIDE DEF x, i, j, lp, hp, a, b, n, c, o
<1>7. m1 \in 1 .. n /\ m2 \in 1 .. n
      /\ Inside(m1, r) /\ Inside(m2, r)
  BY <1>2, <1>3, <1>6
<1> HIDE DEF m1, m2
<1>8. /\ t \in Seq(D) /\ Len(t) = n /\ Permuted(s, t, r)
      /\ \A k \in 1 .. n : t[k] = IF k = m2 THEN s[m1] ELSE IF k = m1 THEN s[m2] ELSE s[k]
  <2>1. t \in Seq(D) /\ Len(t) = n
    BY <1>7, SwapFacts DEF n
  <2>2. Permuted(s, t, r)
    BY <1>7, SwapPermutes DEF n
  <2>3. ASSUME NEW k \in 1 .. n
        PROVE  t[k] = IF k = m2 THEN s[m1] ELSE IF k = m1 THEN s[m2] ELSE s[k]
    BY <1>7, SwapAt DEF n
  <2> QED BY <2>1, <2>2, <2>3
<1> HIDE DEF t
<1> DEFINE d == [k \in 1 .. n |-> Cmp(u, line[t[k]], x)]
<1>9. DOMAIN t = 1 .. n
  BY <1>2, <1>8, LenProperties
<1>10. PartLines(line, t, r)
  BY <1>1, <1>2, <1>8, <1>9 DEF PartLines, Permuted, n
<1>11. \A k \in 1 .. n : d[k] = IF k = m2 THEN c[m1] ELSE IF k = m1 THEN c[m2] ELSE c[k]
  BY <1>7, <1>8 DEF c
<1> HIDE DEF d
<1>12. /\ a <= o.i /\ o.i <= o.lp /\ o.lp <= o.hp /\ o.hp <= o.j /\ o.j <= b
       /\ o.i \in Int /\ o.lp \in Int /\ o.hp \in Int /\ o.j \in Int
  BY <1>1, <1>2, <1>3, <1>5, <1>6
<1>13. ASSUME NEW k \in 1 .. n, a <= k, k < o.i PROVE d[k] < 0
  BY <1>1, <1>2, <1>3, <1>4, <1>5, <1>6, <1>11, <1>13, <1>7 DEF m1, m2
<1>14. ASSUME NEW k \in 1 .. n, o.lp <= k, k <= o.hp PROVE d[k] = 0
  BY <1>1, <1>2, <1>3, <1>4, <1>5, <1>6, <1>11, <1>14, <1>7 DEF m1, m2
<1>15. ASSUME NEW k \in 1 .. n, o.j < k, k <= b PROVE d[k] > 0
  BY <1>1, <1>2, <1>3, <1>4, <1>5, <1>6, <1>11, <1>15, <1>7 DEF m1, m2
<1>16. ~o.top /\ o.i < o.lp => d[o.i] > 0
  BY <1>1, <1>2, <1>3, <1>4, <1>5, <1>6, <1>11, <1>7 DEF m1, m2
<1>17. PartAbout(u, line, t, r, o, x)
  <2>1. ~o.top /\ o.i < o.lp => Cmp(u, line[t[o.i]], x) > 0
    <3>1. o.i \in 1 .. n
      BY <1>2, <1>3, <1>12
    <3> QED BY <1>16, <3>1 DEF d
  <2>2. \A k \in 1 .. n : a <= k /\ k < o.i => Cmp(u, line[t[k]], x) < 0
    BY <1>13 DEF d
  <2>3. \A k \in 1 .. n : o.lp <= k /\ k <= o.hp => Cmp(u, line[t[k]], x) = 0
    BY <1>14 DEF d
  <2>4. \A k \in 1 .. n : o.j < k /\ k <= b => Cmp(u, line[t[k]], x) > 0
    BY <1>15 DEF d
  <2> QED BY <1>9, <1>12, <2>1, <2>2, <2>3, <2>4 DEF PartAbout, a, b
<1>18. PartRight(u, line, t, r, o)
  <2>1. r[2] <= Len(t)
    BY <1>8 DEF n
  <2> QED BY <1>1, <1>5, <1>8, <1>10, <1>17, <2>1, AboutIsRight
<1> QED BY <1>5, <1>8, <1>10, <1>18 DEF t, o, i, j, lp, hp, m1, m2

\* The right element is smaller: it stays.
LEMMA RightSmallerKeeps ==
  ASSUME NEW u \in BOOLEAN, NEW D, NEW line \in [D -> Cells], NEW s \in Seq(D), NEW r \in Ranges,
         1 <= r[1], r[2] <= Len(s), NEW p \in Parts, PartLines(line, s, r), PartRight(u, line, s, r, p),
         p.j > p.hp, Cmp(u, line[s[p.hp]], line[s[p.j]]) < 0, p.i < p.lp => Cmp(u, line[s[p.i]], line[s[p.lp]]) > 0
  PROVE  PartLines(line, s, r) /\ PartRight(u, line, s, r, [p EXCEPT !.j = @ - 1, !.top = FALSE]) /\ [p EXCEPT !.j = @ - 1, !.top = FALSE] \in Parts
<1> DEFINE x == line[s[p.lp]]
           i == p.i
           j == p.j
           lp == p.lp
           hp == p.hp
           a == r[1]
           b == r[2]
           n == Len(s)
           c == [k \in 1 .. n |-> Cmp(u, line[s[k]], x)]
           o == [p EXCEPT !.j = @ - 1, !.top = FALSE]
           t == s
<1>1. /\ x \in Lines /\ PartAbout(u, line, s, r, p, x)
      /\ i \in 1 .. n /\ lp \in 1 .. n /\ hp \in 1 .. n /\ j \in 1 .. n
      /\ \A k \in 1 .. n : Inside(k, r) => line[s[k]] \in Lines
  BY RightIsAbout
<1>2. n \in Nat /\ DOMAIN s = 1 .. n /\ a \in Int /\ b \in Int
      /\ i \in Int /\ j \in Int /\ lp \in Int /\ hp \in Int /\ \A k \in Int : a <= k /\ k <= b => Inside(k, r)
  BY LenProperties DEF Parts, Inside, Ranges
<1>3. a <= i /\ i <= lp /\ lp <= hp /\ hp <= j /\ j <= b /\ 1 <= a /\ b <= n
  BY <1>1 DEF PartAbout
<1>4. /\ \A k \in 1 .. n : a <= k /\ k < i => c[k] < 0
      /\ \A k \in 1 .. n : lp <= k /\ k <= hp => c[k] = 0
      /\ \A k \in 1 .. n : j < k /\ k <= b => c[k] > 0
  BY <1>1, <1>2 DEF PartAbout
<1>5. o \in Parts /\ o.i = i /\ o.lp = lp /\ o.hp = hp /\ o.j = j - 1 /\ (o.top <=> FALSE)
  <2>1. o \in Parts
    BY PartChanged
  <2>2. o.i = i /\ o.lp = lp
    BY DEF Parts
  <2>4. o.hp = hp /\ o.j = j - 1
    BY DEF Parts
  <2>3. o.top <=> FALSE
    BY TopField
  <2> QED BY <2>1, <2>2, <2>3, <2>4
<1>6. j > hp /\ c[j] > 0 /\ (i < lp => c[i] > 0)
  <2> DEFINE y == line[s[hp]]
             z == line[s[j]]
  <2>1. y \in Lines /\ z \in Lines /\ Cmp(u, y, x) = 0 /\ Cmp(u, y, z) < 0 /\ c[j] = Cmp(u, z, x)
    <3>1. Inside(hp, r) /\ Inside(j, r)
      BY RightIsAbout
    <3>2. y \in Lines /\ z \in Lines
      BY <1>1, <3>1
    <3>3. c[hp] = 0
      BY <1>1, <1>3, <1>4
    <3> QED BY <1>1, <3>2, <3>3
  <2>2. i < lp => c[i] > 0
    BY <1>1
  <2> HIDE DEF x, y, z
  <2>3. Cmp(u, z, x) > 0
    BY <1>1, <2>1, CmpSame
  <2> QED BY <2>1, <2>2, <2>3
<1> HIDE DEF x, i, j, lp, hp, a, b, n, c, o
<1>8. t \in Seq(D) /\ Len(t) = n /\ \A k \in 1 .. n : t[k] = s[k]
  BY DEF n
<1> HIDE DEF t
<1> DEFINE d == [k \in 1 .. n |-> Cmp(u, line[t[k]], x)]
<1>9. DOMAIN t = 1 .. n
  BY <1>2, <1>8, LenProperties
<1>10. PartLines(line, t, r)
  BY <1>1, <1>8, <1>9 DEF PartLines
<1>11. \A k \in 1 .. n : d[k] = c[k]
  BY <1>8 DEF c
<1> HIDE DEF d
<1>12. /\ a <= o.i /\ o.i <= o.lp /\ o.lp <= o.hp /\ o.hp <= o.j /\ o.j <= b
       /\ o.i \in Int /\ o.lp \in Int /\ o.hp \in Int /\ o.j \in Int
  BY <1>1, <1>2, <1>3, <1>5, <1>6
<1>13. ASSUME NEW k \in 1 .. n, a <= k, k < o.i PROVE d[k] < 0
  BY <1>1, <1>2, <1>3, <1>4, <1>5, <1>6, <1>11, <1>13
<1>14. ASSUME NEW k \in 1 .. n, o.lp <= k, k <= o.hp PROVE d[k] = 0
  BY <1>1, <1>2, <1>3, <1>4, <1>5, <1>6, <1>11, <1>14
<1>15. ASSUME NEW k \in 1 .. n, o.j < k, k <= b PROVE d[k] > 0
  BY <1>1, <1>2, <1>3, <1>4, <1>5, <1>6, <1>11, <1>15
<1>16. ~o.top /\ o.i < o.lp => d[o.i] > 0
  BY <1>1, <1>2, <1>3, <1>4, <1>5, <1>6, <1>11
<1>17. PartAbout(u, line, t, r, o, x)
  <2>1. ~o.top /\ o.i < o.lp => Cmp(u, line[t[o.i]], x) > 0
    <3>1. o.i \in 1 .. n
      BY <1>2, <1>3, <1>12
    <3> QED BY <1>16, <3>1 DEF d
  <2>2. \A k \in 1 .. n : a <= k /\ k < o.i => Cmp(u, line[t[k]], x) < 0
    BY <1>13 DEF d
  <2>3. \A k \in 1 .. n : o.lp <= k /\ k <= o.hp => Cmp(u, line[t[k]], x) = 0
    BY <1>14 DEF d
  <2>4. \A k \in 1 .. n : o.j < k /\ k <= b => Cmp(u, line[t[k]], x) > 0
    BY <1>15 DEF d
  <2> QED BY <1>9, <1>12, <2>1, <2>2, <2>3, <2>4 DEF PartAbout, a, b
<1>18. PartRight(u, line, t, r, o)
  <2>1. r[2] <= Len(t)
    BY <1>8 DEF n
  <2> QED BY <1>1, <1>5, <1>8, <1>10, <1>17, <2>1, AboutIsRight
<1> QED BY <1>5, <1>10, <1>18 DEF t, o

\* The left element is smaller, and nothing on the right is to be exchanged for it:
\* the middle moves to the left.
LEMMA LeftTurnKeeps ==
  ASSUME NEW u \in BOOLEAN, NEW D, NEW line \in [D -> Cells], NEW s \in Seq(D), NEW r \in Ranges,
         1 <= r[1], r[2] <= Len(s), NEW p \in Parts, PartLines(line, s, r), PartRight(u, line, s, r, p),
         p.j <= p.hp, p.i < p.lp, Cmp(u, line[s[p.i]], line[s[p.lp]]) > 0
  PROVE  PartLines(line, Turn(s, p.j, p.lp - 1, p.i), r) /\ PartRight(u, line, Turn(s, p.j, p.lp - 1, p.i), r, [p EXCEPT !.lp = @ - 1, !.hp = @ - 1, !.j = p.hp - 1, !.top = TRUE]) /\ [p EXCEPT !.lp = @ - 1, !.hp = @ - 1, !.j = p.hp - 1, !.top = TRUE] \in Parts
         /\ Permuted(s, Turn(s, p.j, p.lp - 1, p.i), r) /\ Turn(s, p.j, p.lp - 1, p.i) \in Seq(D)
<1> DEFINE x == line[s[p.lp]]
           i == p.i
           j == p.j
           lp == p.lp
           hp == p.hp
           a == r[1]
           b == r[2]
           n == Len(s)
           c == [k \in 1 .. n |-> Cmp(u, line[s[k]], x)]
           o == [p EXCEPT !.lp = @ - 1, !.hp = @ - 1, !.j = p.hp - 1, !.top = TRUE]
           m1 == j
           m2 == lp - 1
           m3 == i
           t == Turn(s, m1, m2, m3)
<1>1. /\ x \in Lines /\ PartAbout(u, line, s, r, p, x)
      /\ i \in 1 .. n /\ lp \in 1 .. n /\ hp \in 1 .. n /\ j \in 1 .. n
      /\ \A k \in 1 .. n : Inside(k, r) => line[s[k]] \in Lines
  BY RightIsAbout
<1>2. n \in Nat /\ DOMAIN s = 1 .. n /\ a \in Int /\ b \in Int
      /\ i \in Int /\ j \in Int /\ lp \in Int /\ hp \in Int /\ \A k \in Int : a <= k /\ k <= b => Inside(k, r)
  BY LenProperties DEF Parts, Inside, Ranges
<1>3. a <= i /\ i <= lp /\ lp <= hp /\ hp <= j /\ j <= b /\ 1 <= a /\ b <= n
  BY <1>1 DEF PartAbout
<1>4. /\ \A k \in 1 .. n : a <= k /\ k < i => c[k] < 0
      /\ \A k \in 1 .. n : lp <= k /\ k <= hp => c[k] = 0
      /\ \A k \in 1 .. n : j < k /\ k <= b => c[k] > 0
  BY <1>1, <1>2 DEF PartAbout
<1>5. o \in Parts /\ o.i = i /\ o.lp = lp - 1 /\ o.hp = hp - 1 /\ o.j = hp - 1 /\ (o.top <=> TRUE)
  <2>1. o \in Parts
    BY PartChanged
  <2>2. o.i = i /\ o.lp = lp - 1
    BY DEF Parts
  <2>4. o.hp = hp - 1 /\ o.j = hp - 1
    BY DEF Parts
  <2>3. o.top <=> TRUE
    BY TopField
  <2> QED BY <2>1, <2>2, <2>3, <2>4
<1>6. c[i] > 0 /\ j = hp /\ i < lp
  BY <1>1, <1>3
<1> HIDE DEF x, i, j, lp, hp, a, b, n, c, o
<1>7. m1 \in 1 .. n /\ m2 \in 1 .. n /\ m3 \in 1 .. n
      /\ Inside(m1, r) /\ Inside(m2, r) /\ Inside(m3, r) /\ m1 # m2 /\ m1 # m3
  BY <1>2, <1>3, <1>6
<1> HIDE DEF m1, m2, m3
<1>8. /\ t \in Seq(D) /\ Len(t) = n /\ Permuted(s, t, r)
      /\ \A k \in 1 .. n : t[k] = IF k = m2 THEN s[m1] ELSE IF k = m3 THEN s[m2] ELSE IF k = m1 THEN s[m3] ELSE s[k]
  <2>1. t \in Seq(D)
    BY <1>7, TurnFacts DEF n
  <2>2. Len(t) = n
    BY <1>7, TurnFacts DEF n
  <2>3. ASSUME NEW k \in 1 .. n
        PROVE  t[k] = IF k = m2 THEN s[m1] ELSE IF k = m3 THEN s[m2] ELSE IF k = m1 THEN s[m3] ELSE s[k]
    BY <1>7, TurnFacts, SMTT(60) DEF n
  <2>4. Permuted(s, t, r)
    BY <1>7, TurnPermutes, SMTT(60) DEF n
  <2> QED BY <2>1, <2>2, <2>3, <2>4
<1> HIDE DEF t
<1> DEFINE d == [k \in 1 .. n |-> Cmp(u, line[t[k]], x)]
<1>9. DOMAIN t = 1 .. n
  BY <1>2, <1>8, LenProperties
<1>10. PartLines(line, t, r)
  BY <1>1, <1>2, <1>8, <1>9 DEF PartLines, Permuted, n
<1>11. \A k \in 1 .. n : d[k] = IF k = m2 THEN c[m1] ELSE IF k = m3 THEN c[m2] ELSE IF k = m1 THEN c[m3] ELSE c[k]
  BY <1>7, <1>8 DEF c
<1> HIDE DEF d
<1>12. /\ a <= o.i /\ o.i <= o.lp /\ o.lp <= o.hp /\ o.hp <= o.j /\ o.j <= b
       /\ o.i \in Int /\ o.lp \in Int /\ o.hp \in Int /\ o.j \in Int
  BY <1>1, <1>2, <1>3, <1>5, <1>6
<1>13. ASSUME NEW k \in 1 .. n, a <= k, k < o.i PROVE d[k] < 0
  BY <1>1, <1>2, <1>3, <1>4, <1>5, <1>6, <1>11, <1>13, <1>7 DEF m1, m2, m3
<1>14. ASSUME NEW k \in 1 .. n, o.lp <= k, k <= o.hp PROVE d[k] = 0
  BY <1>1, <1>2, <1>3, <1>4, <1>5, <1>6, <1>11, <1>14, <1>7 DEF m1, m2, m3
<1>15. ASSUME NEW k \in 1 .. n, o.j < k, k <= b PROVE d[k] > 0
  BY <1>1, <1>2, <1>3, <1>4, <1>5, <1>6, <1>11, <1>15, <1>7 DEF m1, m2, m3
<1>16. ~o.top /\ o.i < o.lp => d[o.i] > 0
  BY <1>1, <1>2, <1>3, <1>4, <1>5, <1>6, <1>11, <1>7 DEF m1, m2, m3
<1>17. PartAbout(u, line, t, r, o, x)
  <2>1. ~o.top /\ o.i < o.lp => Cmp(u, line[t[o.i]], x) > 0
    <3>1. o.i \in 1 .. n
      BY <1>2, <1>3, <1>12
    <3> QED BY <1>16, <3>1 DEF d
  <2>2. \A k \in 1 .. n : a <= k /\ k < o.i => Cmp(u, line[t[k]], x) < 0
    BY <1>13 DEF d
  <2>3. \A k \in 1 .. n : o.lp <= k /\ k <= o.hp => Cmp(u, line[t[k]], x) = 0
    BY <1>14 DEF d
  <2>4. \A k \in 1 .. n : o.j < k /\ k <= b => Cmp(u, line[t[k]], x) > 0
    BY <1>15 DEF d
  <2> QED BY <1>9, <1>12, <2>1, <2>2, <2>3, <2>4 DEF PartAbout, a, b
<1>18. PartRight(u, line, t, r, o)
  <2>1. r[2] <= Len(t)
    BY <1>8 DEF n
  <2> QED BY <1>1, <1>5, <1>8, <1>10, <1>17, <2>1, AboutIsRight
<1> QED BY <1>5, <1>8, <1>10, <1>18 DEF t, o, i, j, lp, hp, m1, m2, m3

-----------------------------------------------------------------------------
(***************************************************************************)
(* The calls of qusort.                                                    *)
(***************************************************************************)

\* One range, with nothing voided.
LEMMA SortingBegins ==
  ASSUME NEW u \in BOOLEAN, NEW D, NEW line \in [D -> Cells], NEW s \in Seq(D),
         \A k \in 1 .. Len(s) : line[s[k]] # NoLine
  PROVE  Sorting(u, line, s, <<<<1, Len(s)>>>>, Idle)
<1> DEFINE sg == <<<<1, Len(s)>>>>
<1>1. DOMAIN s = 1 .. Len(s) /\ Len(s) \in Nat
  BY LenProperties
<1>2. DOMAIN sg = {1} /\ sg[1] = <<1, Len(s)>>
  OBVIOUS
<1> HIDE DEF sg
<1>3. RangesRight(Len(s), sg)
  BY <1>1, <1>2 DEF RangesRight
<1>4. Separated(u, line, s, sg)
  BY <1>1, <1>2 DEF Separated, Inside
<1>5. Whole(line, s, sg)
  BY <1>1, <1>2 DEF Whole
<1> QED BY <1>3, <1>4, <1>5 DEF Sorting, sg

\* No range is left.
LEMMA SortingEnds ==
  ASSUME NEW u, NEW line, NEW s, NEW p, Sorting(u, line, s, << >>, p)
  PROVE  Descending(u, line, s) /\ p = Idle
<1>1. Separated(u, line, s, << >>)
  BY DEF Sorting
<1>2. DOMAIN << >> = {}
  OBVIOUS
<1>3. Descending(u, line, s)
  BY <1>1, <1>2 DEF Separated, Descending
<1> QED BY <1>3 DEF Sorting

\* The last range.
LEMMA LastRange ==
  ASSUME NEW sg \in Seq(Ranges), sg # << >>
  PROVE  /\ Len(sg) \in Nat \ {0} /\ DOMAIN sg = 1 .. Len(sg) /\ Last(sg) = sg[Len(sg)]
         /\ Last(sg) \in Ranges /\ Last(sg)[1] \in Int /\ Last(sg)[2] \in Int
         /\ Front(sg) \in Seq(Ranges) /\ Len(Front(sg)) = Len(sg) - 1
         /\ DOMAIN Front(sg) = 1 .. Len(sg) - 1
         /\ \A i \in 1 .. Len(sg) - 1 : Front(sg)[i] = sg[i]
<1> DEFINE z == Len(sg)
<1>1. z \in Nat \ {0} /\ DOMAIN sg = 1 .. z /\ Last(sg) = sg[z] /\ sg[z] \in Ranges
  BY LenProperties, EmptySeq, ElementOfSeq DEF Last
<1>2. sg[z][1] \in Int /\ sg[z][2] \in Int
  BY <1>1 DEF Ranges
<1> HIDE DEF z
<1> DEFINE m == z - 1
<1>3. m \in Int /\ \A i \in 1 .. m : sg[i] \in Ranges
  BY <1>1, ElementOfSeq DEF z
<1>4. Front(sg) = SubSeq(sg, 1, m)
  BY DEF Front, z
<1> HIDE DEF m
<1>5. /\ Front(sg) \in Seq(Ranges)
      /\ Len(Front(sg)) = IF 1 <= m THEN m - 1 + 1 ELSE 0
      /\ \A i \in 1 .. m - 1 + 1 : Front(sg)[i] = sg[1 + i - 1]
  BY <1>3, <1>4, SubSeqProperties
<1>6. Len(Front(sg)) = m /\ \A i \in 1 .. m : Front(sg)[i] = sg[i]
  BY <1>1, <1>3, <1>5 DEF m
<1>7. DOMAIN Front(sg) = 1 .. m
  BY <1>5, <1>6, LenProperties
<1> QED BY <1>1, <1>2, <1>5, <1>6, <1>7 DEF m, z

\* A range of one element or none is sorted.
LEMMA SmallRange ==
  ASSUME NEW u \in BOOLEAN, NEW D, NEW line \in [D -> Cells], NEW s \in Seq(D),
         NEW sg \in Seq(Ranges), sg # << >>, Sorting(u, line, s, sg, Idle),
         Last(sg)[2] - Last(sg)[1] < 1
  PROVE  Sorting(u, line, s, Front(sg), Idle)
<1> DEFINE z == Len(sg)
           fr == Front(sg)
<1>1. /\ z \in Nat \ {0} /\ DOMAIN sg = 1 .. z /\ sg[z][1] \in Int /\ sg[z][2] \in Int
      /\ sg[z][2] - sg[z][1] < 1 /\ DOMAIN fr = 1 .. z - 1 /\ \A i \in 1 .. z - 1 : fr[i] = sg[i]
  BY LastRange
<1>2. DOMAIN s = 1 .. Len(s) /\ Len(s) \in Nat
  BY LenProperties
<1>3. RangesRight(Len(s), sg) /\ Separated(u, line, s, sg) /\ Whole(line, s, sg)
  BY DEF Sorting
<1> HIDE DEF z, fr
<1>7. \A i \in DOMAIN fr : i \in DOMAIN sg /\ fr[i] = sg[i]
  BY <1>1
<1>4. RangesRight(Len(s), fr)
  BY <1>3, <1>7 DEF RangesRight
<1>5. Whole(line, s, fr)
  BY <1>3, <1>7 DEF Whole
<1>6. Separated(u, line, s, fr)
  <2> SUFFICES ASSUME NEW k \in 1 .. Len(s), NEW l \in 1 .. Len(s), k < l,
                      ~\E i \in DOMAIN fr : Inside(k, fr[i]) /\ Inside(l, fr[i])
               PROVE  InOrder(u, line[s[k]], line[s[l]])
    BY <1>2 DEF Separated
  <2>1. ~(Inside(k, sg[z]) /\ Inside(l, sg[z]))
    BY <1>1, <1>2 DEF Inside
  <2>2. \A i \in DOMAIN sg : i = z \/ i \in DOMAIN fr
    BY <1>1
  <2>3. ~\E i \in DOMAIN sg : Inside(k, sg[i]) /\ Inside(l, sg[i])
    BY <1>7, <2>1, <2>2
  <2> QED BY <1>2, <1>3, <2>3 DEF Separated
<1> QED BY <1>4, <1>5, <1>6 DEF Sorting, fr

\* From a to b.
RangeIs(r, a, b) == r[1] = a /\ r[2] = b

\* A longer range: the element in the middle is compared with the others.
LEMMA PartBegins ==
  ASSUME NEW u \in BOOLEAN, NEW D, NEW line \in [D -> Cells], NEW s \in Seq(D),
         NEW sg \in Seq(Ranges), sg # << >>, Sorting(u, line, s, sg, Idle),
         NEW a \in Int, NEW b \in Int, NEW mid, RangeIs(Last(sg), a, b), mid = a + ((b - a + 1) \div 2), ~(b - a < 1)
  PROVE  /\ Sorting(u, line, s, sg, [i |-> a, j |-> b, lp |-> mid, hp |-> mid, top |-> TRUE])
         /\ [i |-> a, j |-> b, lp |-> mid, hp |-> mid, top |-> TRUE] \in Parts
<1> DEFINE o == [i |-> a, j |-> b, lp |-> mid, hp |-> mid, top |-> TRUE]
           r == Last(sg)
           n == Len(s)
<1>1. a \in Int /\ b \in Int /\ sg[Len(sg)] = r /\ Len(sg) \in DOMAIN sg
  <2>1. /\ Len(sg) \in Nat \ {0} /\ DOMAIN sg = 1 .. Len(sg) /\ r = sg[Len(sg)]
        /\ r[1] \in Int /\ r[2] \in Int
    BY LastRange
  <2> QED BY <2>1 DEF RangeIs
<1>2. DOMAIN s = 1 .. n /\ n \in Nat
  BY LenProperties
<1>3. RangesRight(n, sg) /\ Separated(u, line, s, sg) /\ Whole(line, s, sg)
  BY DEF Sorting
<1>4. 1 <= a /\ b <= n
  BY <1>1, <1>3 DEF RangesRight, RangeIs
<1>5. mid \in Int /\ a <= mid /\ mid <= b
  <2> DEFINE m == b - a + 1
             h == m \div 2
  <2>1. m \in Int /\ m >= 2 /\ b = a + m - 1
    BY <1>1
  <2> HIDE DEF m
  <2>2. h \in Int /\ 1 <= h /\ h <= m - 1
    BY <2>1
  <2>3. mid = a + h
    BY DEF m
  <2> HIDE DEF h
  <2> QED BY <1>1, <2>1, <2>2, <2>3
<1>6. o \in Parts
  BY <1>1, <1>5 DEF Parts
<1>7. line[s[mid]] \in Lines
  <2>1. mid \in 1 .. n /\ Inside(mid, r)
    <3>1. mid \in 1 .. n
      BY <1>1, <1>2, <1>4, <1>5
    <3>2. Inside(mid, r)
      BY <1>5 DEF Inside, RangeIs
    <3> QED BY <3>1, <3>2
  <2>2. s[mid] \in D /\ line[s[mid]] # NoLine
    BY <1>1, <1>2, <1>3, <2>1, ElementOfSeq DEF Whole
  <2> QED BY <2>2 DEF Cells
<1>8. PartRight(u, line, s, r, o)
  <2>1. \A k \in DOMAIN s : mid <= k /\ k <= mid => Cmp(u, line[s[k]], line[s[mid]]) = 0
    <3>1. Cmp(u, line[s[mid]], line[s[mid]]) = 0
      BY <1>7, CmpOrder
    <3> QED BY <1>2, <1>5, <3>1
  <2>2. o.i = a /\ o.j = b /\ o.lp = mid /\ o.hp = mid /\ o.top
    OBVIOUS
  <2>3. r[1] = a /\ r[2] = b
    BY DEF RangeIs
  <2> HIDE DEF n, o, r
  <2>4. r[1] <= o.i /\ o.i <= o.lp /\ o.lp <= o.hp /\ o.hp <= o.j /\ o.j <= r[2]
    BY <1>1, <1>5, <2>2, <2>3
  <2>5. \A k \in DOMAIN s : ~(r[1] <= k /\ k < o.i) /\ ~(o.j < k /\ k <= r[2])
    BY <1>1, <1>2, <2>2, <2>3
  <2> QED BY <2>1, <2>2, <2>4, <2>5 DEF PartRight
<1> QED BY <1>3, <1>6, <1>8 DEF Sorting

\* The last part is done; the last range is replaced by two; equals are voided.
PartDone(p) == p.j <= p.hp /\ p.i = p.lp
Replaced(sg, x, y) == {Front(sg) \o <<x, y>>, Front(sg) \o <<y, x>>}
Equals(u, s, p) == IF u THEN {s[k] : k \in p.lp + 1 .. p.hp} ELSE {}
VoidedBy(line, v) == [d \in DOMAIN line |-> IF d \in v THEN NoLine ELSE line[d]]

\* The last range has been replaced.
LEMMA ReplacedRanges ==
  ASSUME NEW sg \in Seq(Ranges), sg # << >>, NEW t \in Seq(Ranges), Len(t) = 2
  PROVE  /\ Front(sg) \o t \in Seq(Ranges) /\ DOMAIN (Front(sg) \o t) = 1 .. Len(sg) + 1
         /\ \A i \in 1 .. Len(sg) - 1 : (Front(sg) \o t)[i] = sg[i]
         /\ (Front(sg) \o t)[Len(sg)] = t[1] /\ (Front(sg) \o t)[Len(sg) + 1] = t[2]
<1> DEFINE fr == Front(sg)
           z == Len(sg)
           sg2 == fr \o t
<1>3. /\ fr \in Seq(Ranges) /\ Len(fr) = z - 1 /\ z \in Nat \ {0}
      /\ \A i \in 1 .. z - 1 : fr[i] = sg[i]
  BY LastRange
<1>4. /\ sg2 \in Seq(Ranges) /\ Len(sg2) = Len(fr) + Len(t)
      /\ \A i \in 1 .. Len(fr) + Len(t) : sg2[i] = IF i <= Len(fr) THEN fr[i] ELSE t[i - Len(fr)]
  BY <1>3, ConcatProperties
<1> HIDE DEF fr, z, sg2
<1>5. Len(sg2) = z + 1
  BY <1>3, <1>4
<1>6. \A i \in 1 .. z + 1 : sg2[i] = IF i <= z - 1 THEN fr[i] ELSE t[i - (z - 1)]
  BY <1>3, <1>4
<1>7. sg2[z] = t[1] /\ sg2[z + 1] = t[2]
  <2>1. z \in 1 .. z + 1 /\ z + 1 \in 1 .. z + 1 /\ ~(z <= z - 1) /\ ~(z + 1 <= z - 1)
        /\ z - (z - 1) = 1 /\ z + 1 - (z - 1) = 2
    BY <1>3
  <2>2. sg2[z] = t[z - (z - 1)]
    BY <1>6, <2>1
  <2>3. sg2[z + 1] = t[z + 1 - (z - 1)]
    BY <1>6, <2>1
  <2> QED BY <2>1, <2>2, <2>3
<1>8. ASSUME NEW i \in 1 .. z - 1 PROVE sg2[i] = sg[i]
  <2>1. i \in 1 .. z + 1 /\ i <= z - 1
    BY <1>3
  <2> QED BY <1>3, <1>6, <2>1
<1>9. DOMAIN sg2 = 1 .. z + 1
  BY <1>4, <1>5, LenProperties
<1> QED BY <1>4, <1>7, <1>8, <1>9 DEF z, sg2, fr

\* What is larger and what is smaller is still to be sorted, the equals are in place;
\* with u all but one of them are voided.
LEMMA PartedKeeps ==
  ASSUME NEW u \in BOOLEAN, NEW D, NEW line \in [D -> Cells], NEW s \in Seq(D), Distinct(s),
         NEW sg \in Seq(Ranges), sg # << >>, NEW p \in Parts, p # Idle, Sorting(u, line, s, sg, p),
         PartDone(p), NEW a \in Int, NEW b \in Int, RangeIs(Last(sg), a, b),
         NEW left \in Ranges, NEW right \in Ranges,
         RangeIs(left, a, p.lp - 1), RangeIs(right, p.hp + 1, b), NEW sg2 \in Replaced(sg, left, right)
  PROVE  /\ sg2 \in Seq(Ranges)
         /\ Sorting(u, VoidedBy(line, Equals(u, s, p)), s, sg2, Idle)
<1> DEFINE z == Len(sg)
           n == Len(s)
           lp == p.lp
           hp == p.hp
           r == Last(sg)
           v == Equals(u, s, p)
           line2 == VoidedBy(line, v)
<1>1. n \in Nat /\ DOMAIN s = 1 .. n /\ \A k \in 1 .. n : s[k] \in D
  BY LenProperties, ElementOfSeq
<1>2. /\ z \in Nat \ {0} /\ DOMAIN sg = 1 .. z /\ r = sg[z] /\ r \in Ranges
      /\ Front(sg) \in Seq(Ranges) /\ Len(Front(sg)) = z - 1
      /\ \A i \in 1 .. z - 1 : Front(sg)[i] = sg[i]
  BY LastRange
<1>3. \A i \in 1 .. z : sg[i] \in Ranges /\ sg[i][1] \in Int /\ sg[i][2] \in Int
  BY ElementOfSeq DEF Ranges
<1>4. /\ RangesRight(n, sg) /\ Separated(u, line, s, sg) /\ Whole(line, s, sg)
      /\ PartRight(u, line, s, r, p)
  BY DEF Sorting
<1>5. r[1] = a /\ r[2] = b /\ 1 <= a /\ b <= n /\ PartLines(line, s, r)
  <2>1. z \in 1 .. z
    BY <1>2
  <2>2. r[1] = a /\ r[2] = b
    BY DEF RangeIs
  <2>3. 1 <= a /\ b <= n
    BY <1>2, <1>4, <2>1, <2>2 DEF RangesRight
  <2>4. PartLines(line, s, r)
    BY <1>1, <1>2, <1>4, <2>1 DEF PartLines, Whole, Cells
  <2> QED BY <2>2, <2>3, <2>4
<1>6. lp \in Int /\ hp \in Int /\ a <= lp /\ lp <= hp /\ hp <= b /\ p.j = hp /\ p.i = lp
  BY <1>4, <1>5 DEF PartRight, Parts, PartDone
<1>7. /\ \A k \in 1 .. n : a <= k /\ k < lp => Cmp(u, line[s[k]], line[s[lp]]) < 0
      /\ \A k \in 1 .. n : lp <= k /\ k <= hp => Cmp(u, line[s[k]], line[s[lp]]) = 0
      /\ \A k \in 1 .. n : hp < k /\ k <= b => Cmp(u, line[s[lp]], line[s[k]]) < 0
      /\ \A k \in 1 .. n : a <= k /\ k <= b => line[s[k]] \in Lines
  <2>1. \A k \in 1 .. n : a <= k /\ k < lp => Cmp(u, line[s[k]], line[s[lp]]) < 0
    <3>1. \A k \in 1 .. n : r[1] <= k /\ k < p.i => Cmp(u, line[s[k]], line[s[p.lp]]) < 0
      BY <1>1, <1>4 DEF PartRight
    <3> QED BY <1>5, <1>6, <3>1
  <2>2. \A k \in 1 .. n : lp <= k /\ k <= hp => Cmp(u, line[s[k]], line[s[lp]]) = 0
    BY <1>1, <1>4 DEF PartRight
  <2>3. \A k \in 1 .. n : hp < k /\ k <= b => Cmp(u, line[s[lp]], line[s[k]]) < 0
    BY <1>1, <1>4, <1>5, <1>6 DEF PartRight
  <2>4. \A k \in 1 .. n : a <= k /\ k <= b => line[s[k]] \in Lines
    BY <1>1, <1>5 DEF PartLines, Inside
  <2> QED BY <2>1, <2>2, <2>3, <2>4
<1>8. /\ v = IF u THEN {s[k] : k \in lp + 1 .. hp} ELSE {}
      /\ \A d \in D : line2[d] = IF d \in v THEN NoLine ELSE line[d]
  BY DEF Equals, VoidedBy
<1>9. /\ sg2 \in Seq(Ranges) /\ DOMAIN sg2 = 1 .. z + 1
      /\ \A i \in 1 .. z - 1 : sg2[i] = sg[i]
      /\ (sg2[z] = left /\ sg2[z + 1] = right) \/ (sg2[z] = right /\ sg2[z + 1] = left)
  <2>1. ASSUME NEW x \in Ranges, NEW y \in Ranges
        PROVE  LET t == <<x, y>> IN t \in Seq(Ranges) /\ Len(t) = 2 /\ t[1] = x /\ t[2] = y
    OBVIOUS
  <2>2. CASE sg2 = Front(sg) \o <<left, right>>
    <3> DEFINE t == <<left, right>>
    <3>1. t \in Seq(Ranges) /\ Len(t) = 2 /\ t[1] = left /\ t[2] = right
      BY <2>1
    <3>2. sg2 = Front(sg) \o t
      BY <2>2
    <3> HIDE DEF t
    <3> QED BY <3>1, <3>2, ReplacedRanges
  <2>3. CASE sg2 = Front(sg) \o <<right, left>>
    <3> DEFINE t == <<right, left>>
    <3>1. t \in Seq(Ranges) /\ Len(t) = 2 /\ t[1] = right /\ t[2] = left
      BY <2>1
    <3>2. sg2 = Front(sg) \o t
      BY <2>3
    <3> HIDE DEF t
    <3> QED BY <3>1, <3>2, ReplacedRanges
  <2> QED BY <2>2, <2>3 DEF Replaced
<1>10. left[1] = a /\ left[2] = lp - 1 /\ right[1] = hp + 1 /\ right[2] = b
  BY DEF RangeIs
<1> HIDE DEF z, n, lp, hp, r, v, line2
<1>11. \A i \in DOMAIN sg2 : (i \in 1 .. z - 1 /\ sg2[i] = sg[i]) \/ (i \in {z, z + 1} /\ sg2[i] \in {left, right})
  BY <1>2, <1>9
<1>12. \A i \in 1 .. z - 1 : Apart(sg[i], sg[z])
  BY <1>2, <1>4 DEF RangesRight
<1>13. \A i \in 1 .. z - 1 : \A q \in {left, right} : Apart(sg[i], q) /\ Apart(q, sg[i])
  <2> SUFFICES ASSUME NEW i \in 1 .. z - 1 PROVE \A q \in {left, right} : Apart(sg[i], q) /\ Apart(q, sg[i])
    OBVIOUS
  <2>1. Apart(sg[i], sg[z]) /\ sg[z][1] = a /\ sg[z][2] = b /\ sg[i][1] \in Int /\ sg[i][2] \in Int
    BY <1>2, <1>3, <1>5, <1>12
  <2>2. Apart(sg[i], left) /\ Apart(left, sg[i])
    BY <1>6, <1>10, <2>1 DEF Apart
  <2>3. Apart(sg[i], right) /\ Apart(right, sg[i])
    BY <1>6, <1>10, <2>1 DEF Apart
  <2> QED BY <2>2, <2>3
<1>14. Apart(left, right) /\ Apart(right, left)
  BY <1>6, <1>10 DEF Apart
<1>15. RangesRight(n, sg2)
  <2>1. \A i \in DOMAIN sg2 : 1 <= sg2[i][1] /\ sg2[i][2] <= n
    <3> SUFFICES ASSUME NEW i \in DOMAIN sg2 PROVE 1 <= sg2[i][1] /\ sg2[i][2] <= n
      OBVIOUS
    <3>1. CASE i \in 1 .. z - 1 /\ sg2[i] = sg[i]
      <4>1. i \in DOMAIN sg
        BY <1>2, <3>1
      <4>2. 1 <= sg[i][1] /\ sg[i][2] <= n
        BY <1>4, <4>1 DEF RangesRight
      <4> QED BY <3>1, <4>2
    <3>2. CASE sg2[i] = left
      BY <1>1, <1>5, <1>6, <1>10, <3>2
    <3>3. CASE sg2[i] = right
      BY <1>1, <1>5, <1>6, <1>10, <3>3
    <3> QED BY <1>11, <3>1, <3>2, <3>3
  <2>2. \A i, j \in DOMAIN sg2 : i # j => Apart(sg2[i], sg2[j])
    <3> SUFFICES ASSUME NEW i \in DOMAIN sg2, NEW j \in DOMAIN sg2, i # j PROVE Apart(sg2[i], sg2[j])
      OBVIOUS
    <3>1. CASE i \in 1 .. z - 1 /\ j \in 1 .. z - 1
      <4>1. i \in DOMAIN sg /\ j \in DOMAIN sg /\ sg2[i] = sg[i] /\ sg2[j] = sg[j]
        BY <1>2, <1>9, <3>1
      <4>2. Apart(sg[i], sg[j])
        BY <1>4, <4>1 DEF RangesRight
      <4> QED BY <4>1, <4>2
    <3>2. CASE i \in 1 .. z - 1 /\ sg2[j] \in {left, right}
      BY <1>9, <1>13, <3>2
    <3>3. CASE j \in 1 .. z - 1 /\ sg2[i] \in {left, right}
      BY <1>9, <1>13, <3>3
    <3>4. CASE i \in {z, z + 1} /\ j \in {z, z + 1}
      BY <1>2, <1>9, <1>14, <3>4
    <3> QED BY <1>11, <3>1, <3>2, <3>3, <3>4
  <2> QED BY <2>1, <2>2 DEF RangesRight
<1>16. \A k \in 1 .. n : a <= k /\ k <= b => \A i \in 1 .. z - 1 : ~Inside(k, sg[i])
  <2> SUFFICES ASSUME NEW k \in 1 .. n, a <= k, k <= b, NEW i \in 1 .. z - 1, Inside(k, sg[i]) PROVE FALSE
    OBVIOUS
  <2>1. Apart(sg[i], sg[z]) /\ sg[z][1] = a /\ sg[z][2] = b /\ sg[i][1] \in Int /\ sg[i][2] \in Int
    BY <1>2, <1>3, <1>5, <1>12
  <2> QED BY <1>1, <2>1 DEF Apart, Inside
<1>17. \A k \in 1 .. n : s[k] \in v => lp < k /\ k <= hp /\ u
  BY <1>1, <1>5, <1>6, <1>8 DEF Distinct
<1>18. \A k \in 1 .. n : line2[s[k]] = NoLine \/ line2[s[k]] = line[s[k]]
  BY <1>1, <1>8
<1>19. Whole(line2, s, sg2)
  <2> SUFFICES ASSUME NEW i \in DOMAIN sg2, NEW k \in 1 .. n, Inside(k, sg2[i]) PROVE line2[s[k]] # NoLine
    BY <1>1 DEF Whole
  <2>1. line[s[k]] # NoLine
    <3>1. CASE i \in 1 .. z - 1 /\ sg2[i] = sg[i]
      <4>1. i \in DOMAIN sg /\ k \in DOMAIN s /\ Inside(k, sg[i])
        BY <1>1, <1>2, <3>1
      <4>2. Whole(line, s, sg)
        BY <1>4
      <4> QED BY <4>1, <4>2 DEF Whole
    <3>2. CASE sg2[i] \in {left, right}
      <4>1. a <= k /\ k <= b
        BY <1>1, <1>6, <1>10, <3>2 DEF Inside
      <4> QED BY <1>7, <4>1, SortAssumption DEF NoLine
    <3> QED BY <1>11, <3>1, <3>2
  <2>2. s[k] \notin v
    <3>1. CASE i \in 1 .. z - 1 /\ sg2[i] = sg[i]
      BY <1>1, <1>6, <1>16, <1>17, <3>1
    <3>2. CASE sg2[i] \in {left, right}
      BY <1>1, <1>6, <1>10, <1>17, <3>2 DEF Inside
    <3> QED BY <1>11, <3>1, <3>2
  <2> QED BY <1>1, <1>8, <2>1, <2>2
<1>20. Separated(u, line2, s, sg2)
  <2> SUFFICES ASSUME NEW k \in 1 .. n, NEW l \in 1 .. n, k < l,
                      ~\E i \in DOMAIN sg2 : Inside(k, sg2[i]) /\ Inside(l, sg2[i])
               PROVE  InOrder(u, line2[s[k]], line2[s[l]])
    BY <1>1 DEF Separated
  <2>1. \A i \in 1 .. z - 1 : ~(Inside(k, sg[i]) /\ Inside(l, sg[i]))
    <3>1. \A i \in 1 .. z - 1 : i \in DOMAIN sg2 /\ sg2[i] = sg[i]
      BY <1>2, <1>9
    <3> QED BY <3>1
  <2>2. CASE InOrder(u, line[s[k]], line[s[l]])
    BY <1>18, <2>2 DEF InOrder
  <2>3. CASE Inside(k, r) /\ Inside(l, r)
    <3>1. a <= k /\ k <= b /\ a <= l /\ l <= b
      BY <1>5, <2>3 DEF Inside
    <3>2. ~(Inside(k, left) /\ Inside(l, left)) /\ ~(Inside(k, right) /\ Inside(l, right))
      <4>1. z \in DOMAIN sg2 /\ z + 1 \in DOMAIN sg2
        BY <1>2, <1>9
      <4> QED BY <1>9, <4>1
    <3>3. ~(l < lp) /\ ~(hp < k)
      BY <1>1, <1>6, <1>10, <3>1, <3>2 DEF Inside
    <3>4. lp \in 1 .. n /\ line[s[lp]] \in Lines /\ line[s[k]] \in Lines /\ line[s[l]] \in Lines
      <4>1. lp \in 1 .. n
        BY <1>1, <1>5, <1>6
      <4> QED BY <1>6, <1>7, <3>1, <4>1
    <3> DEFINE x == line[s[k]]
               y == line[s[l]]
               m == line[s[lp]]
    <3>5. CASE k < lp
      <4>1. Cmp(u, x, m) < 0
        BY <1>7, <3>1, <3>5
      <4>2. Cmp(u, y, m) = 0 \/ Cmp(u, m, y) < 0
        BY <1>1, <1>6, <1>7, <3>1, <3>3
      <4> HIDE DEF x, y, m
      <4>3. Cmp(u, x, y) < 0
        <5>1. x \in Lines /\ y \in Lines /\ m \in Lines
          BY <3>4 DEF x, y, m
        <5> QED BY <4>1, <4>2, <5>1, CmpOrder, SMTT(60)
      <4> QED BY <1>18, <4>3 DEF InOrder, x, y
    <3>6. CASE ~(k < lp) /\ l <= hp
      <4>1. CASE u
        <5>1. l \in lp + 1 .. hp
          BY <1>1, <1>6, <3>6
        <5>2. line2[s[l]] = NoLine
          BY <1>1, <1>8, <4>1, <5>1
        <5> QED BY <5>2 DEF InOrder
      <4>2. CASE ~u
        <5>1. Cmp(u, x, m) = 0 /\ Cmp(u, y, m) = 0
          BY <1>1, <1>6, <1>7, <3>6
        <5> HIDE DEF x, y, m
        <5>2. x \in Lines /\ y \in Lines /\ m \in Lines
          BY <3>4 DEF x, y, m
        <5>3. Cmp(u, x, y) = 0
          BY <4>2, <5>1, <5>2, CmpEqual, CmpOrder
        <5> QED BY <1>18, <4>2, <5>3 DEF InOrder, x, y
      <4> QED BY <4>1, <4>2
    <3>7. CASE ~(k < lp) /\ ~(l <= hp)
      <4>1. Cmp(u, x, m) = 0
        BY <1>1, <1>6, <1>7, <3>3, <3>7
      <4>2. Cmp(u, m, y) < 0
        BY <1>1, <1>6, <1>7, <3>1, <3>7
      <4> HIDE DEF x, y, m
      <4>3. Cmp(u, x, y) < 0
        <5>1. x \in Lines /\ y \in Lines /\ m \in Lines
          BY <3>4 DEF x, y, m
        <5> QED BY <4>1, <4>2, <5>1, CmpOrder, SMTT(60)
      <4> QED BY <1>18, <4>3 DEF InOrder, x, y
    <3> QED BY <3>5, <3>6, <3>7
  <2> QED
    <3>1. \A i \in 1 .. z : i = z \/ i \in 1 .. z - 1
      BY <1>2
    <3>2. InOrder(u, line[s[k]], line[s[l]]) \/ \E i \in 1 .. z : Inside(k, sg[i]) /\ Inside(l, sg[i])
      BY <1>1, <1>2, <1>4 DEF Separated
    <3> QED BY <1>2, <2>1, <2>2, <2>3, <3>1, <3>2
<1> QED BY <1>9, <1>15, <1>19, <1>20 DEF Sorting, n, line2, v

-----------------------------------------------------------------------------
(***************************************************************************)
(* Sequences, and the pointer that moves up to where its line belongs.     *)
(***************************************************************************)
\* A function on 1 .. n is a sequence.
LEMMA FunctionSeq ==
  ASSUME NEW D, NEW n \in Nat, NEW f \in [1 .. n -> D]
  PROVE  f \in Seq(D) /\ Len(f) = n /\ DOMAIN f = 1 .. n
OBVIOUS

\* The last element and those before it.
LEMMA FrontLast ==
  ASSUME NEW D, NEW s \in Seq(D), s # << >>
  PROVE  /\ Len(s) \in Nat \ {0} /\ DOMAIN s = 1 .. Len(s) /\ Last(s) = s[Len(s)] /\ Last(s) \in D
         /\ Front(s) \in Seq(D) /\ Len(Front(s)) = Len(s) - 1 /\ DOMAIN Front(s) = 1 .. Len(s) - 1
         /\ \A i \in 1 .. Len(s) - 1 : Front(s)[i] = s[i]
<1> DEFINE z == Len(s)
<1>1. z \in Nat \ {0} /\ DOMAIN s = 1 .. z /\ Last(s) = s[z] /\ s[z] \in D
  BY LenProperties, EmptySeq, ElementOfSeq DEF Last
<1> HIDE DEF z
<1> DEFINE m == z - 1
<1>3. m \in Int /\ \A i \in 1 .. m : s[i] \in D
  BY <1>1, ElementOfSeq DEF z
<1>4. Front(s) = SubSeq(s, 1, m)
  BY DEF Front, z
<1> HIDE DEF m
<1>5. /\ Front(s) \in Seq(D)
      /\ Len(Front(s)) = IF 1 <= m THEN m - 1 + 1 ELSE 0
      /\ \A i \in 1 .. m - 1 + 1 : Front(s)[i] = s[1 + i - 1]
  BY <1>3, <1>4, SubSeqProperties
<1>6. Len(Front(s)) = m /\ \A i \in 1 .. m : Front(s)[i] = s[i]
  BY <1>1, <1>3, <1>5 DEF m
<1>7. DOMAIN Front(s) = 1 .. m
  BY <1>5, <1>6, LenProperties
<1> QED BY <1>1, <1>5, <1>6, <1>7 DEF m, z

\* One element taken out.
LEMMA RemoveFacts ==
  ASSUME NEW D, NEW s \in Seq(D), NEW q \in 1 .. Len(s)
  PROVE  /\ RemoveAt(s, q) \in Seq(D) /\ Len(RemoveAt(s, q)) = Len(s) - 1
         /\ \A k \in 1 .. Len(s) - 1 : RemoveAt(s, q)[k] = IF k < q THEN s[k] ELSE s[k + 1]
<1> DEFINE n == Len(s)
           m == q - 1
           l == q + 1
           x == SubSeq(s, 1, m)
           y == SubSeq(s, l, n)
<1>1. n \in Nat /\ q \in 1 .. n /\ \A i \in 1 .. n : s[i] \in D
  BY LenProperties, ElementOfSeq
<1>2. m \in Int /\ l \in Int /\ m + 1 = q /\ q + 1 = l
  OBVIOUS
<1>3. RemoveAt(s, q) = x \o y
  BY DEF RemoveAt
<1> HIDE DEF n, m, l
<1>4. (\A i \in 1 .. m : s[i] \in D) /\ (\A i \in l .. n : s[i] \in D)
  BY <1>1, <1>2
<1>5. /\ x \in Seq(D) /\ Len(x) = IF 1 <= m THEN m - 1 + 1 ELSE 0
      /\ \A i \in 1 .. m - 1 + 1 : x[i] = s[1 + i - 1]
  BY <1>2, <1>4, SubSeqProperties
<1>6. /\ y \in Seq(D) /\ Len(y) = IF l <= n THEN n - l + 1 ELSE 0
      /\ \A i \in 1 .. n - l + 1 : y[i] = s[l + i - 1]
  BY <1>1, <1>2, <1>4, SubSeqProperties
<1> HIDE DEF x, y
<1>7. Len(x) = m /\ Len(y) = n - q
  BY <1>1, <1>2, <1>5, <1>6
<1>8. (\A i \in 1 .. m : x[i] = s[i]) /\ (\A i \in 1 .. n - q : y[i] = s[q + i])
  <2>1. ASSUME NEW i \in 1 .. m PROVE x[i] = s[i]
    <3>1. i \in 1 .. m - 1 + 1 /\ 1 + i - 1 = i
      BY <1>2
    <3> QED BY <1>5, <3>1
  <2>2. ASSUME NEW i \in 1 .. n - q PROVE y[i] = s[q + i]
    <3>1. i \in 1 .. n - l + 1 /\ l + i - 1 = q + i
      BY <1>1, <1>2
    <3> QED BY <1>6, <3>1
  <2> QED BY <2>1, <2>2
<1>9. /\ x \o y \in Seq(D) /\ Len(x \o y) = Len(x) + Len(y)
      /\ \A i \in 1 .. Len(x) + Len(y) : (x \o y)[i] = IF i <= Len(x) THEN x[i] ELSE y[i - Len(x)]
  BY <1>5, <1>6, ConcatProperties
<1>10. Len(x \o y) = n - 1
  BY <1>1, <1>2, <1>7, <1>9
<1>11. ASSUME NEW k \in 1 .. n - 1 PROVE (x \o y)[k] = IF k < q THEN s[k] ELSE s[k + 1]
  <2>1. k \in 1 .. Len(x) + Len(y)
    BY <1>1, <1>2, <1>7
  <2>2. CASE k < q
    <3>1. k <= m /\ k \in 1 .. m
      BY <1>1, <1>2, <2>2
    <3> QED BY <1>7, <1>8, <1>9, <2>1, <2>2, <3>1
  <2>3. CASE ~(k < q)
    <3>1. ~(k <= m) /\ k - m \in 1 .. n - q /\ q + (k - m) = k + 1
      BY <1>1, <1>2, <2>3
    <3> QED BY <1>7, <1>8, <1>9, <2>1, <2>3, <3>1
  <2> QED BY <2>2, <2>3
<1> QED BY <1>3, <1>9, <1>10, <1>11 DEF n

\* Max, of places.
LEMMA MaxPlace ==
  ASSUME NEW n \in Nat, NEW S \in SUBSET (1 .. n), S # {}
  PROVE  Max(S) \in S /\ \A k \in S : Max(S) >= k
<1> DEFINE T == {n - k : k \in S}
<1>1. T \subseteq Nat /\ T # {}
  <2>1. \A k \in S : n - k \in Nat
    OBVIOUS
  <2>2. PICK k \in S : TRUE
    OBVIOUS
  <2>3. n - k \in T
    OBVIOUS
  <2> QED BY <2>1, <2>3
<1>2. PICK t \in T : \A y \in T : ~(<<y, t>> \in OpToRel(<, Nat))
  <2> HIDE DEF T
  <2>1. \E t \in T : \A y \in T : ~(<<y, t>> \in OpToRel(<, Nat))
    BY <1>1, NatLessThanWellFounded, WFMin
  <2> QED BY <2>1
<1>3. PICK x \in S : t = n - x
  OBVIOUS
<1>4. ASSUME NEW k \in S PROVE x >= k
  <2>1. n - k \in T /\ n - k \in Nat /\ t \in Nat /\ x \in Nat /\ k \in Nat
    BY <1>1
  <2>2. ~(n - k < t)
    BY <1>2, <2>1 DEF OpToRel
  <2> QED BY <1>3, <2>1, <2>2
<1>5. \E z \in S : \A k \in S : z >= k
  BY <1>4
<1> QED BY <1>5 DEF Max

\* compare, for the option of this run.
LEMMA CompareIs == \A x, y : Compare(x, y) = Cmp(opt.u, x, y)
BY DEF Compare, Cmp

\* The pointers b point to lines; the first n of them are sorted; two arrays have the
\* same pointers.
Holding(m, b) == \A k \in 1 .. Len(b) : m[b[k]] \in Lines
SortedTo(u, m, b, n) == \A k, l \in 1 .. n : k < l => Cmp(u, m[b[k]], m[b[l]]) <= 0
SamePointers(s, t) ==
  /\ Len(s) = Len(t)
  /\ \A k \in 1 .. Len(s) : \E l \in 1 .. Len(s) : t[k] = s[l]
  /\ \A l \in 1 .. Len(s) : \E k \in 1 .. Len(s) : t[k] = s[l]

\* The pointers but for the last one are sorted: then all are, the same ones.
LEMMA InsertKeeps ==
  ASSUME NEW D, NEW m \in [D -> Cells], NEW b \in Seq(D), b # << >>, opt.u \in BOOLEAN,
         Holding(m, b), SortedTo(opt.u, m, b, Len(b) - 1)
  PROVE  /\ Insert(b, m) \in Seq(D) /\ SamePointers(b, Insert(b, m))
         /\ Distinct(b) => Distinct(Insert(b, m))
         /\ SortedTo(opt.u, m, Insert(b, m), Len(b))
<1> DEFINE n == Len(b)
           u == opt.u
           st == {1} \cup Stops(b, m)
           to == Max(st)
           t == Insert(b, m)
           x == m[b[n]]
<1>1. n \in Nat \ {0} /\ DOMAIN b = 1 .. n /\ Last(b) = b[n] /\ \A k \in 1 .. n : b[k] \in D
  BY FrontLast, ElementOfSeq
<1>2. \A k \in st : k = 1 \/ (k \in 2 .. n /\ Cmp(u, x, m[b[k - 1]]) >= 0)
  BY <1>1, CompareIs DEF Stops
<1>3. \A k \in 2 .. n : Cmp(u, x, m[b[k - 1]]) >= 0 => k \in st
  BY <1>1, CompareIs DEF Stops
<1>4. t = Moved(b, to)
  BY DEF Insert
<1> HIDE DEF n, st
<1>5. st \in SUBSET (1 .. n) /\ 1 \in st
  <2>1. \A k \in st : k \in 1 .. n
    BY <1>1, <1>2
  <2>2. 1 \in st
    BY DEF st
  <2> QED BY <2>1, <2>2
<1>6. to \in st /\ \A k \in st : to >= k
  BY <1>1, <1>5, MaxPlace
<1> HIDE DEF to
<1>7. to \in 1 .. n
  BY <1>5, <1>6
<1>8. \A k \in 1 .. n : t[k] = IF k < to THEN b[k] ELSE IF k = to THEN b[n] ELSE b[k - 1]
  BY <1>1, <1>4, <1>7 DEF Moved
<1>9. t \in [1 .. n -> D]
  <2>1. t = [k \in 1 .. n |-> t[k]]
    BY <1>1, <1>4 DEF Moved
  <2>2. \A k \in 1 .. n : t[k] \in D
    BY <1>1, <1>7, <1>8
  <2> QED BY <2>1, <2>2
<1> HIDE DEF t
<1>10. t \in Seq(D) /\ Len(t) = n /\ DOMAIN t = 1 .. n
  BY <1>1, <1>9, FunctionSeq
<1> DEFINE w == [k \in 1 .. n |-> IF k < to THEN k ELSE IF k = to THEN n ELSE k - 1]
<1>11. \A k \in 1 .. n : w[k] \in 1 .. n /\ t[k] = b[w[k]]
  BY <1>1, <1>7, <1>8
<1>12. \A k \in 1 .. n : w[k] = IF k < to THEN k ELSE IF k = to THEN n ELSE k - 1
  OBVIOUS
<1> HIDE DEF w
<1>13. \A l \in 1 .. n : \E k \in 1 .. n : w[k] = l
  <2> SUFFICES ASSUME NEW l \in 1 .. n PROVE \E k \in 1 .. n : w[k] = l
    OBVIOUS
  <2>1. CASE l < to
    BY <1>12, <2>1
  <2>2. CASE ~(l < to) /\ l < n
    <3>1. l + 1 \in 1 .. n /\ ~(l + 1 < to) /\ l + 1 # to /\ (l + 1) - 1 = l
      BY <1>1, <1>7, <2>2
    <3> QED BY <1>12, <3>1
  <2>3. CASE l = n
    BY <1>7, <1>12, <2>3
  <2> QED BY <1>1, <2>1, <2>2, <2>3
<1>14. \A k, l \in 1 .. n : w[k] = w[l] => k = l
  BY <1>1, <1>7, <1>12
<1>15. Distinct(b) => Distinct(t)
  BY <1>1, <1>10, <1>11, <1>14 DEF Distinct
<1>16. ASSUME NEW k \in 1 .. n, NEW l \in 1 .. n, k < l
       PROVE  Cmp(u, m[t[k]], m[t[l]]) <= 0
  <2>1. \A i \in 1 .. n : m[b[i]] \in Lines
    BY DEF n, Holding
  <2>2. \A i, j \in 1 .. n : i < j /\ j < n => Cmp(u, m[b[i]], m[b[j]]) <= 0
    <3>1. \A i, j \in 1 .. n - 1 : i < j => Cmp(u, m[b[i]], m[b[j]]) <= 0
      BY DEF n, SortedTo
    <3>2. \A i, j \in 1 .. n : i < j /\ j < n => i \in 1 .. n - 1 /\ j \in 1 .. n - 1
      BY <1>1
    <3> QED BY <3>1, <3>2
  <2>3. CASE k # to /\ l # to
    <3>1. w[k] < w[l] /\ w[l] < n /\ w[k] \in 1 .. n /\ w[l] \in 1 .. n
      BY <1>1, <1>7, <1>12, <1>16, <2>3
    <3> QED BY <1>11, <2>2, <3>1
  <2>4. CASE l = to
    <3>1. k < to /\ to - 1 \in 1 .. n /\ to \in 2 .. n /\ k <= to - 1
      BY <1>1, <1>7, <1>16, <2>4
    <3>2. Cmp(u, x, m[b[to - 1]]) >= 0
      BY <1>2, <1>6, <3>1
    <3>3. k = to - 1 \/ Cmp(u, m[b[k]], m[b[to - 1]]) <= 0
      <4>1. to - 1 < n /\ (k = to - 1 \/ k < to - 1)
        BY <1>1, <1>7, <3>1
      <4> QED BY <2>2, <3>1, <4>1
    <3>4. x \in Lines /\ m[b[to - 1]] \in Lines /\ m[b[k]] \in Lines
      <4>1. n \in 1 .. n
        BY <1>1
      <4> QED BY <2>1, <3>1, <4>1
    <3>5. t[k] = b[k] /\ t[l] = b[n]
      BY <1>8, <2>4, <3>1
    <3> DEFINE y == m[b[to - 1]]
               z == m[b[k]]
    <3>6. y = z \/ Cmp(u, z, y) <= 0
      BY <3>3
    <3>7. Cmp(u, x, y) >= 0 /\ x \in Lines /\ y \in Lines /\ z \in Lines
      BY <3>2, <3>4
    <3> HIDE DEF x, y, z, u
    <3>8. u \in BOOLEAN
      BY DEF u
    <3>9. Cmp(u, z, x) <= 0
      <4>1. Cmp(u, z, y) \in Int /\ Cmp(u, z, y) = -Cmp(u, y, z) /\ Cmp(u, z, x) \in Int
            /\ Cmp(u, z, x) = -Cmp(u, x, z) /\ Cmp(u, x, z) \in Int /\ Cmp(u, y, z) \in Int
        BY <3>7, <3>8, CmpOrder
      <4>2. CASE y = z
        BY <3>7, <4>1, <4>2
      <4>3. CASE Cmp(u, z, y) <= 0
        <5>1. Cmp(u, y, z) >= 0
          BY <4>1, <4>3
        <5>2. Cmp(u, x, z) >= 0
          BY <3>7, <3>8, <5>1, CmpOrder
        <5> QED BY <4>1, <5>2
      <4> QED BY <3>6, <4>2, <4>3
    <3> QED BY <3>5, <3>9 DEF x, z
  <2>5. CASE k = to
    <3>1. l \in 2 .. n /\ l - 1 \in 1 .. n /\ ~(l <= to) /\ l # to /\ ~(l < to)
      BY <1>1, <1>7, <1>16, <2>5
    <3>2. ~(Cmp(u, x, m[b[l - 1]]) >= 0)
      <4>1. l \notin st
        BY <1>5, <1>6, <1>7, <3>1
      <4> QED BY <1>3, <3>1, <4>1
    <3>3. t[k] = b[n] /\ t[l] = b[l - 1]
      BY <1>8, <2>5, <3>1
    <3>4. x \in Lines /\ m[b[l - 1]] \in Lines
      <4>1. n \in 1 .. n
        BY <1>1
      <4> QED BY <2>1, <3>1, <4>1
    <3>5. Cmp(u, x, m[b[l - 1]]) \in Int
      BY <3>4, CmpOrder
    <3>6. Cmp(u, x, m[b[l - 1]]) <= 0
      BY <3>2, <3>5
    <3> QED BY <3>3, <3>6
  <2> QED BY <2>3, <2>4, <2>5
<1>17. \A k \in 1 .. n : \E l \in 1 .. n : t[k] = b[l]
  BY <1>11
<1>18. \A l \in 1 .. n : \E k \in 1 .. n : t[k] = b[l]
  BY <1>11, <1>13
<1> QED BY <1>10, <1>15, <1>16, <1>17, <1>18 DEF n, t, SamePointers, SortedTo

-----------------------------------------------------------------------------
(***************************************************************************)
(* How often a line occurs.                                                *)
(***************************************************************************)
Count(x, s) == Cardinality({i \in DOMAIN s : s[i] = x})

\* Texts with finitely many lines.
Bounded(T) == IsFiniteSet(DOMAIN T) /\ \A f \in DOMAIN T : IsFiniteSet(DOMAIN T[f])

\* The places of x in the text f.
Row(x, T, f) == {f} \X {i \in DOMAIN T[f] : T[f][i] = x}

LEMMA RowCount ==
  ASSUME NEW x, NEW T, Bounded(T), NEW f \in DOMAIN T
  PROVE  /\ IsFiniteSet(Row(x, T, f)) /\ Cardinality(Row(x, T, f)) = Count(x, T[f])
         /\ Count(x, T[f]) \in Nat
<1> DEFINE P == {i \in DOMAIN T[f] : T[f][i] = x}
<1>1. IsFiniteSet(P)
  BY FS_Subset DEF Bounded
<1>2. IsFiniteSet({f}) /\ Cardinality({f}) = 1
  BY FS_Singleton
<1> HIDE DEF P
<1>3. Cardinality(P) \in Nat
  BY <1>1, FS_CardinalityType
<1>4. IsFiniteSet({f} \X P) /\ Cardinality({f} \X P) = 1 * Cardinality(P)
  BY <1>1, <1>2, FS_Product
<1>5. 1 * Cardinality(P) = Cardinality(P)
  BY <1>3
<1> QED BY <1>3, <1>4, <1>5 DEF Row, Count, P

LEMMA PlacesFinite ==
  ASSUME NEW x, NEW T, Bounded(T)
  PROVE  IsFiniteSet(Places(x, T)) /\ Times(x, T) \in Nat
<1> DEFINE g == [f \in DOMAIN T |-> Row(x, T, f)]
           S == {Row(x, T, f) : f \in DOMAIN T}
<1>1. g \in Surjection(DOMAIN T, S)
  BY DEF Surjection
<1>2. IsFiniteSet(S)
  BY <1>1, FS_Surjection DEF Bounded
<1>3. \A q \in S : IsFiniteSet(q)
  BY RowCount
<1>4. Places(x, T) = UNION S
  BY DEF Places, Row
<1> HIDE DEF S
<1>5. IsFiniteSet(Places(x, T))
  BY <1>2, <1>3, <1>4, FS_UNION
<1> QED BY <1>5, FS_CardinalityType DEF Times

\* One text is changed.
LEMMA TimesChanged ==
  ASSUME NEW x, NEW T, NEW U, Bounded(T), Bounded(U), DOMAIN U = DOMAIN T, NEW f \in DOMAIN T,
         \A g \in DOMAIN T : g # f => U[g] = T[g]
  PROVE  Times(x, U) + Count(x, T[f]) = Times(x, T) + Count(x, U[f])
<1> DEFINE other == Places(x, T) \ Row(x, T, f)
<1>1. other = Places(x, U) \ Row(x, U, f)
  BY DEF Places, Row
<1>2. Row(x, T, f) \subseteq Places(x, T) /\ Row(x, U, f) \subseteq Places(x, U)
  BY DEF Places, Row
<1>3. Places(x, T) \cap Row(x, T, f) = Row(x, T, f) /\ Places(x, U) \cap Row(x, U, f) = Row(x, U, f)
  BY <1>2
<1>4. IsFiniteSet(Places(x, T)) /\ IsFiniteSet(Places(x, U)) /\ Times(x, T) \in Nat /\ Times(x, U) \in Nat
  BY PlacesFinite
<1>5. Cardinality(other) = Times(x, T) - Count(x, T[f])
  <2>1. Cardinality(other) = Cardinality(Places(x, T)) - Cardinality(Places(x, T) \cap Row(x, T, f))
    BY <1>4, FS_Difference
  <2>2. Cardinality(Row(x, T, f)) = Count(x, T[f])
    BY RowCount
  <2> QED BY <1>3, <2>1, <2>2 DEF Times
<1>6. Cardinality(other) = Times(x, U) - Count(x, U[f])
  <2>1. Cardinality(Places(x, U) \ Row(x, U, f))
          = Cardinality(Places(x, U)) - Cardinality(Places(x, U) \cap Row(x, U, f))
    BY <1>4, FS_Difference
  <2>2. Cardinality(Row(x, U, f)) = Count(x, U[f])
    BY RowCount
  <2> QED BY <1>1, <1>3, <2>1, <2>2 DEF Times
<1>7. Count(x, T[f]) \in Nat /\ Count(x, U[f]) \in Nat
  BY RowCount
<1> HIDE DEF other
<1> QED BY <1>4, <1>5, <1>6, <1>7

\* A line that is in some text is there at least once.
LEMMA TimesPositive ==
  ASSUME NEW x, NEW T, Bounded(T)
  PROVE  Times(x, T) > 0 <=> \E f \in DOMAIN T : \E i \in DOMAIN T[f] : T[f][i] = x
<1>1. IsFiniteSet(Places(x, T)) /\ Times(x, T) \in Nat
  BY PlacesFinite
<1>2. Times(x, T) = 0 <=> Places(x, T) = {}
  BY <1>1, FS_EmptySet DEF Times
<1>3. ASSUME NEW f \in DOMAIN T, NEW i \in DOMAIN T[f], T[f][i] = x PROVE Places(x, T) # {}
  <2>1. <<f, i>> \in {f} \X {j \in DOMAIN T[f] : T[f][j] = x}
    BY <1>3
  <2>2. <<f, i>> \in Places(x, T)
    BY <2>1 DEF Places
  <2> QED BY <2>2
<1>4. ASSUME NEW q \in Places(x, T) PROVE \E f \in DOMAIN T : \E i \in DOMAIN T[f] : T[f][i] = x
  <2>1. PICK f \in DOMAIN T : q \in {f} \X {j \in DOMAIN T[f] : T[f][j] = x}
    BY DEF Places
  <2> QED BY <2>1
<1> QED BY <1>1, <1>2, <1>3, <1>4

LEMMA CountPositive ==
  ASSUME NEW x, NEW s, IsFiniteSet(DOMAIN s)
  PROVE  Count(x, s) \in Nat /\ (Count(x, s) > 0 <=> \E i \in DOMAIN s : s[i] = x)
<1> DEFINE P == {i \in DOMAIN s : s[i] = x}
<1>1. IsFiniteSet(P)
  BY FS_Subset
<1>2. P # {} <=> \E i \in DOMAIN s : s[i] = x
  OBVIOUS
<1> HIDE DEF P
<1>3. Cardinality(P) \in Nat /\ (Cardinality(P) = 0 <=> P = {})
  BY <1>1, FS_CardinalityType, FS_EmptySet
<1> QED BY <1>2, <1>3 DEF Count, P

\* The same texts, and empty ones.
LEMMA TimesSame ==
  ASSUME NEW x, NEW T, NEW U,
         \A f \in DOMAIN T : f \in DOMAIN U /\ U[f] = T[f],
         \A f \in DOMAIN U : f \notin DOMAIN T => DOMAIN U[f] = {}
  PROVE  Times(x, U) = Times(x, T)
<1>1. Places(x, U) = Places(x, T)
  BY DEF Places
<1> QED BY <1>1 DEF Times

\* All texts but one are empty.
LEMMA TimesOne ==
  ASSUME NEW x, NEW T, Bounded(T), NEW f \in DOMAIN T, \A g \in DOMAIN T : g # f => DOMAIN T[g] = {}
  PROVE  Times(x, T) = Count(x, T[f])
<1>1. Places(x, T) = Row(x, T, f)
  BY DEF Places, Row
<1> QED BY <1>1, RowCount DEF Times

LEMMA TimesNone ==
  ASSUME NEW x, NEW T, \A g \in DOMAIN T : DOMAIN T[g] = {}
  PROVE  Times(x, T) = 0
<1>1. Places(x, T) = {}
  BY DEF Places
<1> QED BY <1>1, FS_EmptySet DEF Times

\* t is s with y in front.
Added(D, y, s, t) ==
  s \in Seq(D) /\ t \in Seq(D) /\ Len(t) = Len(s) + 1 /\ t[1] = y /\ \A i \in 1 .. Len(s) : t[i + 1] = s[i]

LEMMA CountFirst ==
  ASSUME NEW x, NEW y, NEW D, NEW s, NEW t, Added(D, y, s, t)
  PROVE  Count(x, t) = Count(x, s) + (IF x = y THEN 1 ELSE 0) /\ Count(x, s) \in Nat
<1> DEFINE n == Len(s)
           P == {i \in 1 .. n : s[i] = x}
           Q == {i \in 1 .. n + 1 : t[i] = x}
           Q1 == Q \ {1}
           g == [i \in P |-> i + 1]
<1>1. n \in Nat /\ DOMAIN s = 1 .. n /\ DOMAIN t = 1 .. n + 1
  BY LenProperties DEF Added
<1>2. Count(x, s) = Cardinality(P) /\ Count(x, t) = Cardinality(Q)
  BY <1>1 DEF Count
<1>3. IsFiniteSet(P) /\ IsFiniteSet(Q)
  <2>1. IsFiniteSet(1 .. n) /\ IsFiniteSet(1 .. n + 1)
    BY <1>1, FS_Interval
  <2> QED BY <2>1, FS_Subset
<1>4. t[1] = y /\ \A i \in 1 .. n : t[i + 1] = s[i]
  BY DEF Added
<1> HIDE DEF n
<1>5. g \in Bijection(P, Q1)
  <2>1. \A i \in P : i + 1 \in Q1
    BY <1>1, <1>4
  <2>2. \A i, j \in P : g[i] = g[j] => i = j
    BY <1>1
  <2>3. ASSUME NEW q \in Q1 PROVE \E i \in P : g[i] = q
    <3>1. q - 1 \in 1 .. n /\ (q - 1) + 1 = q
      BY <1>1
    <3>2. q - 1 \in P
      BY <1>4, <3>1
    <3> QED BY <3>1, <3>2
  <2> QED BY <2>1, <2>2, <2>3 DEF Bijection, Injection, Surjection, IsInjective
<1>6. Cardinality(Q1) = Cardinality(P)
  BY <1>3, <1>5, FS_Bijection DEF ExistsBijection
<1>7. Cardinality(P) \in Nat /\ Cardinality(Q) \in Nat
  BY <1>3, FS_CardinalityType
<1>8. 1 \in Q <=> x = y
  BY <1>1, <1>4
<1>9. Cardinality(Q1) = IF 1 \in Q THEN Cardinality(Q) - 1 ELSE Cardinality(Q)
  BY <1>3, FS_RemoveElement
<1> HIDE DEF P, Q, Q1
<1> QED BY <1>2, <1>6, <1>7, <1>8, <1>9

\* A line at the end.
LEMMA CountAppend ==
  ASSUME NEW x, NEW y, NEW D, y \in D, NEW s \in Seq(D)
  PROVE  Count(x, Append(s, y)) = Count(x, s) + (IF x = y THEN 1 ELSE 0) /\ Count(x, s) \in Nat
<1> DEFINE n == Len(s)
           t == Append(s, y)
           P == {i \in 1 .. n : s[i] = x}
           Q == {i \in 1 .. n + 1 : t[i] = x}
<1>1. n \in Nat /\ DOMAIN s = 1 .. n
  BY LenProperties
<1>2. t \in Seq(D) /\ Len(t) = n + 1 /\ t[n + 1] = y /\ \A i \in 1 .. n : t[i] = s[i]
  OBVIOUS
<1>3. DOMAIN t = 1 .. n + 1
  BY <1>2, LenProperties
<1> HIDE DEF t
<1>4. Count(x, s) = Cardinality(P) /\ Count(x, t) = Cardinality(Q)
  BY <1>1, <1>3 DEF Count
<1> HIDE DEF n
<1>5. IsFiniteSet(P)
  BY <1>1, FS_Interval, FS_Subset
<1>6. Q = IF x = y THEN P \cup {n + 1} ELSE P
  BY <1>1, <1>2
<1>7. n + 1 \notin P
  BY <1>1
<1> HIDE DEF P, Q
<1>8. Cardinality(P) \in Nat /\ Cardinality(P \cup {n + 1}) = Cardinality(P) + 1
  BY <1>5, <1>7, FS_CardinalityType, FS_AddElement
<1> QED BY <1>4, <1>6, <1>8 DEF t

\* One place fewer.
LEMMA CountLess ==
  ASSUME NEW x, NEW s, IsFiniteSet(DOMAIN s), NEW t, NEW q \in DOMAIN s, DOMAIN t = DOMAIN s \ {q},
         \A p \in DOMAIN t : t[p] = s[p]
  PROVE  Count(x, s) = Count(x, t) + (IF s[q] = x THEN 1 ELSE 0) /\ Count(x, t) \in Nat
<1> DEFINE P == {i \in DOMAIN s : s[i] = x}
           Q == {i \in DOMAIN t : t[i] = x}
<1>1. Q = P \ {q}
  OBVIOUS
<1>2. IsFiniteSet(P) /\ IsFiniteSet(Q)
  BY FS_Subset
<1>3. q \in P <=> s[q] = x
  OBVIOUS
<1>4. Count(x, s) = Cardinality(P) /\ Count(x, t) = Cardinality(Q)
  BY DEF Count
<1> HIDE DEF P, Q
<1>5. Cardinality(P) \in Nat /\ Cardinality(Q) \in Nat
  BY <1>2, FS_CardinalityType
<1>6. Cardinality(P \ {q}) = IF q \in P THEN Cardinality(P) - 1 ELSE Cardinality(P)
  BY <1>2, FS_RemoveElement
<1> QED BY <1>1, <1>3, <1>4, <1>5, <1>6

-----------------------------------------------------------------------------
(***************************************************************************)
(* The invariant that needs no order of the lines.                         *)
(***************************************************************************)
SortPhase == pc \in {"read", "store", "put"} \/ (pc = "qusort" /\ caller = "sort")
Merging == pc \in {"open", "drop", "again", "line", "next", "check", "close"}
             \/ (pc = "qusort" /\ caller = "merge")
States == {"read", "qusort", "store", "put", "plan", "open", "drop", "again", "line", "next", "check", "close", "exit"}
Files(e) == {Stdout} \cup 0 .. e + MaxTemp
Opts == [u : BOOLEAN, m : BOOLEAN, c : BOOLEAN, o : {Stdout, 0}]
Spans == Nat \X Nat

Merged == range[1] .. range[2] - 1   \* the files of the merge
Using == {ibuf[k] : k \in DOMAIN ibuf}   \* the structures in use, or the lines of the chunk

\* The files whose lines are still to be sorted or merged, and what is output.
Live == IF range[2] < nfiles THEN range[2] .. nfiles - 1
        ELSE IF pc = "put" \/ ~SortPhase THEN {Output} ELSE {}

SortTypes ==
  /\ opt \in Opts
  /\ eargc \in Nat \ {0} /\ nfiles \in eargc .. eargc + MaxTemp
  /\ input \in Seq(Seq(Lines)) /\ Len(input) = eargc
  /\ opt.c => eargc = 1 /\ nfiles = 1
  /\ foreign \subseteq Nat \ 0 .. eargc
  /\ disk \in [Files(eargc) -> Seq(Cells)]
  /\ unread \in [1 .. eargc -> Seq(Lines)] /\ is \in 1 .. eargc
  /\ text \in Seq(Cells) /\ mem \in [0 .. N -> Cells] /\ rest \in [0 .. N - 1 -> Seq(Lines)]
  /\ opened \in Nat /\ ibuf \in Seq(Nat) /\ caller \in {"sort", "merge"}
  /\ segs \in Seq(Ranges) /\ part \in Parts
  /\ muflg \in BOOLEAN /\ range \in Spans /\ os \in Files(eargc)
  /\ pc \in States /\ error \in {0, 1} /\ fresh \in BOOLEAN /\ lost \in BOOLEAN
  /\ fault \in {"none", "told", "silent"}

\* The files: those of this sort, others, and names that are free.
FilesRight ==
  /\ \A f \in nfiles .. eargc + MaxTemp : disk[f] = IF f \in foreign THEN << >> ELSE Absent
  /\ \A f \in foreign : f >= nfiles
  /\ \A f \in Live : disk[f] \in Seq(Lines)

\* Which files are read and written.
RangeRight ==
  /\ range[1] <= range[2] /\ range[2] <= nfiles /\ range[2] <= range[1] + N
  /\ ~opt.m /\ ~opt.c => range[1] >= eargc
  /\ SortPhase => ~opt.m /\ ~opt.c /\ range = <<eargc, eargc>> /\ caller = "sort"
  /\ pc = "put" => IF Direct THEN os = Output /\ \A k \in 1 .. eargc : unread[k] = << >>
                             ELSE nfiles > eargc /\ os = nfiles - 1
  /\ SortPhase /\ pc # "read" /\ Done => \A k \in 1 .. eargc : unread[k] = << >>
  /\ ~SortPhase => \A k \in 1 .. eargc : unread[k] = << >>
  /\ SortPhase => \A k \in 1 .. is - 1 : unread[k] = << >>
  /\ Merging => IF range[2] = nfiles THEN os = Output /\ (Output >= 0 => range[1] >= eargc)
                                     ELSE nfiles > eargc /\ os = nfiles - 1
  /\ Merging /\ pc # "close" => range[1] < range[2]
  /\ Merging => caller = "merge"

\* The streams: which structures are in use.
StreamsRight ==
  /\ pc \in {"qusort", "store", "put"} \/ Merging => Distinct(ibuf)
  /\ pc \in {"qusort", "store", "put"} /\ caller = "sort" => Using \subseteq 1 .. Len(text)
  /\ pc \in {"qusort", "store"} /\ caller = "sort" => Using = 1 .. Len(text)
  /\ pc = "read" => text \in Seq(Lines)
  /\ Merging => Using \subseteq 0 .. Prev - 1 /\ opened <= Prev
  /\ pc = "open" => \A p \in opened .. Prev - 1 : disk[range[1] + p] \in Seq(Lines)
  /\ pc = "open" => Using \subseteq 0 .. opened - 1 /\ \A p \in Using : mem[p] # NoLine
  /\ Merging /\ pc # "open" => opened = Prev
  /\ pc \in {"line", "next", "check"} => ibuf # << >> /\ \A p \in Using : mem[p] # NoLine
  /\ pc = "close" => ibuf = << >>

\* The pointers are in order as far as they are sorted.
PointersRight ==
  /\ pc = "qusort" =>
       Sorting(opt.u, IF caller = "sort" THEN text ELSE mem, ibuf, segs, part)
  /\ pc \in {"store", "put"} => Descending(opt.u, text, ibuf)
  /\ pc = "drop" => Descending(opt.u, mem, ibuf)
  /\ pc \in {"line", "next", "check"} =>
       \A k, l \in DOMAIN ibuf : k < l => Cmp(opt.u, mem[ibuf[k]], mem[ibuf[l]]) <= 0

\* The part that needs no order of the lines.
Base ==
  /\ SortTypes
  /\ pc # "exit" => FilesRight /\ RangeRight /\ StreamsRight /\ PointersRight

-----------------------------------------------------------------------------
(***************************************************************************)
(* Types.                                                                  *)
(***************************************************************************)
LEMMA Numbers ==
  /\ N \in Nat \ {0} /\ Chunk \in Nat \ {0} /\ MaxTemp \in Nat
  /\ Lines \subseteq Nat \ {0} /\ Lines \subseteq Cells /\ NoLine \in Cells /\ NoLine \notin Lines
  /\ \A c \in Cells : c = NoLine \/ c \in Lines
  /\ Absent \in Seq(Cells) /\ << >> \in Seq(Cells) /\ \A s \in Seq(Lines) : s \in Seq(Cells)
  /\ << >> \in Seq(Lines)
<1>1. Lines \subseteq Nat \ {0} /\ N \in Nat \ {0} /\ Chunk \in Nat \ {0} /\ MaxTemp \in Nat
  BY SortAssumption
<1>2. Lines \subseteq Cells /\ NoLine \in Cells /\ NoLine \notin Lines /\ \A c \in Cells : c = NoLine \/ c \in Lines
  BY <1>1 DEF Cells, NoLine
<1>3. Absent \in Seq(Cells)
  BY <1>2 DEF Absent
<1>4. \A s \in Seq(Lines) : s \in Seq(Cells)
  BY <1>2, SeqMonotonic
<1> QED BY <1>1, <1>2, <1>3, <1>4

LEMMA OptFields ==
  ASSUME SortTypes
  PROVE  opt.u \in BOOLEAN /\ opt.m \in BOOLEAN /\ opt.c \in BOOLEAN /\ opt.o \in {Stdout, 0}
BY DEF SortTypes, Opts

LEMMA SpanFields ==
  /\ \A r \in Spans : r[1] \in Nat /\ r[2] \in Nat
  /\ \A a, b \in Nat : <<a, b>> \in Spans /\ <<a, b>>[1] = a /\ <<a, b>>[2] = b
BY DEF Spans

LEMMA FileNames ==
  ASSUME SortTypes
  PROVE  /\ Output \in Files(eargc) /\ Stdout \in Files(eargc)
         /\ \A f \in 0 .. eargc + MaxTemp : f \in Files(eargc)
         /\ \A f \in Files(eargc) : f = Stdout \/ f \in 0 .. eargc + MaxTemp
         /\ DOMAIN disk = Files(eargc) /\ \A f \in Files(eargc) : disk[f] \in Seq(Cells)
         /\ nfiles \in eargc .. eargc + MaxTemp /\ eargc \in Nat \ {0}
<1>1. Output \in {Stdout, 0}
  BY OptFields DEF Output
<1>2. eargc \in Nat /\ MaxTemp \in Nat
  BY Numbers DEF SortTypes
<1> QED BY <1>1, <1>2 DEF SortTypes, Files

\* A file is written.
LEMMA DiskTypes ==
  ASSUME SortTypes, NEW f \in Files(eargc), NEW s \in Seq(Cells)
  PROVE  /\ [disk EXCEPT ![f] = s] \in [Files(eargc) -> Seq(Cells)]
         /\ \A g \in Files(eargc) : [disk EXCEPT ![f] = s][g] = IF g = f THEN s ELSE disk[g]
BY DEF SortTypes

\* Files are removed.
LEMMA RemovedTypes ==
  ASSUME SortTypes, NEW S
  PROVE  [f \in DOMAIN disk |-> IF f \in S THEN Absent ELSE disk[f]] \in [Files(eargc) -> Seq(Cells)]
BY Numbers DEF SortTypes

-----------------------------------------------------------------------------
(***************************************************************************)
(* qusort.                                                                 *)
(***************************************************************************)
Memory == IF caller = "sort" THEN text ELSE mem

\* The pointers point into the memory.
LEMMA MemoryFacts ==
  ASSUME Base, pc = "qusort"
  PROVE  /\ Memory \in [DOMAIN Memory -> Cells] /\ DOMAIN Memory \subseteq Nat
         /\ ibuf \in Seq(DOMAIN Memory) /\ Distinct(ibuf)
         /\ \A p : Line(p) = Memory[p]
         /\ Sorting(opt.u, Memory, ibuf, segs, part)
<1>1. SortTypes /\ RangeRight /\ StreamsRight /\ PointersRight
  BY DEF Base
<1>2. text \in Seq(Cells) /\ mem \in [0 .. N -> Cells] /\ caller \in {"sort", "merge"} /\ ibuf \in Seq(Nat)
  BY <1>1 DEF SortTypes
<1>3. Memory \in [DOMAIN Memory -> Cells] /\ DOMAIN Memory \subseteq Nat
  <2>1. text \in [1 .. Len(text) -> Cells] /\ Len(text) \in Nat
    BY <1>2, LenProperties
  <2> QED BY <1>2, <2>1, Numbers DEF Memory
<1>4. Distinct(ibuf) /\ Sorting(opt.u, Memory, ibuf, segs, part)
  BY <1>1 DEF StreamsRight, PointersRight, Memory
<1>5. \A p : Line(p) = Memory[p]
  BY DEF Line, Memory
<1>6. Using \subseteq DOMAIN Memory
  <2>1. CASE caller = "sort"
    <3>1. Using \subseteq 1 .. Len(text)
      BY <1>1, <2>1 DEF StreamsRight
    <3> QED BY <1>2, <2>1, <3>1, LenProperties DEF Memory
  <2>2. CASE caller = "merge"
    <3>1. Using \subseteq 0 .. Prev - 1
      BY <1>1, <2>2 DEF StreamsRight, Merging
    <3>2. range[2] <= range[1] + N /\ range[1] \in Nat /\ range[2] \in Nat
      BY <1>1, SpanFields DEF RangeRight, SortTypes
    <3>3. 0 .. Prev - 1 \subseteq 0 .. N
      BY <3>2, Numbers DEF Prev
    <3>4. DOMAIN Memory = 0 .. N
      BY <1>2, <2>2 DEF Memory
    <3> QED BY <3>1, <3>3, <3>4
  <2> QED BY <1>2, <2>1, <2>2
<1>7. ibuf \in Seq(DOMAIN Memory)
  <2>1. ibuf \in [1 .. Len(ibuf) -> Nat] /\ Len(ibuf) \in Nat /\ DOMAIN ibuf = 1 .. Len(ibuf)
    BY <1>2, LenProperties
  <2>2. \A k \in 1 .. Len(ibuf) : ibuf[k] \in DOMAIN Memory
    BY <1>6, <2>1 DEF Using
  <2>3. ibuf \in [1 .. Len(ibuf) -> DOMAIN Memory]
    BY <2>1, <2>2
  <2> QED BY <2>1, <2>3, FunctionSeq
<1> QED BY <1>3, <1>4, <1>5, <1>7

\* The part being sorted.
LEMMA PartFacts ==
  ASSUME NEW u \in BOOLEAN, NEW D, NEW line \in [D -> Cells], NEW s \in Seq(D),
         NEW sg \in Seq(Ranges), NEW p, p # Idle, Sorting(u, line, s, sg, p)
  PROVE  /\ sg # << >> /\ Last(sg) \in Ranges /\ 1 <= Last(sg)[1] /\ Last(sg)[2] <= Len(s)
         /\ PartLines(line, s, Last(sg)) /\ PartRight(u, line, s, Last(sg), p)
<1>1. sg # << >> /\ PartRight(u, line, s, Last(sg), p) /\ RangesRight(Len(s), sg) /\ Whole(line, s, sg)
  BY DEF Sorting
<1>2. Len(sg) \in DOMAIN sg /\ Last(sg) = sg[Len(sg)] /\ Last(sg) \in Ranges
  <2>1. Len(sg) \in Nat \ {0} /\ DOMAIN sg = 1 .. Len(sg) /\ Last(sg) = sg[Len(sg)] /\ Last(sg) \in Ranges
    BY <1>1, LastRange
  <2> QED BY <2>1
<1>3. 1 <= Last(sg)[1] /\ Last(sg)[2] <= Len(s)
  BY <1>1, <1>2 DEF RangesRight
<1>4. PartLines(line, s, Last(sg))
  <2> SUFFICES ASSUME NEW k \in DOMAIN s, Inside(k, Last(sg)) PROVE line[s[k]] \in Lines
    BY DEF PartLines
  <2>1. line[s[k]] # NoLine
    BY <1>1, <1>2 DEF Whole
  <2>2. s[k] \in D
    BY LenProperties, ElementOfSeq
  <2> QED BY <2>1, <2>2 DEF Cells
<1> QED BY <1>1, <1>2, <1>3, <1>4

\* The pointers moved within the part.
LEMMA MovedKeeps ==
  ASSUME NEW u \in BOOLEAN, NEW D, NEW line \in [D -> Cells], NEW s \in Seq(D), NEW t \in Seq(D),
         NEW sg \in Seq(Ranges), NEW p, p # Idle, Sorting(u, line, s, sg, p),
         Permuted(s, t, Last(sg)), NEW q, PartRight(u, line, t, Last(sg), q)
  PROVE  Sorting(u, line, t, sg, q)
<1>1. sg # << >> /\ RangesRight(Len(s), sg) /\ Separated(u, line, s, sg) /\ Whole(line, s, sg)
  BY DEF Sorting
<1>2. RangesRight(Len(t), sg) /\ Separated(u, line, t, sg) /\ Whole(line, t, sg)
  BY <1>1, PermutedKeeps
<1> QED BY <1>1, <1>2 DEF Sorting

LEMMA PermutedSame == ASSUME NEW s, NEW r PROVE Permuted(s, s, r)
BY DEF Permuted

\* for(;;)
LEMMA LoopStep ==
  ASSUME Base, QusortLoop
  PROVE  /\ ibuf' \in Seq(DOMAIN Memory) /\ part' \in Parts /\ Permuted(ibuf, ibuf', Last(segs))
         /\ Sorting(opt.u, Memory, ibuf', segs, part')
<1> DEFINE u == opt.u
           D == DOMAIN Memory
           r == Last(segs)
           c(k, l) == Cmp(u, Memory[ibuf[k]], Memory[ibuf[l]])
<1>1. pc = "qusort" /\ part # Idle /\ (QusortLeft \/ QusortRight \/ QusortTurn)
  BY DEF QusortLoop
<1>2. /\ Memory \in [D -> Cells] /\ ibuf \in Seq(D) /\ Sorting(u, Memory, ibuf, segs, part)
      /\ \A p : Line(p) = Memory[p]
  BY <1>1, MemoryFacts
<1>3. u \in BOOLEAN /\ segs \in Seq(Ranges) /\ part \in Parts
  BY OptFields DEF Base, SortTypes
<1>4. \A k, l : CompareAt(k, l) = c(k, l)
  BY <1>2, CompareIs DEF CompareAt
<1> HIDE DEF u, D
<1>5. /\ r \in Ranges /\ 1 <= r[1] /\ r[2] <= Len(ibuf)
      /\ PartLines(Memory, ibuf, r) /\ PartRight(u, Memory, ibuf, r, part)
  BY <1>1, <1>2, <1>3, PartFacts
<1> HIDE DEF r
<1>6. /\ part.i \in 1 .. Len(ibuf) /\ part.lp \in 1 .. Len(ibuf) /\ part.hp \in 1 .. Len(ibuf) /\ part.j \in 1 .. Len(ibuf)
      /\ Inside(part.i, r) /\ Inside(part.lp, r) /\ Inside(part.hp, r) /\ Inside(part.j, r)
      /\ \A k \in 1 .. Len(ibuf) : Inside(k, r) => Memory[ibuf[k]] \in Lines
  BY <1>2, <1>3, <1>5, RightIsAbout
<1>7. \A k, l \in 1 .. Len(ibuf) : Inside(k, r) /\ Inside(l, r) => c(k, l) \in Int
  BY <1>3, <1>6, CmpOrder
<1>8. part.i <= part.lp /\ (~part.top /\ part.i < part.lp => c(part.i, part.lp) > 0)
  BY <1>5 DEF PartRight
<1> HIDE DEF c
<1>9. ~LeftEqual /\ ~LeftLarger => (part.i < part.lp => c(part.i, part.lp) > 0)
  <2> SUFFICES ASSUME ~LeftEqual, ~LeftLarger, part.i < part.lp, part.top PROVE c(part.i, part.lp) > 0
    BY <1>8
  <2>1. c(part.i, part.lp) # 0 /\ ~(c(part.i, part.lp) < 0)
    BY <1>4 DEF LeftEqual, LeftLarger, LeftIs
  <2>2. c(part.i, part.lp) \in Int
    BY <1>6, <1>7
  <2> QED BY <2>1, <2>2
<1>10. ASSUME NEW t \in Seq(D), NEW q \in Parts, ibuf' = t, part' = q,
              Permuted(ibuf, t, r), PartRight(u, Memory, t, r, q)
       PROVE  /\ ibuf' \in Seq(D) /\ part' \in Parts /\ Permuted(ibuf, ibuf', r)
              /\ Sorting(u, Memory, ibuf', segs, part')
  BY <1>1, <1>2, <1>3, <1>10, MovedKeeps DEF r
<1>11. CASE LeftEqual /\ ibuf' = Swap(ibuf, part.i, part.lp - 1) /\ part' = [part EXCEPT !.lp = @ - 1]
  <2>1. part.top /\ part.i < part.lp /\ Cmp(u, Memory[ibuf[part.i]], Memory[ibuf[part.lp]]) = 0
    BY <1>4, <1>11 DEF LeftEqual, LeftIs, c
  <2>2. /\ PartRight(u, Memory, Swap(ibuf, part.i, part.lp - 1), r, [part EXCEPT !.lp = @ - 1])
        /\ [part EXCEPT !.lp = @ - 1] \in Parts
        /\ Permuted(ibuf, Swap(ibuf, part.i, part.lp - 1), r) /\ Swap(ibuf, part.i, part.lp - 1) \in Seq(D)
    BY <1>2, <1>3, <1>5, <2>1, LeftEqualKeeps
  <2> QED BY <1>10, <1>11, <2>2 DEF u, D, r
<1>12. CASE LeftLarger /\ part' = [part EXCEPT !.i = @ + 1] /\ ibuf' = ibuf
  <2>1. part.top /\ part.i < part.lp /\ Cmp(u, Memory[ibuf[part.i]], Memory[ibuf[part.lp]]) < 0
    BY <1>4, <1>12 DEF LeftLarger, LeftIs, c
  <2>2. PartRight(u, Memory, ibuf, r, [part EXCEPT !.i = @ + 1]) /\ [part EXCEPT !.i = @ + 1] \in Parts
    BY <1>2, <1>3, <1>5, <2>1, LeftLargerKeeps
  <2>3. Permuted(ibuf, ibuf, r)
    BY PermutedSame
  <2> QED BY <1>2, <1>10, <1>12, <2>2, <2>3 DEF u, D, r
<1>13. CASE /\ ~LeftEqual /\ ~LeftLarger /\ part.j > part.hp /\ CompareAt(part.hp, part.j) = 0
            /\ ibuf' = Swap(ibuf, part.hp + 1, part.j) /\ part' = [part EXCEPT !.hp = @ + 1, !.top = FALSE]
  <2>1. /\ part.j > part.hp /\ Cmp(u, Memory[ibuf[part.hp]], Memory[ibuf[part.j]]) = 0
        /\ part.i < part.lp => Cmp(u, Memory[ibuf[part.i]], Memory[ibuf[part.lp]]) > 0
    BY <1>4, <1>9, <1>13 DEF c
  <2>2. /\ PartRight(u, Memory, Swap(ibuf, part.hp + 1, part.j), r, [part EXCEPT !.hp = @ + 1, !.top = FALSE])
        /\ [part EXCEPT !.hp = @ + 1, !.top = FALSE] \in Parts
        /\ Permuted(ibuf, Swap(ibuf, part.hp + 1, part.j), r) /\ Swap(ibuf, part.hp + 1, part.j) \in Seq(D)
    BY <1>2, <1>3, <1>5, <2>1, RightEqualKeeps
  <2> QED BY <1>10, <1>13, <2>2 DEF u, D, r
<1>14. CASE /\ ~LeftEqual /\ ~LeftLarger /\ part.j > part.hp /\ CompareAt(part.hp, part.j) > 0 /\ part.i = part.lp
            /\ ibuf' = Turn(ibuf, part.i, part.hp + 1, part.j)
            /\ part' = [part EXCEPT !.i = part.lp + 1, !.lp = @ + 1, !.hp = @ + 1, !.top = FALSE]
  <2>1. part.j > part.hp /\ Cmp(u, Memory[ibuf[part.hp]], Memory[ibuf[part.j]]) > 0
    BY <1>4, <1>14 DEF c
  <2>2. /\ PartRight(u, Memory, Turn(ibuf, part.i, part.hp + 1, part.j), r,
                     [part EXCEPT !.i = part.lp + 1, !.lp = @ + 1, !.hp = @ + 1, !.top = FALSE])
        /\ [part EXCEPT !.i = part.lp + 1, !.lp = @ + 1, !.hp = @ + 1, !.top = FALSE] \in Parts
        /\ Permuted(ibuf, Turn(ibuf, part.i, part.hp + 1, part.j), r)
        /\ Turn(ibuf, part.i, part.hp + 1, part.j) \in Seq(D)
    BY <1>2, <1>3, <1>5, <1>14, <2>1, RightTurnKeeps
  <2> QED BY <1>10, <1>14, <2>2 DEF u, D, r
<1>15. CASE /\ ~LeftEqual /\ ~LeftLarger /\ part.j > part.hp /\ CompareAt(part.hp, part.j) > 0 /\ part.i # part.lp
            /\ ibuf' = Swap(ibuf, part.i, part.j)
            /\ part' = [part EXCEPT !.i = @ + 1, !.j = @ - 1, !.top = TRUE]
  <2>1. /\ part.j > part.hp /\ Cmp(u, Memory[ibuf[part.hp]], Memory[ibuf[part.j]]) > 0
        /\ part.i < part.lp /\ (part.i < part.lp => Cmp(u, Memory[ibuf[part.i]], Memory[ibuf[part.lp]]) > 0)
    BY <1>4, <1>6, <1>8, <1>9, <1>15 DEF c
  <2>2. /\ PartRight(u, Memory, Swap(ibuf, part.i, part.j), r, [part EXCEPT !.i = @ + 1, !.j = @ - 1, !.top = TRUE])
        /\ [part EXCEPT !.i = @ + 1, !.j = @ - 1, !.top = TRUE] \in Parts
        /\ Permuted(ibuf, Swap(ibuf, part.i, part.j), r) /\ Swap(ibuf, part.i, part.j) \in Seq(D)
    BY <1>2, <1>3, <1>5, <2>1, RightSwapKeeps
  <2> QED BY <1>10, <1>15, <2>2 DEF u, D, r
<1>16. CASE /\ ~LeftEqual /\ ~LeftLarger /\ part.j > part.hp /\ CompareAt(part.hp, part.j) < 0
            /\ part' = [part EXCEPT !.j = @ - 1, !.top = FALSE] /\ ibuf' = ibuf
  <2>1. /\ part.j > part.hp /\ Cmp(u, Memory[ibuf[part.hp]], Memory[ibuf[part.j]]) < 0
        /\ part.i < part.lp => Cmp(u, Memory[ibuf[part.i]], Memory[ibuf[part.lp]]) > 0
    BY <1>4, <1>9, <1>16 DEF c
  <2>2. /\ PartRight(u, Memory, ibuf, r, [part EXCEPT !.j = @ - 1, !.top = FALSE])
        /\ [part EXCEPT !.j = @ - 1, !.top = FALSE] \in Parts
    BY <1>2, <1>3, <1>5, <2>1, RightSmallerKeeps
  <2>3. Permuted(ibuf, ibuf, r)
    BY PermutedSame
  <2> QED BY <1>2, <1>10, <1>16, <2>2, <2>3 DEF u, D, r
<1>17. CASE /\ BothDone /\ part.i # part.lp /\ ibuf' = Turn(ibuf, part.j, part.lp - 1, part.i)
            /\ part' = [part EXCEPT !.lp = @ - 1, !.hp = @ - 1, !.j = part.hp - 1, !.top = TRUE]
  <2>1. /\ part.j <= part.hp /\ part.i < part.lp
        /\ Cmp(u, Memory[ibuf[part.i]], Memory[ibuf[part.lp]]) > 0
    BY <1>6, <1>8, <1>9, <1>17 DEF c, BothDone
  <2>2. /\ PartRight(u, Memory, Turn(ibuf, part.j, part.lp - 1, part.i), r,
                     [part EXCEPT !.lp = @ - 1, !.hp = @ - 1, !.j = part.hp - 1, !.top = TRUE])
        /\ [part EXCEPT !.lp = @ - 1, !.hp = @ - 1, !.j = part.hp - 1, !.top = TRUE] \in Parts
        /\ Permuted(ibuf, Turn(ibuf, part.j, part.lp - 1, part.i), r)
        /\ Turn(ibuf, part.j, part.lp - 1, part.i) \in Seq(D)
    BY <1>2, <1>3, <1>5, <2>1, LeftTurnKeeps
  <2> QED BY <1>10, <1>17, <2>2 DEF u, D, r
<1> QED BY <1>1, <1>11, <1>12, <1>13, <1>14, <1>15, <1>16, <1>17 DEF QusortLeft, QusortRight, QusortTurn, RightIs

\* The part is done.
LEMMA PartedStep ==
  ASSUME Base, QusortParted
  PROVE  /\ segs' \in Seq(Ranges) /\ part' = Idle /\ ibuf' = ibuf
         /\ text' = (IF caller = "sort" THEN VoidedBy(text, Doubles) ELSE text)
         /\ mem' = (IF caller = "sort" THEN mem ELSE VoidedBy(mem, Doubles))
         /\ Sorting(opt.u, Memory', ibuf', segs', part')
         /\ Doubles \subseteq Using
         /\ \A p \in Doubles : \E q \in Using \ Doubles :
              Memory[p] \in Lines /\ Memory[q] \in Lines /\ Cmp(opt.u, Memory[p], Memory[q]) = 0
         /\ ~opt.u => Doubles = {}
<1> DEFINE u == opt.u
           r == Last(segs)
           a == r[1]
           b == r[2]
           left == <<a, part.lp - 1>>
           right == <<part.hp + 1, b>>
<1>1. pc = "qusort" /\ part # Idle /\ BothDone /\ part.i = part.lp /\ part' = Idle /\ ibuf' = ibuf
  BY DEF QusortParted
<1>2. /\ Memory \in [DOMAIN Memory -> Cells] /\ ibuf \in Seq(DOMAIN Memory) /\ Distinct(ibuf)
      /\ Sorting(u, Memory, ibuf, segs, part)
  BY <1>1, MemoryFacts
<1>3. u \in BOOLEAN /\ segs \in Seq(Ranges) /\ part \in Parts
  BY OptFields DEF Base, SortTypes
<1>4. part.j <= part.hp /\ PartDone(part)
  BY <1>1 DEF BothDone, PartDone
<1>5. segs' \in Replaced(segs, left, right)
  BY DEF QusortParted, Replaced
<1> HIDE DEF u
<1>6. /\ segs # << >> /\ r \in Ranges /\ 1 <= r[1] /\ r[2] <= Len(ibuf)
      /\ PartLines(Memory, ibuf, r) /\ PartRight(u, Memory, ibuf, r, part)
  BY <1>1, <1>2, <1>3, PartFacts
<1> HIDE DEF r
<1>7. a \in Int /\ b \in Int /\ part.lp \in Int /\ part.hp \in Int
  BY <1>3, <1>6 DEF Ranges, Parts
<1>8. RangeIs(r, a, b) /\ RangeIs(left, a, part.lp - 1) /\ RangeIs(right, part.hp + 1, b)
  BY DEF RangeIs
<1>9. left \in Ranges /\ right \in Ranges
  BY <1>7 DEF Ranges
<1> HIDE DEF left, right, a, b
<1>10. Doubles = Equals(u, ibuf, part)
  BY DEF Doubles, Equals, u
<1>11. segs' \in Seq(Ranges) /\ Sorting(u, VoidedBy(Memory, Doubles), ibuf, segs', Idle)
  BY <1>1, <1>2, <1>3, <1>4, <1>5, <1>6, <1>7, <1>8, <1>9, <1>10, PartedKeeps DEF r
<1>12. \A f : Voided(f) = VoidedBy(f, Doubles)
  BY DEF Voided, VoidedBy
<1>13. /\ text' = (IF caller = "sort" THEN VoidedBy(text, Doubles) ELSE text)
       /\ mem' = (IF caller = "sort" THEN mem ELSE VoidedBy(mem, Doubles))
       /\ caller' = caller
  BY <1>12 DEF QusortParted
<1>14. Memory' = VoidedBy(Memory, Doubles)
  BY <1>13 DEF Memory
<1>15. /\ part.lp \in 1 .. Len(ibuf) /\ part.hp \in 1 .. Len(ibuf) /\ part.lp <= part.hp
       /\ Inside(part.lp, r) /\ Inside(part.hp, r)
  <2>1. part.lp <= part.hp
    BY <1>6 DEF PartRight
  <2> QED BY <1>2, <1>3, <1>6, <2>1, RightIsAbout
<1>16. DOMAIN ibuf = 1 .. Len(ibuf) /\ Len(ibuf) \in Nat
  BY <1>2, LenProperties
<1>17. \A k \in part.lp + 1 .. part.hp : k \in 1 .. Len(ibuf) /\ Inside(k, r)
  <2> DEFINE lp == part.lp
             hp == part.hp
             n == Len(ibuf)
  <2>1. lp \in 1 .. n /\ hp \in 1 .. n /\ Inside(lp, r) /\ Inside(hp, r) /\ n \in Nat
    BY <1>15, <1>16
  <2>2. r[1] \in Int /\ r[2] \in Int
    BY <1>6 DEF Ranges
  <2> HIDE DEF lp, hp, n
  <2>3. \A k \in lp + 1 .. hp : k \in 1 .. n /\ Inside(k, r)
    BY <2>1, <2>2 DEF Inside
  <2> QED BY <2>3 DEF lp, hp, n
<1>18. Doubles \subseteq Using
  BY <1>16, <1>17 DEF Doubles, Using
<1>19. \A p \in Doubles : \E q \in Using \ Doubles :
         Memory[p] \in Lines /\ Memory[q] \in Lines /\ Cmp(u, Memory[p], Memory[q]) = 0
  <2> SUFFICES ASSUME NEW p \in Doubles
               PROVE  \E q \in Using \ Doubles :
                        Memory[p] \in Lines /\ Memory[q] \in Lines /\ Cmp(u, Memory[p], Memory[q]) = 0
    OBVIOUS
  <2>1. PICK k \in part.lp + 1 .. part.hp : p = ibuf[k]
    BY DEF Doubles
  <2>2. ibuf[part.lp] \in Using \ Doubles
    <3>1. ibuf[part.lp] \in Using
      BY <1>15, <1>16 DEF Using
    <3>2. ASSUME NEW l \in part.lp + 1 .. part.hp PROVE ibuf[l] # ibuf[part.lp]
      <4>1. l \in DOMAIN ibuf /\ part.lp \in DOMAIN ibuf /\ l # part.lp
        BY <1>7, <1>15, <1>16, <1>17
      <4> QED BY <1>2, <4>1 DEF Distinct
    <3> QED BY <3>1, <3>2 DEF Doubles
  <2>3. Memory[p] \in Lines /\ Memory[ibuf[part.lp]] \in Lines
    BY <1>6, <1>15, <1>16, <1>17, <2>1 DEF PartLines
  <2>4. Cmp(u, Memory[p], Memory[ibuf[part.lp]]) = 0
    <3>1. k \in DOMAIN ibuf /\ part.lp <= k /\ k <= part.hp
      BY <1>7, <1>16, <1>17, <2>1
    <3> QED BY <1>6, <2>1, <3>1 DEF PartRight
  <2> QED BY <2>2, <2>3, <2>4
<1>20. ~u => Doubles = {}
  BY DEF Doubles, u
<1> QED BY <1>1, <1>11, <1>13, <1>14, <1>18, <1>19, <1>20 DEF u

-----------------------------------------------------------------------------
(***************************************************************************)
(* Types.                                                                  *)
(***************************************************************************)

\* qusort is called.
LEMMA SortCalled ==
  ASSUME NEW b \in Seq(Nat), Sort(b)
  PROVE  ibuf' \in Seq(Nat) /\ segs' \in Seq(Ranges) /\ part' \in Parts /\ pc' = "qusort" /\ part' = Idle
<1>1. Len(b) \in Nat
  BY LenProperties
<1>2. <<1, Len(b)>> \in Ranges
  BY <1>1 DEF Ranges
<1>3. <<<<1, Len(b)>>>> \in Seq(Ranges)
  BY <1>2
<1>4. Idle \in Parts
  BY DEF Idle, Parts
<1> QED BY <1>3, <1>4 DEF Sort

\* A line is put on file.
LEMMA WrittenTypes ==
  ASSUME SortTypes, NEW f \in Files(eargc), NEW x \in Cells
  PROVE  [disk EXCEPT ![f] = Append(@, x)] \in [Files(eargc) -> Seq(Cells)]
BY FileNames DEF SortTypes

\* Whatever the buffer reads as.
LEMMA PrevTypes ==
  ASSUME SortTypes, NEW p, PrevReads(p)
  PROVE  mem' \in [0 .. N -> Cells]
BY DEF PrevReads, SortTypes, Cells

\* What is left of a text that is cut is a text.
LEMMA CutText ==
  ASSUME NEW D, Lines \subseteq D, NEW s \in Seq(D), NEW t \in Cuts(s)
  PROVE  t \in Seq(D)
<1>1. ASSUME NEW n \in 0 .. Len(s) - 1 PROVE SubSeq(s, 1, n) \in Seq(D)
  <2>1. Len(s) \in Nat /\ n \in Nat /\ n <= Len(s) /\ n + 1 <= Len(s) + 1
    BY LenProperties
  <2>2. \A k \in 1 .. n : s[k] \in D
    BY <2>1, ElementOfSeq
  <2>3. SubSeq(s, 1, n) = [k \in 1 .. n |-> s[k]]
    BY <2>1, SubSeqProperties, LenProperties
  <2>4. [k \in 1 .. n |-> s[k]] \in [1 .. n -> D]
    BY <2>2
  <2> QED BY <2>1, <2>3, <2>4, FunctionSeq
<1>2. PICK n \in 0 .. Len(s) - 1 : t = SubSeq(s, 1, n) \/ \E x \in Lines : t = Append(SubSeq(s, 1, n), x)
  BY DEF Cuts
<1> QED BY <1>1, <1>2, AppendProperties

\* So is the disk.
LEMMA CutTypes ==
  ASSUME SortTypes, NEW s \in Cuts(disk[os])
  PROVE  [disk EXCEPT ![os] = s] \in [Files(eargc) -> Seq(Cells)]
<1>1. disk[os] \in Seq(Cells) /\ disk \in [Files(eargc) -> Seq(Cells)]
  BY DEF SortTypes
<1>2. s \in Seq(Cells)
  BY <1>1, CutText DEF Cells
<1> QED BY <1>1, <1>2

\* The next line is read.
LEMMA RlineTypes ==
  ASSUME SortTypes, NEW p \in 0 .. N - 1, rest[p] # << >>, Rline(p)
  PROVE  /\ mem' \in [0 .. N -> Cells] /\ rest' \in [0 .. N - 1 -> Seq(Lines)]
         /\ Head(rest[p]) \in Lines
<1>1. rest[p] \in Seq(Lines) /\ p \in 0 .. N
  BY Numbers DEF SortTypes
<1>2. Head(rest[p]) \in Lines /\ Tail(rest[p]) \in Seq(Lines)
  BY <1>1, HeadTailProperties
<1> QED BY <1>1, <1>2, Numbers DEF Rline, SortTypes

\* The structures of a merge.
LEMMA StreamFacts ==
  ASSUME Base, Merging
  PROVE  /\ Prev \in 0 .. N /\ range[1] \in Nat /\ range[2] \in Nat /\ range[1] + Prev = range[2]
         /\ range[2] <= nfiles /\ Using \subseteq 0 .. Prev - 1 /\ Distinct(ibuf) /\ opened <= Prev
         /\ \A k \in DOMAIN ibuf : ibuf[k] \in 0 .. Prev - 1 /\ ibuf[k] \in 0 .. N - 1
         /\ ibuf # << >> => Last(ibuf) \in Using /\ Last(ibuf) \in 0 .. N - 1 /\ Last(ibuf) \in 0 .. Prev - 1
         /\ ibuf \in Seq(0 .. N) /\ caller = "merge"
<1>1. SortTypes /\ RangeRight /\ StreamsRight
  BY DEF Base, Merging
<1>2. range[1] \in Nat /\ range[2] \in Nat /\ ibuf \in Seq(Nat)
  BY <1>1, SpanFields DEF SortTypes
<1>3. range[1] <= range[2] /\ range[2] <= range[1] + N /\ range[2] <= nfiles
  BY <1>1 DEF RangeRight
<1>4. Prev \in 0 .. N /\ range[1] + Prev = range[2]
  BY <1>2, <1>3, Numbers DEF Prev
<1>5. Using \subseteq 0 .. Prev - 1 /\ opened <= Prev /\ Distinct(ibuf)
  BY <1>1 DEF StreamsRight
<1>6. \A k \in DOMAIN ibuf : ibuf[k] \in 0 .. Prev - 1 /\ ibuf[k] \in 0 .. N - 1
  BY <1>4, <1>5, Numbers DEF Using
<1>7. ibuf # << >> => Last(ibuf) \in Using /\ Last(ibuf) \in 0 .. N - 1 /\ Last(ibuf) \in 0 .. Prev - 1
  <2> SUFFICES ASSUME ibuf # << >>
               PROVE  Last(ibuf) \in Using /\ Last(ibuf) \in 0 .. N - 1 /\ Last(ibuf) \in 0 .. Prev - 1
    OBVIOUS
  <2>1. Len(ibuf) \in Nat \ {0} /\ DOMAIN ibuf = 1 .. Len(ibuf) /\ Last(ibuf) = ibuf[Len(ibuf)]
    BY <1>2, FrontLast
  <2>2. Len(ibuf) \in DOMAIN ibuf
    BY <2>1
  <2> QED BY <1>6, <2>1, <2>2 DEF Using
<1>8. ibuf \in Seq(0 .. N)
  <2>1. ibuf \in [1 .. Len(ibuf) -> Nat] /\ Len(ibuf) \in Nat /\ DOMAIN ibuf = 1 .. Len(ibuf)
    BY <1>2, LenProperties
  <2>2. \A k \in 1 .. Len(ibuf) : ibuf[k] \in 0 .. N
    BY <1>6, <2>1, Numbers
  <2>3. ibuf \in [1 .. Len(ibuf) -> 0 .. N]
    BY <2>1, <2>2
  <2> QED BY <2>1, <2>3, FunctionSeq
<1>9. caller = "merge"
  BY <1>1 DEF RangeRight
<1> QED BY <1>2, <1>3, <1>4, <1>5, <1>6, <1>7, <1>8, <1>9

\* The pointers are sorted in the loop of merge.
InLine == pc \in {"line", "next", "check"}
LEMMA LineFacts ==
  ASSUME Base, InLine
  PROVE  /\ Merging /\ ibuf # << >> /\ ibuf \in Seq(0 .. N) /\ mem \in [0 .. N -> Cells] /\ Distinct(ibuf)
         /\ \A k \in 1 .. Len(ibuf) : mem[ibuf[k]] \in Lines
         /\ \A k, l \in 1 .. Len(ibuf) : k < l => Cmp(opt.u, mem[ibuf[k]], mem[ibuf[l]]) <= 0
         /\ Last(ibuf) \in 0 .. Prev - 1 /\ Last(ibuf) \in 0 .. N - 1 /\ mem[Last(ibuf)] \in Lines
         /\ Prev \in 0 .. N
<1>1. Merging
  BY DEF InLine, Merging
<1>2. ibuf # << >> /\ \A p \in Using : mem[p] # NoLine
  BY DEF Base, InLine, StreamsRight
<1>3. mem \in [0 .. N -> Cells]
  BY DEF Base, SortTypes
<1>4. ibuf \in Seq(0 .. N) /\ Distinct(ibuf) /\ Last(ibuf) \in Using
      /\ Last(ibuf) \in 0 .. N - 1 /\ Last(ibuf) \in 0 .. Prev - 1 /\ Prev \in 0 .. N
  BY <1>1, <1>2, StreamFacts
<1>5. DOMAIN ibuf = 1 .. Len(ibuf)
  BY <1>4, LenProperties
<1>6. \A k \in 1 .. Len(ibuf) : mem[ibuf[k]] \in Lines
  <2> SUFFICES ASSUME NEW k \in 1 .. Len(ibuf) PROVE mem[ibuf[k]] \in Lines
    OBVIOUS
  <2>1. ibuf[k] \in 0 .. N /\ ibuf[k] \in Using
    BY <1>4, <1>5, ElementOfSeq DEF Using
  <2>2. mem[ibuf[k]] \in Cells /\ mem[ibuf[k]] # NoLine
    BY <1>2, <1>3, <2>1
  <2> QED BY <2>2, Numbers
<1>7. \A k, l \in 1 .. Len(ibuf) : k < l => Cmp(opt.u, mem[ibuf[k]], mem[ibuf[l]]) <= 0
  BY <1>5 DEF Base, InLine, PointersRight
<1>8. mem[Last(ibuf)] \in Lines
  <2>1. Last(ibuf) \in 0 .. N
    BY <1>4, Numbers
  <2> QED BY <1>2, <1>3, <1>4, <2>1, Numbers
<1> QED BY <1>1, <1>2, <1>3, <1>4, <1>6, <1>7, <1>8

\* The structure whose line was voided, the last one.
LEMMA DropFacts ==
  ASSUME Base, DropVoid
  PROVE  /\ Merging /\ Max(Voids) \in 1 .. Len(ibuf) /\ Max(Voids) \in DOMAIN ibuf
         /\ mem[ibuf[Max(Voids)]] = NoLine /\ ibuf[Max(Voids)] \in 0 .. N - 1
         /\ ibuf[Max(Voids)] \in 0 .. Prev - 1 /\ Max(Voids) \in Voids
<1>1. Merging /\ Voids # {}
  BY DEF DropVoid, Merging
<1>2. DOMAIN ibuf = 1 .. Len(ibuf) /\ Len(ibuf) \in Nat
  BY LenProperties DEF Base, SortTypes
<1>3. Voids \in SUBSET (1 .. Len(ibuf))
  BY <1>2 DEF Voids
<1>4. Max(Voids) \in Voids
  BY <1>1, <1>2, <1>3, MaxPlace
<1>5. mem[ibuf[Max(Voids)]] = NoLine
  BY <1>4 DEF Voids
<1> QED BY <1>1, <1>2, <1>3, <1>4, <1>5, StreamFacts

\* A file is opened.
LEMMA OpenFacts ==
  ASSUME Base, OpenFile
  PROVE  /\ Merging /\ opened \in 0 .. Prev - 1 /\ opened \in 0 .. N - 1 /\ opened \in 0 .. N
         /\ disk[range[1] + opened] \in Seq(Lines) /\ opened \in Nat
         /\ range[1] + opened \in 0 .. nfiles - 1 /\ range[1] + opened < range[2]
<1>1. Merging /\ opened < Prev /\ pc = "open"
  BY DEF OpenFile, Merging
<1>2. opened \in Nat
  BY DEF Base, SortTypes
<1>3. Prev \in 0 .. N /\ range[1] \in Nat /\ range[2] \in Nat /\ range[1] + Prev = range[2] /\ range[2] <= nfiles
  BY <1>1, StreamFacts
<1>4. nfiles \in Nat
  BY FileNames DEF Base
<1>5. opened \in opened .. Prev - 1
  BY <1>1, <1>2, <1>3
<1>6. disk[range[1] + opened] \in Seq(Lines)
  BY <1>1, <1>5 DEF Base, StreamsRight
<1> QED BY <1>1, <1>2, <1>3, <1>4, <1>6, Numbers

\* A sorted pointer array is sorted without its last pointer.
LEMMA FrontSorted ==
  ASSUME Base, StreamEnds
  PROVE  /\ ibuf' \in Seq(Nat) /\ ibuf' \in Seq(0 .. N) /\ SamePointers(Front(ibuf), ibuf')
         /\ Distinct(ibuf') /\ Holding(mem, Front(ibuf))
         /\ SortedTo(opt.u, mem, ibuf', Len(Front(ibuf)))
<1> DEFINE b == Front(ibuf)
           n == Len(ibuf)
<1>1. /\ ibuf # << >> /\ ibuf \in Seq(0 .. N) /\ mem \in [0 .. N -> Cells] /\ Distinct(ibuf)
      /\ Holding(mem, ibuf) /\ SortedTo(opt.u, mem, ibuf, n)
  BY LineFacts DEF StreamEnds, InLine, Holding, SortedTo
<1>2. /\ n \in Nat \ {0} /\ DOMAIN ibuf = 1 .. n /\ b \in Seq(0 .. N) /\ Len(b) = n - 1
      /\ DOMAIN b = 1 .. n - 1 /\ \A i \in 1 .. n - 1 : b[i] = ibuf[i]
  BY <1>1, FrontLast
<1>3. ibuf' = Insert(b, mem)
  BY DEF StreamEnds
<1>4. opt.u \in BOOLEAN
  BY OptFields DEF Base
<1> HIDE DEF b
<1>5. \A k \in 1 .. n - 1 : k \in 1 .. n
  BY <1>2
<1>6. Holding(mem, b)
  BY <1>1, <1>2, <1>5 DEF Holding
<1>7. SortedTo(opt.u, mem, b, Len(b) - 1)
  <2>1. \A k \in 1 .. Len(b) - 1 : k \in 1 .. n - 1 /\ k \in 1 .. n
    BY <1>2
  <2> QED BY <1>1, <1>2, <2>1 DEF SortedTo
<1>8. Distinct(b)
  BY <1>1, <1>2, <1>5 DEF Distinct
<1>9. CASE b # << >>
  <2>1. /\ ibuf' \in Seq(0 .. N) /\ SamePointers(b, ibuf') /\ Distinct(ibuf')
        /\ SortedTo(opt.u, mem, ibuf', Len(b))
    BY <1>1, <1>2, <1>3, <1>4, <1>6, <1>7, <1>8, <1>9, InsertKeeps
  <2>2. ibuf' \in Seq(Nat)
    <3>1. 0 .. N \subseteq Nat
      OBVIOUS
    <3> QED BY <2>1, <3>1, SeqMonotonic
  <2> QED BY <1>6, <2>1, <2>2 DEF b
<1>10. CASE b = << >>
  <2>1. ibuf' = << >>
    BY <1>3, <1>10 DEF Insert, Moved
  <2>2. ibuf' \in Seq(Nat) /\ ibuf' \in Seq(0 .. N) /\ Distinct(ibuf')
    BY <2>1 DEF Distinct
  <2>3. SamePointers(b, ibuf') /\ SortedTo(opt.u, mem, ibuf', Len(b))
    BY <1>10, <2>1 DEF SamePointers, SortedTo
  <2> QED BY <1>6, <2>2, <2>3 DEF b
<1> QED BY <1>9, <1>10

\* The last pointer moves when its line is the next one of the stream.
LEMMA NextSorted ==
  ASSUME Base, StreamReads
  PROVE  /\ ibuf' \in Seq(Nat) /\ ibuf' \in Seq(0 .. N) /\ SamePointers(ibuf, ibuf')
         /\ Distinct(ibuf') /\ Holding(mem', ibuf) /\ SortedTo(opt.u, mem', ibuf', Len(ibuf))
<1> DEFINE n == Len(ibuf)
           p == Last(ibuf)
           x == Head(rest[p])
           m == [mem EXCEPT ![p] = x]
<1>1. /\ ibuf # << >> /\ ibuf \in Seq(0 .. N) /\ mem \in [0 .. N -> Cells] /\ Distinct(ibuf)
      /\ \A k \in 1 .. n : mem[ibuf[k]] \in Lines
      /\ \A k, l \in 1 .. n : k < l => Cmp(opt.u, mem[ibuf[k]], mem[ibuf[l]]) <= 0
      /\ p \in 0 .. N - 1
  BY LineFacts DEF StreamReads, InLine
<1>2. n \in Nat \ {0} /\ DOMAIN ibuf = 1 .. n /\ p = ibuf[n]
  BY <1>1, FrontLast
<1>3. rest[p] # << >> /\ Rline(p) /\ ibuf' = Insert(ibuf, m)
  BY DEF StreamReads
<1>4. opt.u \in BOOLEAN /\ SortTypes
  BY OptFields DEF Base
<1>5. mem' = m /\ x \in Lines
  BY <1>1, <1>3, <1>4, RlineTypes DEF Rline
<1> HIDE DEF n, p, x
<1>6. p \in 0 .. N
  BY <1>1, Numbers
<1>7. m \in [0 .. N -> Cells] /\ \A q \in 0 .. N : m[q] = IF q = p THEN x ELSE mem[q]
  BY <1>1, <1>5, <1>6, Numbers
<1> HIDE DEF m
<1>8. \A k \in 1 .. n : ibuf[k] \in 0 .. N
  BY <1>1, ElementOfSeq DEF n
<1>9. Holding(m, ibuf)
  BY <1>1, <1>5, <1>7, <1>8 DEF Holding, n
<1>10. SortedTo(opt.u, m, ibuf, n - 1)
  <2> SUFFICES ASSUME NEW k \in 1 .. n - 1, NEW l \in 1 .. n - 1, k < l
               PROVE  Cmp(opt.u, m[ibuf[k]], m[ibuf[l]]) <= 0
    BY DEF SortedTo
  <2>1. k \in 1 .. n /\ l \in 1 .. n /\ k # n /\ l # n /\ n \in 1 .. n
    BY <1>2
  <2>2. ibuf[k] # p /\ ibuf[l] # p
    BY <1>1, <1>2, <2>1 DEF Distinct
  <2>3. m[ibuf[k]] = mem[ibuf[k]] /\ m[ibuf[l]] = mem[ibuf[l]]
    BY <1>7, <1>8, <2>1, <2>2
  <2> QED BY <1>1, <2>1, <2>3
<1>11. /\ ibuf' \in Seq(0 .. N) /\ SamePointers(ibuf, ibuf') /\ Distinct(ibuf')
       /\ SortedTo(opt.u, m, ibuf', n)
  <2>1. ibuf \in Seq(0 .. N) /\ ibuf # << >> /\ Distinct(ibuf)
    BY <1>1
  <2>2. SortedTo(opt.u, m, ibuf, Len(ibuf) - 1)
    BY <1>10 DEF n
  <2>3. /\ Insert(ibuf, m) \in Seq(0 .. N) /\ SamePointers(ibuf, Insert(ibuf, m)) /\ Distinct(Insert(ibuf, m))
        /\ SortedTo(opt.u, m, Insert(ibuf, m), Len(ibuf))
    BY <1>4, <1>7, <1>9, <2>1, <2>2, InsertKeeps
  <2> QED BY <1>3, <2>3 DEF n
<1>12. ibuf' \in Seq(Nat)
  <2>1. 0 .. N \subseteq Nat
    OBVIOUS
  <2> QED BY <1>11, <2>1, SeqMonotonic
<1> QED BY <1>5, <1>9, <1>11, <1>12 DEF n

LEMMA TypesKept ==
  ASSUME Base, SortNext
  PROVE  SortTypes'
<1> USE DEF setup, reading, qstate, streams, flags
<1>0. SortTypes
  BY DEF Base
<1>1. CASE ReadLine
  <2>1. unread[is] \in Seq(Lines) /\ unread[is] # << >> /\ is \in 1 .. eargc
    BY <1>0, <1>1 DEF ReadLine, SortTypes
  <2>2. Head(unread[is]) \in Lines /\ Tail(unread[is]) \in Seq(Lines)
    BY <2>1, HeadTailProperties
  <2>3. text' \in Seq(Cells)
    <3>1. text \in Seq(Cells)
      BY <1>0 DEF SortTypes
    <3>2. Head(unread[is]) \in Cells
      BY <2>2, Numbers
    <3>3. text' = Append(text, Head(unread[is]))
      BY <1>1 DEF ReadLine
    <3> QED BY <3>1, <3>2, <3>3, AppendProperties
  <2>4. unread' \in [1 .. eargc -> Seq(Lines)]
    BY <1>0, <1>1, <2>1, <2>2 DEF ReadLine, SortTypes
  <2> QED BY <1>0, <1>1, <2>3, <2>4 DEF ReadLine, SortTypes
<1>2. CASE ReadOn
  <2>1. is' \in 1 .. eargc
    BY <1>0, <1>2 DEF ReadOn, SortTypes
  <2> QED BY <1>0, <1>2, <2>1 DEF ReadOn, SortTypes
<1>3. CASE ReadAll
  <2> DEFINE b == [k \in 1 .. Len(text) |-> k]
  <2>1. b \in Seq(Nat)
    <3>1. Len(text) \in Nat
      BY <1>0, LenProperties DEF SortTypes
    <3>2. b \in [1 .. Len(text) -> Nat]
      OBVIOUS
    <3> QED BY <3>1, <3>2, FunctionSeq
  <2>2. Sort(b)
    BY <1>3 DEF ReadAll
  <2> HIDE DEF b
  <2>3. ibuf' \in Seq(Nat) /\ segs' \in Seq(Ranges) /\ part' \in Parts /\ pc' \in States
    BY <2>1, <2>2, SortCalled DEF States
  <2> QED BY <1>0, <1>3, <2>3 DEF ReadAll, SortTypes
<1>4. CASE StoreChunk
  <2> DEFINE f == IF Direct THEN Output ELSE nfiles
  <2>1. f \in Files(eargc)
    BY <1>0, FileNames
  <2>2. disk' \in [Files(eargc) -> Seq(Cells)] /\ os' \in Files(eargc)
    BY <1>0, <1>4, <2>1, DiskTypes, Numbers DEF StoreChunk
  <2>3. nfiles' \in eargc .. eargc + MaxTemp /\ (opt.c => nfiles' = 1)
    <3>1. ~opt.c
      BY <1>4 DEF StoreChunk, Base, RangeRight, SortPhase
    <3> QED BY <1>0, <1>4, <3>1, FileNames, Numbers DEF StoreChunk, NewfileWorks
  <2>4. pc' \in States
    BY <1>4 DEF StoreChunk, States
  <2> QED BY <1>0, <1>4, <2>2, <2>3, <2>4 DEF StoreChunk, SortTypes
<1>5. CASE StoreChunkFails
  BY <1>0, <1>5, Numbers DEF StoreChunkFails, Term, SortTypes, States
<1>6. CASE PutLine
  <2>1. ibuf # << >> /\ ibuf \in Seq(Nat) /\ os \in Files(eargc) /\ pc = "put"
    BY <1>0, <1>6 DEF PutLine, SortTypes
  <2>2. Front(ibuf) \in Seq(Nat) /\ Last(ibuf) \in Using
    <3>1. Len(ibuf) \in Nat \ {0} /\ DOMAIN ibuf = 1 .. Len(ibuf) /\ Last(ibuf) = ibuf[Len(ibuf)]
          /\ Front(ibuf) \in Seq(Nat)
      BY <2>1, FrontLast
    <3>2. Len(ibuf) \in DOMAIN ibuf
      BY <3>1
    <3> QED BY <3>1, <3>2 DEF Using
  <2>3. text[Last(ibuf)] \in Cells
    <3>1. Last(ibuf) \in 1 .. Len(text)
      BY <2>1, <2>2 DEF Base, RangeRight, StreamsRight, SortPhase
    <3> QED BY <1>0, <3>1, ElementOfSeq DEF SortTypes
  <2>4. disk' \in [Files(eargc) -> Seq(Cells)]
    BY <1>0, <1>6, <2>1, <2>3, WrittenTypes DEF PutLine, SortTypes
  <2>5. ibuf' \in Seq(Nat)
    BY <1>6, <2>2 DEF PutLine
  <2> QED BY <1>0, <1>6, <2>4, <2>5 DEF PutLine, SortTypes
<1>7. CASE PutLineFails
  BY <1>0, <1>7, Numbers DEF PutLineFails, Fail, Failed, Term, SortTypes, States
<1>8. CASE PutAll
  BY <1>0, <1>8, Numbers DEF PutAll, SortTypes, States
<1>9. CASE QusortBegin
  <2> DEFINE a == Last(segs)[1]
             b == Last(segs)[2]
             mid == a + (b - a + 1) \div 2
  <2>1. pc = "qusort" /\ part = Idle /\ segs # << >> /\ segs \in Seq(Ranges)
    BY <1>0, <1>9 DEF QusortBegin, SortTypes
  <2>2. Front(segs) \in Seq(Ranges) /\ a \in Int /\ b \in Int
    BY <2>1, LastRange
  <2>3. CASE b - a < 1
    BY <1>0, <1>9, <2>2, <2>3 DEF QusortBegin, SortTypes
  <2>4. CASE ~(b - a < 1)
    <3>1. part' = [i |-> a, j |-> b, lp |-> mid, hp |-> mid, top |-> TRUE] /\ segs' = segs
      BY <1>9, <2>4 DEF QusortBegin
    <3>2. part' \in Parts
      BY <2>2, <3>1 DEF Parts
    <3> QED BY <1>0, <1>9, <3>1, <3>2 DEF QusortBegin, SortTypes
  <2> QED BY <2>3, <2>4
<1>10. CASE QusortLoop
  <2>1. ibuf' \in Seq(DOMAIN Memory) /\ part' \in Parts
    BY <1>10, LoopStep
  <2>2. DOMAIN Memory \subseteq Nat
    BY <1>10, MemoryFacts DEF QusortLoop
  <2>3. ibuf' \in Seq(Nat)
    BY <2>1, <2>2, SeqMonotonic
  <2> QED BY <1>0, <1>10, <2>1, <2>3 DEF QusortLoop, SortTypes
<1>11. CASE QusortParted
  <2>1. segs' \in Seq(Ranges) /\ part' = Idle
        /\ text' = (IF caller = "sort" THEN VoidedBy(text, Doubles) ELSE text)
        /\ mem' = (IF caller = "sort" THEN mem ELSE VoidedBy(mem, Doubles))
    BY <1>11, PartedStep
  <2>2. part' \in Parts
    BY <2>1 DEF Idle, Parts
  <2>3. text' \in Seq(Cells)
    <3>1. text \in [1 .. Len(text) -> Cells] /\ Len(text) \in Nat
      BY <1>0, LenProperties DEF SortTypes
    <3>2. VoidedBy(text, Doubles) \in [1 .. Len(text) -> Cells]
      BY <3>1, Numbers DEF VoidedBy
    <3>3. VoidedBy(text, Doubles) \in Seq(Cells)
      BY <3>1, <3>2, FunctionSeq
    <3> QED BY <1>0, <2>1, <3>3 DEF SortTypes
  <2>4. mem' \in [0 .. N -> Cells]
    BY <1>0, <2>1, Numbers DEF VoidedBy, SortTypes
  <2> QED BY <1>0, <1>11, <2>1, <2>2, <2>3, <2>4 DEF QusortParted, SortTypes
<1>12. CASE QusortReturn
  BY <1>0, <1>12 DEF QusortReturn, SortTypes, States
<1>13. CASE PlanRun
  <2> DEFINE b == IF range[2] + N >= nfiles THEN nfiles ELSE range[2] + N
  <2>1. range[2] \in Nat /\ b \in Nat
    <3>1. range[2] \in Nat
      BY <1>0, SpanFields DEF SortTypes
    <3>2. nfiles \in Nat
      BY <1>0, FileNames
    <3> QED BY <3>1, <3>2, Numbers
  <2>2. range' \in Spans
    BY <1>13, <2>1, SpanFields DEF PlanRun
  <2>3. nfiles \in Files(eargc)
    BY <1>0, FileNames
  <2>4. disk' \in [Files(eargc) -> Seq(Cells)] /\ os' \in Files(eargc)
    BY <1>0, <1>13, <2>3, DiskTypes, Numbers DEF PlanRun
  <2>5. nfiles' \in eargc .. eargc + MaxTemp
    BY <1>0, <1>13, FileNames, Numbers DEF PlanRun, NewfileWorks
  <2>6. ~opt.c
    <3> SUFFICES ASSUME opt.c PROVE FALSE
      OBVIOUS
    <3>1. nfiles = 1
      BY <1>0 DEF SortTypes
    <3>2. range[2] + N < nfiles
      BY <1>13 DEF PlanRun, Staged
    <3> QED BY <2>1, <3>1, <3>2, Numbers
  <2>7. pc' \in States
    BY <1>13 DEF PlanRun, States
  <2>8. /\ UNCHANGED <<opt, foreign, eargc, input, unread, is, text, rest, segs, part, muflg, lost, fault, error>>
        /\ caller' = "merge" /\ opened' = 0 /\ ibuf' = << >> /\ fresh' = FALSE
    BY <1>13 DEF PlanRun
  <2>10. mem' \in [0 .. N -> Cells]
    BY <1>0, <1>13, PrevTypes DEF PlanRun
  <2>9. /\ UNCHANGED <<opt, foreign, eargc, input, unread, is, text, rest, segs, part, muflg, lost, fault, error>>
        /\ ibuf' \in Seq(Nat) /\ opened' \in Nat /\ fresh' \in BOOLEAN /\ caller' \in {"sort", "merge"}
    <3>1. ibuf' \in Seq(Nat)
      BY <2>8
    <3>2. fresh' \in BOOLEAN
      BY <1>13 DEF PlanRun
    <3> QED BY <2>8, <3>1, <3>2
  <2> QED BY <1>0, <2>2, <2>4, <2>5, <2>6, <2>7, <2>9, <2>10 DEF SortTypes
<1>14. CASE PlanFails
  BY <1>0, <1>14, Numbers DEF PlanFails, Term, SortTypes, States
<1>15. CASE PlanOutput
  <2>1. range' \in Spans
    <3>1. range[2] \in Nat
      BY <1>0, SpanFields DEF SortTypes
    <3>2. nfiles \in Nat
      BY <1>0, Numbers DEF SortTypes
    <3>3. range' = <<range[2], nfiles>>
      BY <1>15 DEF PlanOutput
    <3> QED BY <3>1, <3>2, <3>3 DEF Spans
  <2>2. disk' \in [Files(eargc) -> Seq(Cells)] /\ os' \in Files(eargc)
    BY <1>0, <1>15, DiskTypes, FileNames, Numbers DEF PlanOutput
  <2>3. /\ UNCHANGED <<opt, foreign, eargc, input, nfiles, unread, is, text, rest, segs, part, muflg, lost, fault, error>>
        /\ caller' = "merge" /\ opened' = 0 /\ ibuf' = << >> /\ fresh' = FALSE /\ pc' = "open"
    BY <1>15 DEF PlanOutput
  <2>9. /\ UNCHANGED <<opt, foreign, eargc, input, nfiles, unread, is, text, rest, segs, part, muflg, lost, fault, error>>
        /\ ibuf' \in Seq(Nat) /\ opened' \in Nat /\ fresh' \in BOOLEAN /\ caller' \in {"sort", "merge"}
    <3>1. ibuf' \in Seq(Nat)
      BY <2>3
    <3>2. fresh' \in BOOLEAN
      BY <1>15 DEF PlanOutput
    <3> QED BY <2>3, <3>1, <3>2
  <2>4. pc' \in States
    BY <2>3 DEF States
  <2>10. mem' \in [0 .. N -> Cells]
    BY <1>0, <1>15, PrevTypes DEF PlanOutput
  <2> QED BY <1>0, <2>1, <2>2, <2>4, <2>9, <2>10 DEF SortTypes
<1>16. CASE PlanDone
  BY <1>0, <1>16, Numbers DEF PlanDone, Term, SortTypes, States
<1>17. CASE OpenFile
  <2> DEFINE lines == disk[range[1] + opened]
  <2>1. lines \in Seq(Lines) /\ opened \in 0 .. N - 1 /\ opened \in Nat /\ opened \in 0 .. N
    BY <1>17, OpenFacts
  <2>2. opened' \in Nat
    BY <1>17, <2>1 DEF OpenFile
  <2> HIDE DEF lines
  <2>3. mem' \in [0 .. N -> Cells] /\ rest' \in [0 .. N - 1 -> Seq(Lines)] /\ ibuf' \in Seq(Nat)
    <3>1. CASE lines = << >>
      <4>1. rest' = [rest EXCEPT ![opened] = << >>] /\ mem' = mem /\ ibuf' = ibuf
        BY <1>17, <3>1 DEF OpenFile, lines
      <4> QED BY <1>0, <2>1, <4>1 DEF SortTypes
    <3>2. CASE lines # << >>
      <4>1. /\ mem' = [mem EXCEPT ![opened] = Head(lines)]
            /\ rest' = [rest EXCEPT ![opened] = Tail(lines)]
            /\ ibuf' = Append(ibuf, opened)
        BY <1>17, <3>2 DEF OpenFile, lines
      <4>2. Head(lines) \in Cells /\ Tail(lines) \in Seq(Lines)
        BY <2>1, <3>2, HeadTailProperties, Numbers
      <4> QED BY <1>0, <2>1, <4>1, <4>2 DEF SortTypes
    <3> QED BY <3>1, <3>2
  <2> QED BY <1>0, <1>17, <2>2, <2>3 DEF OpenFile, SortTypes
<1>18. CASE OpenedAll
  <2>1. ibuf' \in Seq(Nat) /\ segs' \in Seq(Ranges) /\ part' \in Parts /\ pc' \in States
    BY <1>0, <1>18, SortCalled DEF States, SortTypes, OpenedAll
  <2> QED BY <1>0, <1>18, <2>1 DEF OpenedAll, SortTypes
<1>19. CASE DropVoid
  <2> DEFINE k == Max(Voids)
  <2>1. k \in 1 .. Len(ibuf) /\ ibuf[k] \in 0 .. N - 1
    BY <1>19, DropFacts
  <2>2. ibuf' \in Seq(Nat) /\ mem' \in [0 .. N -> Cells] /\ rest' \in [0 .. N - 1 -> Seq(Lines)]
    <3>1. CASE rest[ibuf[k]] = << >>
      <4>1. ibuf' = RemoveAt(ibuf, k) /\ mem' = mem /\ rest' = rest
        BY <1>19, <3>1 DEF DropVoid
      <4>2. ibuf \in Seq(Nat)
        BY <1>0 DEF SortTypes
      <4> HIDE DEF k
      <4> QED BY <1>0, <2>1, <4>1, <4>2, RemoveFacts DEF SortTypes
    <3>2. CASE rest[ibuf[k]] # << >>
      <4>1. ibuf' = ibuf /\ Rline(ibuf[k])
        BY <1>19, <3>2 DEF DropVoid
      <4> QED BY <1>0, <2>1, <3>2, <4>1, RlineTypes DEF SortTypes
    <3> QED BY <3>1, <3>2
  <2> QED BY <1>0, <1>19, <2>2 DEF DropVoid, SortTypes, States
<1>20. CASE SortAgain
  <2>1. ibuf' \in Seq(Nat) /\ segs' \in Seq(Ranges) /\ part' \in Parts /\ pc' \in States
    BY <1>0, <1>20, SortCalled DEF States, SortTypes, SortAgain
  <2> QED BY <1>0, <1>20, <2>1 DEF SortAgain, SortTypes
<1>21. CASE NoneDropped
  <2>1. muflg' \in BOOLEAN
    BY <1>0, <1>21, OptFields DEF NoneDropped
  <2> QED BY <1>0, <1>21, <2>1 DEF NoneDropped, SortTypes, States
<1>22. CASE MergeLine
  <2>1. mem[Last(ibuf)] \in Cells /\ Prev \in 0 .. N
    BY <1>22, LineFacts, Numbers DEF MergeLine, InLine
  <2>2. mem' \in [0 .. N -> Cells]
    BY <1>0, <1>22, <2>1 DEF MergeLine, SortTypes
  <2>3. disk' \in [Files(eargc) -> Seq(Cells)]
    <3>1. disk' = disk \/ disk' = [disk EXCEPT ![os] = Append(@, mem[Last(ibuf)])]
      BY <1>22 DEF MergeLine
    <3>2. os \in Files(eargc)
      BY <1>0 DEF SortTypes
    <3>3. [disk EXCEPT ![os] = Append(@, mem[Last(ibuf)])] \in [Files(eargc) -> Seq(Cells)]
      BY <1>0, <2>1, <3>2, WrittenTypes
    <3> QED BY <1>0, <3>1, <3>3 DEF SortTypes
  <2>4. fresh' \in BOOLEAN /\ pc' \in States
    BY <1>0, <1>22 DEF MergeLine, SortTypes, States
  <2>5. UNCHANGED <<opt, foreign, eargc, input, nfiles, reading, text, rest, opened, ibuf, qstate, muflg, range, lost, fault, os, error>>
    BY <1>22 DEF MergeLine
  <2> QED BY <1>0, <2>2, <2>3, <2>4, <2>5 DEF SortTypes
<1>23. CASE MergeLineFails
  BY <1>0, <1>23, Numbers DEF MergeLineFails, Fail, Failed, Term, SortTypes, States
<1>24. CASE StreamEnds
  <2> DEFINE b == Front(ibuf)
  <2>1. ibuf # << >> /\ ibuf \in Seq(0 .. N)
    BY <1>24, LineFacts DEF StreamEnds, InLine
  <2>2. b \in Seq(0 .. N)
    BY <2>1, FrontLast
  <2>3. ibuf' = Insert(b, mem)
    BY <1>24 DEF StreamEnds
  <2>4. ibuf' \in Seq(Nat)
    BY <1>24, <2>3, FrontSorted
  <2>5. muflg' \in BOOLEAN /\ pc' \in States
    BY <1>0, <1>24, OptFields DEF StreamEnds, States, SortTypes
  <2>6. UNCHANGED <<opt, foreign, eargc, input, disk, nfiles, reading, text, streams, qstate, range, fresh, lost, fault, os, error>>
    BY <1>24 DEF StreamEnds
  <2> QED BY <1>0, <2>4, <2>5, <2>6 DEF SortTypes
<1>25. CASE StreamReads
  <2>1. mem' \in [0 .. N -> Cells] /\ rest' \in [0 .. N - 1 -> Seq(Lines)]
    BY <1>0, <1>25, LineFacts, RlineTypes DEF StreamReads, InLine
  <2>2. ibuf' \in Seq(Nat)
    BY <1>25, NextSorted
  <2> QED BY <1>0, <1>25, <2>1, <2>2 DEF StreamReads, SortTypes, States
<1>26. CASE NextLine
  <2>1. lost' \in BOOLEAN /\ pc' \in States
    BY <1>0, <1>26 DEF NextLine, SortTypes, States
  <2> QED BY <1>0, <1>26, <2>1 DEF NextLine, SortTypes
<1>27. CASE Disordered
  BY <1>0, <1>27, Numbers DEF Disordered, Term, SortTypes, States
<1>28. CASE MergeClose
  BY <1>0, <1>28, Numbers DEF MergeClose, Unlinked, SortTypes, States
<1>29. CASE CreateFails \/ ReadFails
  BY <1>0, <1>29, Numbers DEF CreateFails, ReadFails, Fail, Failed, Term, SortTypes, States
<1>30. CASE PutAllCuts
  <2>1. disk' \in [Files(eargc) -> Seq(Cells)]
    BY <1>0, <1>30, CutTypes DEF PutAllCuts
  <2> QED BY <1>0, <1>30, <2>1, Numbers DEF PutAllCuts, SortTypes, States
<1>31. CASE MergeCloseCuts
  <2>1. PICK s \in Cuts(disk[os]) : disk' = Unlinked([disk EXCEPT ![os] = s])
    BY <1>31 DEF MergeCloseCuts
  <2>2. [disk EXCEPT ![os] = s] \in [Files(eargc) -> Seq(Cells)]
    BY <1>0, CutTypes
  <2>3. disk' \in [Files(eargc) -> Seq(Cells)]
    BY <2>1, <2>2, Numbers DEF Unlinked
  <2> QED BY <1>0, <1>31, <2>3 DEF MergeCloseCuts, SortTypes, States
<1> QED BY <1>1, <1>2, <1>3, <1>4, <1>5, <1>6, <1>7, <1>8, <1>9, <1>10, <1>11, <1>12, <1>13, <1>14,
           <1>15, <1>16, <1>17, <1>18, <1>19, <1>20, <1>21, <1>22, <1>23, <1>24, <1>25, <1>26, <1>27, <1>28, <1>29, <1>30, <1>31
           DEF SortNext

-----------------------------------------------------------------------------
(***************************************************************************)
(* Files.                                                                  *)
(***************************************************************************)
LEMMA RangeFacts ==
  ASSUME Base, pc # "exit"
  PROVE  /\ range[1] \in Nat /\ range[2] \in Nat /\ range[1] <= range[2] /\ range[2] <= nfiles
         /\ nfiles \in Nat /\ eargc \in Nat /\ eargc >= 1 /\ eargc <= nfiles
         /\ Output \in {Stdout, 0} /\ Stdout = -1 /\ N \in Nat /\ N >= 1 /\ MaxTemp \in Nat
         /\ nfiles <= eargc + MaxTemp /\ range[2] <= range[1] + N
<1>1. range[1] \in Nat /\ range[2] \in Nat
  BY SpanFields DEF Base, SortTypes
<1>2. range[1] <= range[2] /\ range[2] <= nfiles /\ range[2] <= range[1] + N
  BY DEF Base, RangeRight
<1>3. nfiles \in eargc .. eargc + MaxTemp /\ eargc \in Nat \ {0} /\ MaxTemp \in Nat
  BY FileNames, Numbers DEF Base
<1>4. Output \in {Stdout, 0}
  BY OptFields DEF Base, Output
<1> QED BY <1>1, <1>2, <1>3, <1>4, Numbers DEF Stdout

\* The live files.
LEMMA LiveFiles ==
  ASSUME Base, pc # "exit", NEW f \in Live
  PROVE  f \in Files(eargc) /\ f # nfiles /\ f < nfiles /\ f \in Int /\ (f = Output \/ f >= range[2])
<1> DEFINE a == range[2]
<1>1. a \in Nat /\ nfiles \in Nat /\ eargc \in Nat /\ eargc >= 1 /\ eargc <= nfiles
      /\ Output \in {Stdout, 0} /\ Stdout = -1 /\ nfiles <= eargc + MaxTemp /\ MaxTemp \in Nat
  BY RangeFacts
<1>2. Output \in Files(eargc) /\ \A g \in 0 .. eargc + MaxTemp : g \in Files(eargc)
  BY FileNames DEF Base
<1>3. f \in a .. nfiles - 1 \/ f = Output
  BY DEF Live
<1> HIDE DEF a
<1>4. CASE f \in a .. nfiles - 1
  <2>1. f \in 0 .. eargc + MaxTemp /\ f < nfiles /\ f \in Int /\ f # nfiles /\ f >= a
    BY <1>1, <1>4
  <2> QED BY <1>2, <2>1 DEF a
<1>5. CASE f = Output
  <2>1. f < nfiles /\ f \in Int /\ f # nfiles
    BY <1>1, <1>5
  <2> QED BY <1>2, <1>5, <2>1
<1> QED BY <1>3, <1>4, <1>5

\* Nothing is written.
LEMMA FilesQuiet ==
  ASSUME Base, pc # "exit", UNCHANGED <<disk, nfiles, foreign, eargc>>, Live' \subseteq Live
  PROVE  FilesRight'
BY DEF Base, FilesRight

\* The same files are live.
LEMMA LiveSame ==
  ASSUME UNCHANGED <<nfiles, range, opt>>, SortPhase' <=> SortPhase, pc' = "put" <=> pc = "put"
  PROVE  Live' = Live
BY DEF Live, Output

\* A line is put on a live file.
LEMMA FilesWritten ==
  ASSUME Base, pc # "exit", UNCHANGED <<nfiles, foreign, eargc>>, Live' = Live,
         NEW x \in Lines, os \in Live, disk' = [disk EXCEPT ![os] = Append(@, x)]
  PROVE  FilesRight'
<1>1. os \in Files(eargc) /\ disk[os] \in Seq(Lines) /\ FilesRight /\ DOMAIN disk = Files(eargc)
  BY FileNames DEF Base, FilesRight, SortTypes
<1>2. Append(disk[os], x) \in Seq(Lines)
  BY <1>1
<1>3. os < nfiles /\ nfiles \in Nat
  BY LiveFiles, RangeFacts
<1>4. \A f \in nfiles .. eargc + MaxTemp : disk'[f] = disk[f]
  BY <1>3, RangeFacts
<1>5. \A f \in Live : f \in Files(eargc)
  BY LiveFiles
<1>6. \A f \in Live : disk'[f] \in Seq(Lines)
  BY <1>1, <1>2, <1>5 DEF FilesRight
<1> QED BY <1>1, <1>4, <1>6 DEF FilesRight

\* A live file is cut.
LEMMA FilesCut ==
  ASSUME Base, pc # "exit", UNCHANGED <<nfiles, foreign, eargc>>, Live' \subseteq Live,
         os \in Live, NEW s \in Cuts(disk[os]), disk' = [disk EXCEPT ![os] = s]
  PROVE  FilesRight'
<1>1. os \in Files(eargc) /\ disk[os] \in Seq(Lines) /\ FilesRight /\ DOMAIN disk = Files(eargc)
  BY FileNames DEF Base, FilesRight, SortTypes
<1>2. s \in Seq(Lines)
  BY <1>1, CutText
<1>3. os < nfiles /\ nfiles \in Nat
  BY LiveFiles, RangeFacts
<1>4. \A f \in nfiles .. eargc + MaxTemp : disk'[f] = disk[f]
  BY <1>3, RangeFacts
<1>5. \A f \in Live : f \in Files(eargc)
  BY LiveFiles
<1>6. \A f \in Live : disk'[f] \in Seq(Lines)
  BY <1>1, <1>2, <1>5 DEF FilesRight
<1> QED BY <1>1, <1>4, <1>6 DEF FilesRight

\* A new temporary file.
LEMMA FilesAdded ==
  ASSUME Base, pc # "exit", nfiles' = nfiles + 1, disk' = [disk EXCEPT ![nfiles] = << >>],
         disk[nfiles] = Absent, nfiles - eargc < MaxTemp, eargc' = eargc, foreign' = foreign,
         \A f \in Live' : f = nfiles \/ f \in Live
  PROVE  FilesRight'
<1>1. FilesRight
  BY DEF Base
<1>2. nfiles \in nfiles .. eargc + MaxTemp /\ nfiles \in Files(eargc)
  BY RangeFacts, FileNames DEF Base
<1>3. nfiles \notin foreign
  <2>1. disk[nfiles] = IF nfiles \in foreign THEN << >> ELSE Absent
    BY <1>1, <1>2 DEF FilesRight
  <2>2. Absent # << >>
    BY DEF Absent
  <2> QED BY <2>1, <2>2
<1>4. \A f \in foreign : f >= nfiles'
  BY <1>1, <1>3, RangeFacts DEF FilesRight, Base, SortTypes
<1>5. \A f \in Live : f \in Files(eargc) /\ f # nfiles
  BY LiveFiles
<1>6. \A f \in Files(eargc) : disk'[f] = IF f = nfiles THEN << >> ELSE disk[f]
  BY <1>2, DiskTypes, Numbers DEF Base
<1>7. \A f \in Live' : disk'[f] \in Seq(Lines)
  <2> SUFFICES ASSUME NEW f \in Live' PROVE disk'[f] \in Seq(Lines)
    OBVIOUS
  <2>1. CASE f = nfiles
    BY Numbers, <1>2, <1>6, <2>1
  <2>2. CASE f \in Live
    BY <1>1, <1>5, <1>6, <2>2 DEF FilesRight
  <2> QED BY <2>1, <2>2
<1>8. \A f \in nfiles' .. eargc' + MaxTemp : f \in nfiles .. eargc + MaxTemp /\ f # nfiles /\ f \in Files(eargc)
  BY RangeFacts, FileNames DEF Base
<1>9. \A f \in nfiles' .. eargc' + MaxTemp : disk'[f] = IF f \in foreign' THEN << >> ELSE Absent
  BY <1>1, <1>6, <1>8 DEF FilesRight
<1> QED BY <1>4, <1>7, <1>9 DEF FilesRight

\* The chunk is put on a live file.
LEMMA PutFacts ==
  ASSUME Base, pc = "put"
  PROVE  /\ os \in Live /\ os \in Files(eargc) /\ range[2] = eargc
         /\ ibuf # << >> => /\ Last(ibuf) \in Using /\ Last(ibuf) \in 1 .. Len(text)
                            /\ text[Last(ibuf)] \in Cells
<1>1. SortTypes /\ RangeRight /\ StreamsRight
  BY DEF Base
<1>2. range = <<eargc, eargc>> /\ caller = "sort"
  BY <1>1 DEF RangeRight, SortPhase
<1>3. range[2] = eargc
  BY <1>2
<1>4. os \in Live
  <2>1. IF Direct THEN os = Output ELSE nfiles > eargc /\ os = nfiles - 1
    BY <1>1 DEF RangeRight
  <2>2. CASE nfiles > eargc
    BY <1>3, <2>1, <2>2, RangeFacts DEF Live, Direct
  <2>3. CASE nfiles = eargc
    BY <1>3, <2>1, <2>3, RangeFacts DEF Live, Direct
  <2> QED BY <2>2, <2>3, RangeFacts
<1>5. ASSUME ibuf # << >>
      PROVE  Last(ibuf) \in Using /\ Last(ibuf) \in 1 .. Len(text) /\ text[Last(ibuf)] \in Cells
  <2>1. Len(ibuf) \in Nat \ {0} /\ DOMAIN ibuf = 1 .. Len(ibuf) /\ Last(ibuf) = ibuf[Len(ibuf)]
    BY <1>1, <1>5, FrontLast DEF SortTypes
  <2>2. Len(ibuf) \in DOMAIN ibuf
    BY <2>1
  <2>3. Last(ibuf) \in Using
    BY <2>1, <2>2 DEF Using
  <2>4. Last(ibuf) \in 1 .. Len(text)
    BY <1>1, <1>2, <2>3 DEF StreamsRight
  <2> QED BY <1>1, <2>3, <2>4, ElementOfSeq DEF SortTypes
<1> QED BY <1>1, <1>3, <1>4, <1>5 DEF SortTypes

\* So is what is merged.
LEMMA OutputLive ==
  ASSUME Base, Merging
  PROVE  os \in Live
<1>1. pc # "exit" /\ ~SortPhase
  BY DEF Merging, SortPhase, Base, RangeRight
<1>2. IF range[2] = nfiles THEN os = Output ELSE os = nfiles - 1
  BY <1>1 DEF Base, RangeRight
<1> QED BY <1>1, <1>2, RangeFacts DEF Live

\* The files of the next run.
LEMMA PlanRunFacts ==
  ASSUME Base, PlanRun
  PROVE  /\ range'[1] = range[2] /\ range'[2] \in Nat /\ range'[2] <= nfiles /\ range[2] < range'[2]
         /\ range[2] <= range'[2] /\ range[2] < nfiles /\ range'[2] <= range'[1] + N /\ ~SortPhase
<1> DEFINE a == range[2]
           b == IF range[2] + N >= nfiles THEN nfiles ELSE range[2] + N
<1>1. a \in Nat /\ nfiles \in Nat /\ a <= nfiles /\ N \in Nat /\ N >= 1 /\ eargc <= nfiles /\ eargc \in Nat
  BY RangeFacts DEF PlanRun
<1>2. a < nfiles
  BY <1>1 DEF PlanRun, Staged
<1>3. range' = <<a, b>>
  BY DEF PlanRun
<1>4. range'[1] = a /\ range'[2] = b
  BY <1>3
<1>5. b \in Nat /\ b <= nfiles /\ a < b /\ a <= b /\ b <= a + N
  BY <1>1, <1>2
<1>6. ~SortPhase
  BY DEF PlanRun, SortPhase
<1> QED BY <1>2, <1>4, <1>5, <1>6

\* What ends the program.
LEMMA Stopped ==
  ASSUME pc' # "exit"
  PROVE  /\ ~StoreChunkFails /\ ~PutLineFails /\ ~PlanFails /\ ~PlanDone /\ ~MergeLineFails /\ ~Disordered
         /\ ~CreateFails /\ ~ReadFails
BY DEF StoreChunkFails, PutLineFails, PlanFails, PlanDone, MergeLineFails, Disordered, CreateFails, ReadFails, Fail, Term

LEMMA FilesKept ==
  ASSUME Base, pc # "exit", SortNext, pc' # "exit"
  PROVE  FilesRight'
<1> USE DEF setup, reading, qstate, streams, flags
<1>0. SortTypes /\ FilesRight /\ RangeRight /\ StreamsRight
  BY DEF Base
<1>1. CASE ReadLine
  <2>1. Live' = Live
    BY <1>1, LiveSame DEF ReadLine, SortPhase
  <2> QED BY <1>1, <2>1, FilesQuiet DEF ReadLine
<1>2. CASE ReadOn
  <2>1. Live' = Live
    BY <1>2, LiveSame DEF ReadOn, SortPhase
  <2> QED BY <1>2, <2>1, FilesQuiet DEF ReadOn
<1>3. CASE ReadAll
  <2>1. Live' = Live
    <3>1. caller = "sort"
      BY <1>0, <1>3 DEF ReadAll, RangeRight, SortPhase
    <3> QED BY <1>3, <3>1, LiveSame DEF ReadAll, Sort, SortPhase
  <2> QED BY <1>3, <2>1, FilesQuiet DEF ReadAll
<1>4. CASE StoreChunk
  <2>1. range[2] = eargc
    <3>1. range = <<eargc, eargc>>
      BY <1>0, <1>4 DEF StoreChunk, RangeRight, SortPhase
    <3> QED BY <3>1
  <2>2. pc' = "put" /\ range' = range /\ eargc' = eargc /\ foreign' = foreign /\ opt' = opt
    BY <1>4 DEF StoreChunk
  <2>3. CASE Direct
    <3>1. nfiles' = nfiles /\ nfiles = eargc /\ disk' = [disk EXCEPT ![Output] = << >>]
      BY <1>4, <2>3 DEF StoreChunk, Direct
    <3>2. Live' = {Output}
      <4>1. range'[2] = eargc /\ nfiles' = eargc /\ Output' = Output /\ eargc \in Nat
        BY <1>0, <2>1, <2>2, <3>1, FileNames DEF Output
      <4>2. ~(range'[2] < nfiles')
        BY <4>1
      <4> QED BY <2>2, <4>1, <4>2 DEF Live
    <3>3. \A f \in Files(eargc) : disk'[f] = IF f = Output THEN << >> ELSE disk[f]
      BY <1>0, <3>1, FileNames, DiskTypes, Numbers
    <3>4. Output \in Files(eargc) /\ \A f \in nfiles .. eargc + MaxTemp : f # Output /\ f \in Files(eargc)
      BY <1>0, <1>4, FileNames, RangeFacts DEF StoreChunk
    <3>5. disk'[Output] \in Seq(Lines)
      BY Numbers, <3>3, <3>4
    <3>6. \A f \in nfiles .. eargc + MaxTemp : disk'[f] = disk[f]
      BY <3>3, <3>4
    <3> QED BY <1>0, <2>2, <3>1, <3>2, <3>5, <3>6 DEF FilesRight
  <2>4. CASE ~Direct
    <3>1. nfiles' = nfiles + 1 /\ disk' = [disk EXCEPT ![nfiles] = << >>] /\ disk[nfiles] = Absent
          /\ nfiles - eargc < MaxTemp
      BY <1>4, <2>4 DEF StoreChunk, NewfileWorks
    <3>2. \A f \in Live' : f = nfiles \/ f \in Live
      <4>1. eargc \in Nat /\ nfiles \in Nat /\ eargc <= nfiles /\ range'[2] = eargc
        BY <1>4, <2>1, <2>2, RangeFacts DEF StoreChunk
      <4>2. Live' = eargc .. nfiles
        BY <3>1, <4>1 DEF Live
      <4>3. eargc < nfiles => Live = eargc .. nfiles - 1
        BY <2>1 DEF Live
      <4>4. ASSUME NEW f \in eargc .. nfiles, f # nfiles
            PROVE  f \in Live
        <5>1. eargc < nfiles /\ f \in eargc .. nfiles - 1
          BY <4>1, <4>4
        <5> QED BY <4>3, <5>1
      <4> QED BY <4>2, <4>4
    <3> QED BY <1>4, <2>2, <3>1, <3>2, FilesAdded DEF StoreChunk
  <2> QED BY <2>3, <2>4
<1>6. CASE PutLine
  <2>1. Live' = Live
    BY <1>6, LiveSame DEF PutLine, SortPhase
  <2> DEFINE x == text[Last(ibuf)]
  <2>2. CASE x = NoLine
    BY <1>6, <2>1, <2>2, FilesQuiet DEF PutLine
  <2>3. CASE x # NoLine
    <3>1. x \in Lines
      BY <1>6, <2>3, PutFacts, Numbers DEF PutLine
    <3>2. os \in Live
      BY <1>6, PutFacts DEF PutLine
    <3>3. disk' = [disk EXCEPT ![os] = Append(@, x)]
      BY <1>6, <2>3 DEF PutLine
    <3> HIDE DEF x
    <3> QED BY <1>6, <2>1, <3>1, <3>2, <3>3, FilesWritten DEF PutLine
  <2> QED BY <2>2, <2>3
<1>8. CASE PutAll
  <2>1. Live' \subseteq Live
    BY <1>8 DEF PutAll, Live, SortPhase, Output
  <2> QED BY <1>8, <2>1, FilesQuiet DEF PutAll
<1>30. CASE PutAllCuts
  <2>1. Live' \subseteq Live
    BY <1>30 DEF PutAllCuts, Live, SortPhase, Output
  <2>2. PICK s \in Cuts(disk[os]) : disk' = [disk EXCEPT ![os] = s]
    BY <1>30 DEF PutAllCuts
  <2>3. os \in Live /\ UNCHANGED <<nfiles, foreign, eargc>>
    BY <1>30, PutFacts DEF PutAllCuts
  <2> QED BY <2>1, <2>2, <2>3, FilesCut
<1>9. CASE QusortBegin
  <2>1. Live' = Live
    BY <1>9, LiveSame DEF QusortBegin, SortPhase
  <2> QED BY <1>9, <2>1, FilesQuiet DEF QusortBegin
<1>10. CASE QusortLoop
  <2>1. Live' = Live
    BY <1>10, LiveSame DEF QusortLoop, SortPhase
  <2> QED BY <1>10, <2>1, FilesQuiet DEF QusortLoop
<1>11. CASE QusortParted
  <2>1. Live' = Live
    BY <1>11, LiveSame DEF QusortParted, SortPhase
  <2> QED BY <1>11, <2>1, FilesQuiet DEF QusortParted
<1>12. CASE QusortReturn
  <2>1. Live' = Live
    BY <1>12, LiveSame DEF QusortReturn, SortPhase
  <2> QED BY <1>12, <2>1, FilesQuiet DEF QusortReturn
<1>13. CASE PlanRun
  <2>1. /\ nfiles' = nfiles + 1 /\ disk' = [disk EXCEPT ![nfiles] = << >>] /\ disk[nfiles] = Absent
        /\ nfiles - eargc < MaxTemp /\ eargc' = eargc /\ foreign' = foreign
    BY <1>13 DEF PlanRun, NewfileWorks
  <2>2. range'[2] <= nfiles /\ range'[2] \in Nat /\ range[2] <= range'[2] /\ range[2] < nfiles
    BY <1>13, PlanRunFacts
  <2>3. Live = range[2] .. nfiles - 1 /\ Live' = range'[2] .. nfiles
    BY <2>1, <2>2, RangeFacts DEF Live
  <2>4. \A f \in Live' : f = nfiles \/ f \in Live
    BY <2>2, <2>3, RangeFacts
  <2> QED BY <2>1, <2>4, FilesAdded
<1>15. CASE PlanOutput
  <2>1. /\ range' = <<range[2], nfiles>> /\ disk' = [disk EXCEPT ![Output] = << >>]
        /\ UNCHANGED <<nfiles, opt, eargc, foreign>> /\ pc' = "open"
    BY <1>15 DEF PlanOutput
  <2>2. Live' = {Output}
    <3>1. range'[2] = nfiles /\ nfiles' = nfiles /\ nfiles \in Nat /\ Output' = Output
      BY <1>0, <2>1, FileNames DEF Output
    <3>2. ~(range'[2] < nfiles') /\ ~SortPhase'
      BY <2>1, <3>1 DEF SortPhase
    <3> QED BY <3>1, <3>2 DEF Live
  <2>3. \A f \in Files(eargc) : disk'[f] = IF f = Output THEN << >> ELSE disk[f]
    BY <1>0, <2>1, FileNames, DiskTypes, Numbers
  <2>4. Output \in Files(eargc) /\ \A f \in nfiles .. eargc + MaxTemp : f # Output /\ f \in Files(eargc)
    BY <1>0, FileNames, RangeFacts
  <2>5. disk'[Output] \in Seq(Lines)
    BY Numbers, <2>3, <2>4
  <2>6. \A f \in nfiles .. eargc + MaxTemp : disk'[f] = disk[f]
    BY <2>3, <2>4
  <2> QED BY <1>0, <2>1, <2>2, <2>5, <2>6 DEF FilesRight
<1>17. CASE OpenFile
  <2>1. Live' = Live
    BY <1>17, LiveSame DEF OpenFile, SortPhase
  <2> QED BY <1>17, <2>1, FilesQuiet DEF OpenFile
<1>18. CASE OpenedAll
  <2>1. Live' = Live
    <3>1. caller = "merge"
      BY <1>0, <1>18 DEF OpenedAll, RangeRight, Merging
    <3> QED BY <1>18, <3>1, LiveSame DEF OpenedAll, Sort, SortPhase
  <2> QED BY <1>18, <2>1, FilesQuiet DEF OpenedAll
<1>19. CASE DropVoid
  <2>1. Live' = Live
    BY <1>19, LiveSame DEF DropVoid, SortPhase
  <2> QED BY <1>19, <2>1, FilesQuiet DEF DropVoid
<1>20. CASE SortAgain
  <2>1. Live' = Live
    <3>1. caller = "merge"
      BY <1>0, <1>20 DEF SortAgain, RangeRight, Merging
    <3> QED BY <1>20, <3>1, LiveSame DEF SortAgain, Sort, SortPhase
  <2> QED BY <1>20, <2>1, FilesQuiet DEF SortAgain
<1>21. CASE NoneDropped
  <2>1. Live' = Live
    BY <1>21, LiveSame DEF NoneDropped, SortPhase
  <2> QED BY <1>21, <2>1, FilesQuiet DEF NoneDropped
<1>22. CASE MergeLine
  <2>1. Live' = Live
    BY <1>22, LiveSame DEF MergeLine, SortPhase
  <2> DEFINE x == mem[Last(ibuf)]
  <2>2. disk' = disk \/ disk' = [disk EXCEPT ![os] = Append(@, x)]
    BY <1>22 DEF MergeLine
  <2>3. x \in Lines /\ os \in Live
    BY <1>22, LineFacts, OutputLive DEF MergeLine, InLine, Merging
  <2> HIDE DEF x
  <2> QED BY <1>22, <2>1, <2>2, <2>3, FilesQuiet, FilesWritten DEF MergeLine
<1>24. CASE StreamEnds
  <2>1. Live' = Live
    BY <1>24, LiveSame DEF StreamEnds, SortPhase
  <2> QED BY <1>24, <2>1, FilesQuiet DEF StreamEnds
<1>25. CASE StreamReads
  <2>1. Live' = Live
    BY <1>25, LiveSame DEF StreamReads, SortPhase
  <2> QED BY <1>25, <2>1, FilesQuiet DEF StreamReads
<1>26. CASE NextLine
  <2>1. Live' = Live
    BY <1>26, LiveSame DEF NextLine, SortPhase
  <2> QED BY <1>26, <2>1, FilesQuiet DEF NextLine
<1>28. CASE MergeClose
  <2>1. Live' = Live
    BY <1>28, LiveSame DEF MergeClose, SortPhase
  <2>2. \A f \in Files(eargc) : disk'[f] = IF f \in range[1] .. range[2] - 1 /\ f >= eargc THEN Absent ELSE disk[f]
    BY <1>0, <1>28, FileNames DEF MergeClose, Unlinked
  <2>3. \A f \in Live : f \in Files(eargc) /\ ~(f \in range[1] .. range[2] - 1 /\ f >= eargc)
    BY LiveFiles, RangeFacts
  <2>4. \A f \in nfiles .. eargc + MaxTemp : f \in Files(eargc) /\ f \notin range[1] .. range[2] - 1
    BY <1>0, FileNames, RangeFacts
  <2>5. UNCHANGED <<nfiles, foreign, eargc>>
    BY <1>28 DEF MergeClose
  <2>6. \A f \in Live : disk'[f] = disk[f]
    BY <2>2, <2>3
  <2>7. \A f \in nfiles .. eargc + MaxTemp : disk'[f] = disk[f]
    BY <2>2, <2>4
  <2> QED BY <1>0, <2>1, <2>5, <2>6, <2>7 DEF FilesRight
<1>31. CASE MergeCloseCuts
  <2>1. Live' = Live
    BY <1>31, LiveSame DEF MergeCloseCuts, SortPhase
  <2>2. PICK s \in Cuts(disk[os]) : disk' = Unlinked([disk EXCEPT ![os] = s])
    BY <1>31 DEF MergeCloseCuts
  <2>3. os \in Live /\ os \in Files(eargc) /\ disk[os] \in Seq(Lines)
    BY <1>0, <1>31, OutputLive, LiveFiles DEF MergeCloseCuts, Merging, FilesRight
  <2>4. s \in Seq(Lines)
    BY <2>3, CutText
  <2>5. \A f \in Files(eargc) :
          disk'[f] = IF f \in range[1] .. range[2] - 1 /\ f >= eargc THEN Absent ELSE IF f = os THEN s ELSE disk[f]
    BY <1>0, <2>2, <2>3, FileNames DEF Unlinked
  <2>6. \A f \in Live : f \in Files(eargc) /\ ~(f \in range[1] .. range[2] - 1 /\ f >= eargc) /\ disk[f] \in Seq(Lines)
    BY <1>0, LiveFiles, RangeFacts DEF FilesRight
  <2>7. os < nfiles /\ nfiles \in Nat
    BY <2>3, LiveFiles, RangeFacts
  <2>8. \A f \in nfiles .. eargc + MaxTemp : f \in Files(eargc) /\ f \notin range[1] .. range[2] - 1 /\ f # os
    BY <1>0, <2>7, FileNames, RangeFacts
  <2>9. UNCHANGED <<nfiles, foreign, eargc>>
    BY <1>31 DEF MergeCloseCuts
  <2>10. \A f \in Live : disk'[f] \in Seq(Lines)
    BY <2>4, <2>5, <2>6
  <2>11. \A f \in nfiles .. eargc + MaxTemp : disk'[f] = disk[f]
    BY <2>5, <2>8
  <2> QED BY <1>0, <2>1, <2>9, <2>10, <2>11 DEF FilesRight
<1> QED BY <1>1, <1>2, <1>3, <1>4, <1>6, <1>8, <1>9, <1>10, <1>11, <1>12, <1>13, <1>15, <1>17, <1>18,
           <1>19, <1>20, <1>21, <1>22, <1>24, <1>25, <1>26, <1>28, <1>30, <1>31, Stopped DEF SortNext

\* exit is the end.
LEMMA Running ==
  ASSUME SortNext
  PROVE  pc # "exit"
BY DEF SortNext, ReadLine, ReadOn, ReadAll, StoreChunk, StoreChunkFails, PutLine, PutLineFails, PutAll,
       QusortBegin, QusortLoop, QusortParted, QusortReturn, PlanRun, PlanFails, PlanOutput, PlanDone,
       OpenFile, OpenedAll, DropVoid, SortAgain, NoneDropped, MergeLine, MergeLineFails, StreamEnds,
       StreamReads, NextLine, Disordered, MergeClose, PutAllCuts, CreateFails, ReadFails, MergeCloseCuts

LEMMA OptStays ==
  ASSUME SortNext
  PROVE  opt' = opt /\ input' = input /\ eargc' = eargc
BY DEF SortNext, ReadLine, ReadOn, ReadAll, StoreChunk, StoreChunkFails, PutLine, PutLineFails, PutAll,
       QusortBegin, QusortLoop, QusortParted, QusortReturn, PlanRun, PlanFails, PlanOutput, PlanDone,
       OpenFile, OpenedAll, DropVoid, SortAgain, NoneDropped, MergeLine, MergeLineFails, StreamEnds,
       StreamReads, NextLine, Disordered, MergeClose, PutAllCuts, CreateFails, ReadFails, MergeCloseCuts,
       Failed, setup

\* Sorting and merging are apart.
LEMMA Phases ==
  ASSUME Base, pc # "exit"
  PROVE  /\ ~(SortPhase /\ Merging) /\ (SortPhase \/ Merging \/ pc = "plan")
         /\ pc = "plan" => ~SortPhase /\ ~Merging
         /\ pc = "qusort" => (SortPhase <=> caller = "sort") /\ (Merging <=> caller = "merge")
         /\ SortPhase => caller = "sort"
         /\ Merging => caller = "merge"
<1>1. pc \in States /\ caller \in {"sort", "merge"}
  BY DEF Base, SortTypes
<1> QED BY <1>1 DEF Base, RangeRight, SortPhase, Merging, States

\* The length of the chunk stays when lines of it are voided.
LEMMA TextLength ==
  ASSUME Base, QusortParted
  PROVE  Len(text') = Len(text)
<1>1. text' = (IF caller = "sort" THEN VoidedBy(text, Doubles) ELSE text)
  BY PartedStep
<1>2. text \in Seq(Cells)
  BY DEF Base, SortTypes
<1>3. text \in [1 .. Len(text) -> Cells] /\ Len(text) \in Nat
  BY <1>2, LenProperties
<1>4. VoidedBy(text, Doubles) \in [1 .. Len(text) -> Cells]
  BY <1>3, Numbers DEF VoidedBy
<1>5. Len(VoidedBy(text, Doubles)) = Len(text)
  BY <1>3, <1>4, FunctionSeq
<1> QED BY <1>1, <1>5

\* Neither files nor arguments are moved on.
LEMMA RangeQuiet ==
  ASSUME Base, pc # "exit", UNCHANGED <<opt, eargc, nfiles, unread, is, range, caller, os>>,
         Len(text') = Len(text), SortPhase' <=> SortPhase, Merging' <=> Merging,
         pc' = "put" <=> pc = "put", pc' = "read" <=> pc = "read", pc = "close" => pc' = "close"
  PROVE  RangeRight'
<1>1. Output' = Output /\ (Direct' <=> Direct) /\ (Done' <=> Done)
  BY DEF Output, Direct, Done
<1> QED BY <1>1 DEF Base, RangeRight

LEMMA RangeKept ==
  ASSUME Base, pc # "exit", SortNext, pc' # "exit"
  PROVE  RangeRight'
<1> USE DEF setup, reading, qstate, streams, flags
<1>0. SortTypes /\ RangeRight /\ eargc \in Nat \ {0} /\ is \in 1 .. eargc
  BY DEF Base, SortTypes
<1>1. CASE ReadLine
  <2>1. /\ SortPhase /\ SortPhase' /\ ~Merging' /\ pc' = "read" /\ unread[is] # << >>
        /\ UNCHANGED <<opt, eargc, nfiles, is, range, caller, os>> /\ unread' = [unread EXCEPT ![is] = Tail(@)]
    BY <1>1 DEF ReadLine, SortPhase, Merging
  <2>2. \A k \in 1 .. is - 1 : unread'[k] = << >>
    <3>1. \A k \in 1 .. is - 1 : k # is
      BY <1>0
    <3>2. \A k \in 1 .. is - 1 : unread[k] = << >>
      BY <1>0, <2>1 DEF RangeRight
    <3> QED BY <2>1, <3>1, <3>2
  <2> QED BY <1>0, <2>1, <2>2 DEF RangeRight
<1>2. CASE ReadOn
  <2>1. /\ SortPhase /\ SortPhase' /\ ~Merging' /\ pc' = "read" /\ unread[is] = << >> /\ is' = is + 1
        /\ UNCHANGED <<opt, eargc, nfiles, unread, range, caller, os>>
    BY <1>2 DEF ReadOn, SortPhase, Merging
  <2>2. \A k \in 1 .. is' - 1 : unread'[k] = << >>
    <3>1. \A k \in 1 .. is' - 1 : k = is \/ k \in 1 .. is - 1
      BY <1>0, <2>1
    <3>2. \A k \in 1 .. is - 1 : unread[k] = << >>
      BY <1>0, <2>1 DEF RangeRight
    <3> QED BY <2>1, <3>1, <3>2
  <2> QED BY <1>0, <2>1, <2>2 DEF RangeRight
<1>3. CASE ReadAll
  <2>1. SortPhase /\ caller = "sort"
    BY <1>0, <1>3 DEF ReadAll, SortPhase, RangeRight
  <2>2. /\ SortPhase' /\ ~Merging' /\ pc' = "qusort"
        /\ UNCHANGED <<opt, eargc, nfiles, unread, is, range, caller, os, text>>
    BY <1>3, <2>1 DEF ReadAll, Sort, SortPhase, Merging
  <2>3. ASSUME Done PROVE \A k \in 1 .. eargc : unread[k] = << >>
    <3>1. unread[is] = << >> /\ is = eargc
      BY <1>3, <2>3, Numbers DEF ReadAll, Done
    <3>2. \A k \in 1 .. eargc : k = is \/ k \in 1 .. is - 1
      BY <1>0, <3>1
    <3>3. \A k \in 1 .. is - 1 : unread[k] = << >>
      BY <1>0, <2>1 DEF RangeRight
    <3> QED BY <3>1, <3>2, <3>3
  <2>4. Done' <=> Done
    BY <2>2 DEF Done
  <2> QED BY <1>0, <2>1, <2>2, <2>3, <2>4 DEF RangeRight
<1>4. CASE StoreChunk
  <2>1. SortPhase /\ caller = "sort" /\ pc = "store" /\ pc # "read"
    BY <1>0, <1>4 DEF StoreChunk, SortPhase, RangeRight
  <2>2. /\ SortPhase' /\ ~Merging' /\ pc' = "put" /\ UNCHANGED <<opt, eargc, unread, is, range, caller, text>>
        /\ os' = IF Direct THEN Output ELSE nfiles
        /\ nfiles' = IF Direct THEN nfiles ELSE nfiles + 1
    BY <1>4, <2>1 DEF StoreChunk, SortPhase, Merging
  <2>3. Done => \A k \in 1 .. eargc : unread[k] = << >>
    BY <1>0, <2>1 DEF RangeRight
  <2>4. (Done' <=> Done) /\ Output' = Output
    BY <2>2 DEF Done, Output
  <2>5. nfiles \in Nat /\ eargc <= nfiles /\ range[2] \in Nat
    BY <2>1, RangeFacts
  <2>6. CASE Direct
    <3>1. os' = Output /\ nfiles' = nfiles /\ Direct' /\ Done
      BY <2>2, <2>4, <2>6 DEF Direct
    <3> QED BY <1>0, <2>1, <2>2, <2>3, <2>4, <3>1 DEF RangeRight
  <2>7. CASE ~Direct
    <3>1. os' = nfiles /\ nfiles' = nfiles + 1
      BY <2>2, <2>7
    <3>2. ~Direct' /\ os' = nfiles' - 1 /\ nfiles' > eargc' /\ (range[2] <= nfiles => range[2] <= nfiles')
      BY <1>0, <2>2, <2>5, <3>1 DEF Direct
    <3> QED BY <1>0, <2>1, <2>2, <2>3, <2>4, <3>2 DEF RangeRight
  <2> QED BY <2>6, <2>7
<1>6. CASE PutLine
  BY <1>6, RangeQuiet DEF PutLine, SortPhase, Merging
<1>8. CASE PutAll \/ PutAllCuts
  <2>1. SortPhase /\ caller = "sort" /\ pc = "put" /\ pc # "read"
    BY <1>0, <1>8 DEF PutAll, PutAllCuts, SortPhase, RangeRight
  <2>2. UNCHANGED <<opt, eargc, nfiles, unread, is, range, caller, os>>
    BY <1>8 DEF PutAll, PutAllCuts
  <2>3. Done => \A k \in 1 .. eargc : unread[k] = << >>
    BY <1>0, <2>1 DEF RangeRight
  <2>4. CASE Done
    <3>1. ~SortPhase' /\ ~Merging' /\ pc' = "plan"
      BY <1>8, <2>4 DEF PutAll, PutAllCuts, SortPhase, Merging
    <3> QED BY <1>0, <2>2, <2>3, <2>4, <3>1 DEF RangeRight
  <2>5. CASE ~Done
    <3>1. SortPhase' /\ ~Merging' /\ pc' = "read"
      BY <1>8, <2>5 DEF PutAll, PutAllCuts, SortPhase, Merging
    <3> QED BY <1>0, <2>1, <2>2, <3>1 DEF RangeRight
  <2> QED BY <2>4, <2>5
<1>9. CASE QusortBegin
  BY <1>9, RangeQuiet DEF QusortBegin, SortPhase, Merging
<1>10. CASE QusortLoop
  BY <1>10, RangeQuiet DEF QusortLoop, SortPhase, Merging
<1>11. CASE QusortParted
  BY <1>11, TextLength, RangeQuiet DEF QusortParted, SortPhase, Merging
<1>12. CASE QusortReturn
  <2>1. caller \in {"sort", "merge"}
    BY <1>0 DEF SortTypes
  <2> QED BY <1>12, <2>1, RangeQuiet DEF QusortReturn, SortPhase, Merging
<1>13. CASE PlanRun
  <2>1. /\ ~SortPhase' /\ Merging' /\ ~SortPhase /\ pc' = "open" /\ nfiles' = nfiles + 1 /\ os' = nfiles
        /\ UNCHANGED <<opt, eargc, unread, is, text>> /\ caller' = "merge"
    BY <1>13 DEF PlanRun, SortPhase, Merging
  <2>2. /\ range'[1] = range[2] /\ range'[2] \in Nat /\ range'[2] <= nfiles /\ range[2] < range'[2]
        /\ range[2] <= range'[2] /\ range'[2] <= range'[1] + N
    BY <1>13, PlanRunFacts
  <2>3. \A k \in 1 .. eargc : unread[k] = << >>
    BY <1>0, <2>1 DEF RangeRight
  <2>4. range'[1] <= range'[2] /\ range'[2] <= nfiles' /\ range'[1] < range'[2] /\ range'[2] # nfiles' /\ os' = nfiles' - 1
        /\ nfiles' > eargc
    BY <2>1, <2>2, RangeFacts
  <2>5. ~opt.m /\ ~opt.c => range'[1] >= eargc
    BY <1>0, <2>2, RangeFacts DEF RangeRight
  <2> QED BY <2>1, <2>2, <2>3, <2>4, <2>5 DEF RangeRight
<1>15. CASE PlanOutput
  <2> DEFINE a == range[2]
  <2>1. /\ ~SortPhase' /\ Merging' /\ ~SortPhase /\ pc' = "open" /\ nfiles' = nfiles /\ os' = Output
        /\ UNCHANGED <<opt, eargc, unread, is, text>> /\ caller' = "merge"
        /\ range' = <<a, nfiles>> /\ ~Staged /\ a # nfiles
    BY <1>15 DEF PlanOutput, SortPhase, Merging
  <2>2. a \in Nat /\ nfiles \in Nat /\ a <= nfiles /\ range[1] \in Nat /\ range[1] <= a /\ N \in Nat /\ eargc \in Nat
    BY RangeFacts
  <2>3. nfiles <= a + N /\ ~(opt.m /\ ~opt.c /\ opt.o # Stdout /\ a < eargc)
    BY <2>1, <2>2 DEF Staged
  <2>4. \A k \in 1 .. eargc : unread[k] = << >>
    BY <1>0, <2>1 DEF RangeRight
  <2>5. ~opt.m /\ ~opt.c => a >= eargc
    BY <1>0, <2>2 DEF RangeRight
  <2>6. Output >= 0 => a >= eargc
    BY <2>2, <2>3, <2>5 DEF Output, Stdout
  <2> HIDE DEF a
  <2>7. range'[1] = a /\ range'[2] = nfiles /\ Output' = Output
    BY <2>1 DEF Output
  <2>8. a < nfiles
    BY <2>1, <2>2
  <2>9. range'[1] <= range'[2] /\ range'[2] <= nfiles' /\ range'[2] <= range'[1] + N /\ range'[1] < range'[2]
        /\ range'[2] = nfiles'
    BY <2>1, <2>2, <2>3, <2>7, <2>8
  <2> QED BY <2>1, <2>4, <2>5, <2>6, <2>7, <2>9 DEF RangeRight
<1>17. CASE OpenFile
  BY <1>17, RangeQuiet DEF OpenFile, SortPhase, Merging
<1>18. CASE OpenedAll
  <2>1. caller = "merge"
    BY <1>18, Phases DEF OpenedAll, Merging
  <2> QED BY <1>18, <2>1, RangeQuiet DEF OpenedAll, Sort, SortPhase, Merging
<1>19. CASE DropVoid
  BY <1>19, RangeQuiet DEF DropVoid, SortPhase, Merging
<1>20. CASE SortAgain
  <2>1. caller = "merge"
    BY <1>20, Phases DEF SortAgain, Merging
  <2> QED BY <1>20, <2>1, RangeQuiet DEF SortAgain, Sort, SortPhase, Merging
<1>21. CASE NoneDropped
  BY <1>21, RangeQuiet DEF NoneDropped, SortPhase, Merging
<1>22. CASE MergeLine
  BY <1>22, RangeQuiet DEF MergeLine, SortPhase, Merging
<1>24. CASE StreamEnds
  BY <1>24, RangeQuiet DEF StreamEnds, SortPhase, Merging
<1>25. CASE StreamReads
  BY <1>25, RangeQuiet DEF StreamReads, SortPhase, Merging
<1>26. CASE NextLine
  BY <1>26, RangeQuiet DEF NextLine, SortPhase, Merging
<1>28. CASE MergeClose \/ MergeCloseCuts
  <2>1. ~SortPhase /\ ~SortPhase' /\ ~Merging' /\ pc' = "plan"
        /\ UNCHANGED <<opt, eargc, nfiles, unread, is, range, caller, os>>
    BY <1>28 DEF MergeClose, MergeCloseCuts, SortPhase, Merging
  <2> QED BY <1>0, <2>1 DEF RangeRight
<1> QED BY <1>1, <1>2, <1>3, <1>4, <1>6, <1>8, <1>9, <1>10, <1>11, <1>12, <1>13, <1>15, <1>17, <1>18,
           <1>19, <1>20, <1>21, <1>22, <1>24, <1>25, <1>26, <1>28, Stopped DEF SortNext

-----------------------------------------------------------------------------
(***************************************************************************)
(* Streams.                                                                *)
(***************************************************************************)
\* What is in a sequence.
Elements(s) == {s[k] : k \in DOMAIN s}

LEMMA PermutedElements ==
  ASSUME NEW D, NEW E, NEW s \in Seq(D), NEW t \in Seq(E), NEW r, Permuted(s, t, r)
  PROVE  Elements(t) = Elements(s) /\ (Distinct(s) => Distinct(t)) /\ Len(t) = Len(s)
<1>1. DOMAIN s = 1 .. Len(s) /\ DOMAIN t = 1 .. Len(t) /\ Len(t) = Len(s)
  BY LenProperties DEF Permuted
<1>2. ASSUME NEW k \in 1 .. Len(s) PROVE t[k] \in Elements(s) /\ s[k] \in Elements(t)
  <2>1. CASE Inside(k, r)
    BY <1>1, <1>2, <2>1 DEF Permuted, Elements
  <2>2. CASE ~Inside(k, r)
    BY <1>1, <1>2, <2>2 DEF Permuted, Elements
  <2> QED BY <2>1, <2>2
<1>3. Elements(t) \subseteq Elements(s)
  BY <1>1, <1>2 DEF Elements
<1>4. Elements(s) \subseteq Elements(t)
  BY <1>1, <1>2 DEF Elements
<1> QED BY <1>1, <1>3, <1>4 DEF Permuted

LEMMA SameElements ==
  ASSUME NEW D, NEW E, NEW s \in Seq(D), NEW t \in Seq(E), SamePointers(s, t)
  PROVE  Elements(t) = Elements(s)
<1>1. DOMAIN s = 1 .. Len(s) /\ DOMAIN t = 1 .. Len(t)
  BY LenProperties
<1>2. Len(t) = Len(s)
  BY DEF SamePointers
<1>3. Elements(t) \subseteq Elements(s)
  <2> SUFFICES ASSUME NEW k \in 1 .. Len(s) PROVE t[k] \in Elements(s)
    BY <1>1, <1>2 DEF Elements
  <2>1. PICK l \in 1 .. Len(s) : t[k] = s[l]
    BY DEF SamePointers
  <2> QED BY <1>1, <2>1 DEF Elements
<1>4. Elements(s) \subseteq Elements(t)
  <2> SUFFICES ASSUME NEW l \in 1 .. Len(s) PROVE s[l] \in Elements(t)
    BY <1>1 DEF Elements
  <2>1. PICK k \in 1 .. Len(s) : t[k] = s[l]
    BY DEF SamePointers
  <2> QED BY <1>1, <1>2, <2>1 DEF Elements
<1> QED BY <1>3, <1>4

LEMMA FrontElements ==
  ASSUME NEW D, NEW s \in Seq(D), s # << >>, Distinct(s)
  PROVE  /\ Elements(Front(s)) = Elements(s) \ {Last(s)} /\ Distinct(Front(s)) /\ Last(s) \in Elements(s)
<1>1. /\ Len(s) \in Nat \ {0} /\ DOMAIN s = 1 .. Len(s) /\ Last(s) = s[Len(s)]
      /\ DOMAIN Front(s) = 1 .. Len(s) - 1 /\ \A i \in 1 .. Len(s) - 1 : Front(s)[i] = s[i]
  BY FrontLast
<1> DEFINE n == Len(s)
           b == Front(s)
<1> HIDE DEF n, b
<1>2. /\ n \in Nat \ {0} /\ DOMAIN s = 1 .. n /\ Last(s) = s[n]
      /\ DOMAIN b = 1 .. n - 1 /\ \A i \in 1 .. n - 1 : b[i] = s[i]
  BY <1>1 DEF n, b
<1>3. \A i \in 1 .. n - 1 : i \in 1 .. n /\ i # n
  BY <1>2
<1>4. n \in 1 .. n /\ \A i \in 1 .. n : i = n \/ i \in 1 .. n - 1
  BY <1>2
<1>5. \A i \in 1 .. n - 1 : s[i] # s[n]
  BY <1>2, <1>3, <1>4 DEF Distinct
<1>6. Elements(b) = Elements(s) \ {Last(s)}
  BY <1>2, <1>3, <1>4, <1>5 DEF Elements
<1>7. Distinct(b)
  BY <1>2, <1>3 DEF Distinct
<1>8. Last(s) \in Elements(s)
  BY <1>2, <1>4 DEF Elements
<1> QED BY <1>6, <1>7, <1>8 DEF b

LEMMA AppendElements ==
  ASSUME NEW D, NEW s \in Seq(D), NEW x \in D, x \notin Elements(s), Distinct(s)
  PROVE  Elements(Append(s, x)) = Elements(s) \cup {x} /\ Distinct(Append(s, x))
<1> DEFINE n == Len(s)
           t == Append(s, x)
<1>1. n \in Nat /\ DOMAIN s = 1 .. n /\ DOMAIN t = 1 .. n + 1 /\ t[n + 1] = x /\ \A i \in 1 .. n : t[i] = s[i]
  BY AppendProperties, LenProperties
<1> HIDE DEF n, t
<1>2. \A i \in 1 .. n + 1 : i = n + 1 \/ i \in 1 .. n
  BY <1>1
<1>3. n + 1 \in 1 .. n + 1 /\ \A i \in 1 .. n : i \in 1 .. n + 1
  BY <1>1
<1>4. Elements(t) = Elements(s) \cup {x}
  BY <1>1, <1>2, <1>3 DEF Elements
<1>5. \A i \in 1 .. n : s[i] # x
  BY <1>1 DEF Elements
<1>6. Distinct(t)
  BY <1>1, <1>2, <1>5 DEF Distinct
<1> QED BY <1>4, <1>6 DEF t

LEMMA RemoveElements ==
  ASSUME NEW D, NEW s \in Seq(D), NEW q \in 1 .. Len(s), Distinct(s)
  PROVE  Elements(RemoveAt(s, q)) = Elements(s) \ {s[q]} /\ Distinct(RemoveAt(s, q))
<1> DEFINE n == Len(s)
           t == RemoveAt(s, q)
<1>1. /\ n \in Nat /\ DOMAIN s = 1 .. n /\ t \in Seq(D) /\ Len(t) = n - 1
      /\ \A k \in 1 .. n - 1 : t[k] = IF k < q THEN s[k] ELSE s[k + 1]
  BY RemoveFacts, LenProperties
<1>2. DOMAIN t = 1 .. n - 1 /\ q \in 1 .. n
  BY <1>1, LenProperties
<1> HIDE DEF n, t
<1> DEFINE at(k) == IF k < q THEN k ELSE k + 1
<1>3. \A k \in 1 .. n - 1 : at(k) \in 1 .. n /\ at(k) # q /\ t[k] = s[at(k)]
  BY <1>1, <1>2
<1>4. \A k, l \in 1 .. n - 1 : at(k) = at(l) => k = l
  BY <1>1, <1>2
<1>5. \A k \in 1 .. n : k # q => \E l \in 1 .. n - 1 : at(l) = k
  <2> SUFFICES ASSUME NEW k \in 1 .. n, k # q PROVE \E l \in 1 .. n - 1 : at(l) = k
    OBVIOUS
  <2>1. CASE k < q
    BY <1>1, <1>2, <2>1
  <2>2. CASE k > q
    <3>1. k - 1 \in 1 .. n - 1 /\ at(k - 1) = k
      BY <1>1, <1>2, <2>2
    <3> QED BY <3>1
  <2> QED BY <1>2, <2>1, <2>2
<1> HIDE DEF at
<1>6. \A k \in 1 .. n : k # q => s[k] # s[q]
  BY <1>1, <1>2 DEF Distinct
<1>7. Elements(t) \subseteq Elements(s) \ {s[q]}
  <2> SUFFICES ASSUME NEW k \in 1 .. n - 1 PROVE t[k] \in Elements(s) /\ t[k] # s[q]
    BY <1>2 DEF Elements
  <2> QED BY <1>1, <1>3, <1>6 DEF Elements
<1>8. Elements(s) \ {s[q]} \subseteq Elements(t)
  <2> SUFFICES ASSUME NEW k \in 1 .. n, s[k] # s[q] PROVE s[k] \in Elements(t)
    BY <1>1 DEF Elements
  <2>1. PICK l \in 1 .. n - 1 : at(l) = k
    BY <1>5
  <2> QED BY <1>2, <1>3, <2>1 DEF Elements
<1>9. Distinct(t)
  <2> SUFFICES ASSUME NEW k \in 1 .. n - 1, NEW l \in 1 .. n - 1, t[k] = t[l] PROVE k = l
    BY <1>2 DEF Distinct
  <2>1. at(k) = at(l)
    BY <1>1, <1>3 DEF Distinct
  <2> QED BY <1>4, <2>1
<1> QED BY <1>7, <1>8, <1>9 DEF t

LEMMA UsingIs == Using = Elements(ibuf) /\ Using' = Elements(ibuf')
BY DEF Using, Elements

\* No pointer moves, no line changes but that of a structure not in use.
LEMMA StreamsQuiet ==
  ASSUME Base, pc # "exit", UNCHANGED <<range, opened, ibuf, caller>>, Len(text') = Len(text),
         SortPhase' <=> SortPhase, Merging' <=> Merging,
         pc' # "read", pc' # "open", pc' # "close", pc # "open" \/ opened = Prev,
         pc' \in {"line", "next", "check"} => ibuf # << >> /\ \A p \in Using : mem'[p] # NoLine,
         pc' \in {"qusort", "store", "put"} => pc \in {"qusort", "store"} \/ Merging
  PROVE  StreamsRight'
<1>1. Using' = Using /\ Prev' = Prev
  BY DEF Using, Prev
<1>2. pc \in States /\ caller \in {"sort", "merge"} /\ StreamsRight
  BY DEF Base, SortTypes
<1>3. Merging /\ pc # "open" => opened = Prev
  BY <1>2 DEF StreamsRight
<1>4. Merging' => opened' = Prev'
  BY <1>1, <1>3 DEF Merging
<1>5. pc' \in {"qusort", "store", "put"} \/ Merging' => Distinct(ibuf)
  BY <1>2, Phases DEF SortPhase, Merging, StreamsRight
<1>6. pc' \in {"qusort", "store", "put"} /\ caller' = "sort" => Using \subseteq 1 .. Len(text)
  BY <1>2, Phases DEF SortPhase, Merging, StreamsRight
<1>7. pc' \in {"qusort", "store"} /\ caller' = "sort" => Using = 1 .. Len(text)
  BY <1>2, Phases DEF SortPhase, Merging, StreamsRight
<1>8. Merging' => Using \subseteq 0 .. Prev - 1 /\ opened <= Prev
  BY <1>2 DEF StreamsRight
<1> QED BY <1>1, <1>4, <1>5, <1>6, <1>7, <1>8 DEF StreamsRight

\* Before the pointers are used, and once they are not any more.
LEMMA StreamsIdle ==
  ASSUME pc' \in {"read", "plan"}, pc' = "read" => text' \in Seq(Lines)
  PROVE  StreamsRight'
BY DEF StreamsRight, Merging

LEMMA StreamsKept ==
  ASSUME Base, pc # "exit", SortNext, pc' # "exit"
  PROVE  StreamsRight'
<1> USE DEF setup, reading, qstate, streams, flags
<1>0. SortTypes /\ RangeRight /\ StreamsRight /\ FilesRight /\ caller \in {"sort", "merge"}
      /\ ibuf \in Seq(Nat) /\ text \in Seq(Cells) /\ mem \in [0 .. N -> Cells] /\ Using = Elements(ibuf)
  BY UsingIs DEF Base, SortTypes
<1>1. CASE ReadLine
  <2>1. text \in Seq(Lines) /\ pc' = "read"
    BY <1>0, <1>1 DEF ReadLine, StreamsRight
  <2>2. Head(unread[is]) \in Lines
    BY <1>0, <1>1, HeadTailProperties DEF ReadLine, SortTypes
  <2>3. text' \in Seq(Lines)
    BY <1>1, <2>1, <2>2, AppendProperties DEF ReadLine
  <2> QED BY <2>1, <2>3, StreamsIdle
<1>2. CASE ReadOn
  BY <1>0, <1>2, StreamsIdle DEF ReadOn, StreamsRight
<1>3. CASE ReadAll
  <2> DEFINE n == Len(text)
             b == [k \in 1 .. n |-> k]
  <2>1. caller = "sort" /\ ibuf' = b /\ pc' = "qusort" /\ UNCHANGED <<text, caller>>
    BY <1>0, <1>3 DEF ReadAll, Sort, RangeRight, SortPhase
  <2>2. Distinct(b) /\ Elements(b) = 1 .. n
    BY DEF Distinct, Elements
  <2> HIDE DEF b
  <2>3. Using' = 1 .. n /\ Distinct(ibuf')
    BY <2>1, <2>2, UsingIs
  <2>4. ~Merging'
    BY <2>1 DEF Merging
  <2> QED BY <2>1, <2>3, <2>4 DEF StreamsRight
<1>4. CASE StoreChunk
  <2>1. SortPhase /\ SortPhase' /\ ~Merging /\ ~Merging'
    BY <1>4 DEF StoreChunk, SortPhase, Merging
  <2> QED BY <1>4, <2>1, StreamsQuiet DEF StoreChunk
<1>6. CASE PutLine
  <2>1. caller = "sort" /\ pc = "put" /\ pc' = "put" /\ ibuf # << >> /\ ibuf' = Front(ibuf)
        /\ UNCHANGED <<text, caller>>
    BY <1>0, <1>6 DEF PutLine, RangeRight, SortPhase
  <2>2. Distinct(ibuf) /\ Using \subseteq 1 .. Len(text)
    BY <1>0, <2>1 DEF StreamsRight
  <2>3. Distinct(ibuf') /\ Using' \subseteq 1 .. Len(text)
    BY <1>0, <2>1, <2>2, FrontElements, UsingIs
  <2>4. ~Merging'
    BY <2>1 DEF Merging
  <2> QED BY <2>1, <2>3, <2>4 DEF StreamsRight
<1>8. CASE PutAll \/ PutAllCuts
  BY <1>8, Numbers, StreamsIdle DEF PutAll, PutAllCuts
<1>9. CASE QusortBegin
  <2>1. (SortPhase' <=> SortPhase) /\ (Merging' <=> Merging)
    BY <1>9 DEF QusortBegin, SortPhase, Merging
  <2> QED BY <1>9, <2>1, StreamsQuiet DEF QusortBegin
<1>10. CASE QusortLoop
  <2>1. pc = "qusort" /\ pc' = "qusort" /\ UNCHANGED <<text, mem, range, opened, caller>>
    BY <1>10 DEF QusortLoop
  <2>2. ibuf' \in Seq(DOMAIN Memory) /\ Permuted(ibuf, ibuf', Last(segs))
    BY <1>10, LoopStep
  <2>3. Distinct(ibuf)
    BY <1>0, <2>1 DEF StreamsRight
  <2>4. Distinct(ibuf') /\ Using' = Using
    BY <1>0, <2>2, <2>3, PermutedElements, UsingIs
  <2>5. (Merging' <=> Merging) /\ Prev' = Prev
    BY <2>1 DEF Merging, Prev
  <2> QED BY <1>0, <2>1, <2>4, <2>5 DEF StreamsRight
<1>11. CASE QusortParted
  <2>1. (SortPhase' <=> SortPhase) /\ (Merging' <=> Merging)
    BY <1>11 DEF QusortParted, SortPhase, Merging
  <2>2. Len(text') = Len(text)
    BY <1>11, TextLength
  <2> QED BY <1>11, <2>1, <2>2, StreamsQuiet DEF QusortParted
<1>12. CASE QusortReturn
  <2>1. (SortPhase' <=> SortPhase) /\ (Merging' <=> Merging)
    BY <1>0, <1>12 DEF QusortReturn, SortPhase, Merging
  <2>2. pc = "qusort" /\ pc' \in {"store", "drop"} /\ UNCHANGED <<text, range, opened, ibuf, caller>>
    BY <1>12 DEF QusortReturn
  <2> QED BY <2>1, <2>2, StreamsQuiet
<1>13. CASE PlanRun
  <2>1. /\ pc' = "open" /\ opened' = 0 /\ ibuf' = << >> /\ disk' = [disk EXCEPT ![nfiles] = << >>]
        /\ caller' = "merge"
    BY <1>13 DEF PlanRun
  <2>2. range'[1] = range[2] /\ range'[2] \in Nat /\ range'[2] <= nfiles /\ range[2] < range'[2] /\ range[2] < nfiles
    BY <1>13, PlanRunFacts
  <2>3. Merging' /\ Distinct(ibuf') /\ Using' = {}
    BY <2>1 DEF Merging, Distinct, Using
  <2> DEFINE a == range[2]
             b == range'[2]
  <2>4. Prev' = b - a /\ range'[1] = a
    BY <2>2 DEF Prev
  <2>5. a \in Nat /\ b \in Nat /\ a < b /\ b <= nfiles /\ nfiles \in Nat
    BY <2>2, RangeFacts
  <2>6. Live = a .. nfiles - 1
    BY <2>2 DEF Live
  <2> HIDE DEF a, b
  <2>7. ASSUME NEW p \in opened' .. Prev' - 1 PROVE disk'[range'[1] + p] \in Seq(Lines)
    <3>1. p \in 0 .. b - a - 1
      BY <2>1, <2>4
    <3>2. a + p \in a .. nfiles - 1 /\ a + p # nfiles
      BY <2>5, <3>1
    <3>3. disk[a + p] \in Seq(Lines) /\ a + p \in Files(eargc)
      BY <1>0, <2>6, <3>2, LiveFiles DEF FilesRight
    <3>4. disk'[a + p] = disk[a + p]
      BY <1>0, <2>1, <3>2, <3>3 DEF SortTypes
    <3> QED BY <2>4, <3>3, <3>4
  <2>8. opened' <= Prev' /\ {} \subseteq 0 .. Prev' - 1
    BY <2>1, <2>4, <2>5
  <2> QED BY <2>1, <2>3, <2>7, <2>8 DEF StreamsRight
<1>15. CASE PlanOutput
  <2> DEFINE a == range[2]
  <2>1. /\ pc' = "open" /\ opened' = 0 /\ ibuf' = << >> /\ disk' = [disk EXCEPT ![Output] = << >>]
        /\ caller' = "merge" /\ range' = <<a, nfiles>> /\ a # nfiles
    BY <1>15 DEF PlanOutput
  <2>2. a \in Nat /\ nfiles \in Nat /\ a <= nfiles
    BY RangeFacts
  <2> HIDE DEF a
  <2>3. Merging' /\ Distinct(ibuf') /\ Using' = {}
    BY <2>1 DEF Merging, Distinct, Using
  <2>4. Prev' = nfiles - a /\ range'[1] = a
    BY <2>1 DEF Prev
  <2>5. a < nfiles
    BY <2>1, <2>2
  <2>6. Live = a .. nfiles - 1
    BY <2>5 DEF Live, a
  <2>7. ASSUME NEW p \in opened' .. Prev' - 1 PROVE disk'[range'[1] + p] \in Seq(Lines)
    <3>1. p \in 0 .. nfiles - a - 1
      <4>1. opened' = 0
        BY <2>1
      <4> QED BY <2>4, <4>1
    <3>2. a + p \in a .. nfiles - 1
      BY <2>2, <3>1
    <3>3. disk[a + p] \in Seq(Lines) /\ a + p \in Files(eargc)
      BY <1>0, <2>6, <3>2, LiveFiles DEF FilesRight
    <3>4. disk'[a + p] = disk[a + p] \/ disk'[a + p] = << >>
      BY <1>0, <2>1, <3>3 DEF SortTypes
    <3> QED BY <2>4, <3>3, <3>4, Numbers
  <2>8. opened' <= Prev' /\ {} \subseteq 0 .. Prev' - 1
    BY <2>1, <2>2, <2>4
  <2> QED BY <2>1, <2>3, <2>7, <2>8 DEF StreamsRight
<1>17. CASE OpenFile
  <2> DEFINE lines == disk[range[1] + opened]
  <2>1. /\ opened \in 0 .. Prev - 1 /\ opened \in 0 .. N /\ lines \in Seq(Lines) /\ opened \in Nat /\ Merging
    BY <1>17, OpenFacts
  <2>2. /\ pc = "open" /\ pc' = "open" /\ opened' = opened + 1 /\ UNCHANGED <<disk, range, caller>>
    BY <1>17 DEF OpenFile
  <2>3. Merging' /\ Prev' = Prev /\ Prev \in 0 .. N
    BY <2>1, <2>2, StreamFacts DEF Merging, Prev
  <2>4. Distinct(ibuf) /\ Using \subseteq 0 .. opened - 1 /\ \A p \in Using : mem[p] # NoLine
    BY <1>0, <2>1, <2>2 DEF StreamsRight
  <2>5. \A p \in opened' .. Prev' - 1 : disk'[range'[1] + p] \in Seq(Lines)
    <3>1. \A p \in opened + 1 .. Prev - 1 : p \in opened .. Prev - 1
      BY <2>1
    <3>2. \A p \in opened .. Prev - 1 : disk[range[1] + p] \in Seq(Lines)
      BY <1>0, <2>2 DEF StreamsRight
    <3> QED BY <2>2, <2>3, <3>1, <3>2
  <2>6. Distinct(ibuf') /\ Using' \subseteq 0 .. opened /\ \A p \in Using' : mem'[p] # NoLine
    <3>1. CASE lines = << >>
      <4>1. ibuf' = ibuf /\ mem' = mem
        BY <1>17, <3>1 DEF OpenFile
      <4>2. \A p \in 0 .. opened - 1 : p \in 0 .. opened
        BY <2>1
      <4> QED BY <1>0, <2>4, <4>1, <4>2, UsingIs
    <3>2. CASE lines # << >>
      <4>1. ibuf' = Append(ibuf, opened) /\ mem' = [mem EXCEPT ![opened] = Head(lines)]
        BY <1>17, <3>2 DEF OpenFile
      <4>2. Head(lines) \in Lines
        BY <2>1, <3>2, HeadTailProperties
      <4> HIDE DEF lines
      <4>3. opened \notin 0 .. opened - 1 /\ opened \in 0 .. opened /\ \A p \in 0 .. opened - 1 : p \in 0 .. opened
        BY <2>1
      <4>4. Using' = Using \cup {opened} /\ Distinct(ibuf')
        BY <1>0, <2>1, <2>4, <4>1, <4>3, AppendElements, UsingIs
      <4>5. \A p \in Using : p \in 0 .. N
        BY <2>1, <2>4, Numbers
      <4>6. mem'[opened] # NoLine /\ \A p \in Using : mem'[p] = mem[p]
        BY <1>0, <2>1, <2>4, <4>1, <4>2, <4>3, <4>5, Numbers
      <4> QED BY <2>4, <4>3, <4>4, <4>6
    <3> QED BY <3>1, <3>2
  <2>7. 0 .. opened' - 1 = 0 .. opened /\ opened' <= Prev' /\ 0 .. opened \subseteq 0 .. Prev' - 1
    BY <2>1, <2>2, <2>3
  <2> QED BY <2>2, <2>3, <2>5, <2>6, <2>7 DEF StreamsRight
<1>18. CASE OpenedAll
  <2>1. caller = "merge"
    BY <1>18, Phases DEF OpenedAll, Merging
  <2>2. (SortPhase' <=> SortPhase) /\ (Merging' <=> Merging) /\ Merging
    BY <1>18, <2>1 DEF OpenedAll, Sort, SortPhase, Merging
  <2> QED BY <1>18, <2>2, StreamsQuiet DEF OpenedAll, Sort
<1>19. CASE DropVoid
  <2> DEFINE k == Max(Voids)
  <2>1. k \in 1 .. Len(ibuf) /\ Merging
    BY <1>19, DropFacts
  <2>2. pc' = "again" /\ UNCHANGED <<range, opened, caller, text>> /\ pc \in {"drop", "again"}
    BY <1>19 DEF DropVoid
  <2>3. ibuf' = RemoveAt(ibuf, k) \/ ibuf' = ibuf
    BY <1>19 DEF DropVoid
  <2>4. Distinct(ibuf) /\ Using \subseteq 0 .. Prev - 1 /\ opened = Prev
    BY <1>0, <2>1, <2>2 DEF StreamsRight
  <2> HIDE DEF k
  <2>5. Distinct(ibuf') /\ Using' \subseteq Using
    BY <1>0, <2>1, <2>3, <2>4, RemoveElements, UsingIs
  <2>6. Merging' /\ Prev' = Prev
    BY <2>2 DEF Merging, Prev
  <2>7. opened <= Prev
    BY <1>0, <2>1 DEF StreamsRight
  <2> QED BY <2>2, <2>4, <2>5, <2>6, <2>7 DEF StreamsRight
<1>20. CASE SortAgain
  <2>1. caller = "merge"
    BY <1>20, Phases DEF SortAgain, Merging
  <2>2. (SortPhase' <=> SortPhase) /\ (Merging' <=> Merging) /\ Merging
    BY <1>20, <2>1 DEF SortAgain, Sort, SortPhase, Merging
  <2> QED BY <1>20, <2>2, StreamsQuiet DEF SortAgain, Sort
<1>21. CASE NoneDropped
  <2>1. pc = "drop" /\ Merging /\ Voids = {} /\ UNCHANGED <<range, opened, ibuf, caller, text, mem>>
    BY <1>21 DEF NoneDropped, Merging
  <2>2. \A p \in Using : mem[p] # NoLine
    BY <2>1 DEF Voids, Using
  <2>3. CASE ibuf = << >>
    <3>1. pc' = "close" /\ Merging' /\ Prev' = Prev /\ Using' = Using
      BY <1>21, <2>1, <2>3 DEF NoneDropped, Merging, Prev, Using
    <3> QED BY <1>0, <2>1, <2>3, <3>1 DEF StreamsRight
  <2>4. CASE ibuf # << >>
    <3>1. pc' = "line" /\ Merging' /\ ~SortPhase' /\ ~SortPhase
      BY <1>21, <2>1, <2>4 DEF NoneDropped, Merging, SortPhase
    <3> QED BY <2>1, <2>2, <2>4, <3>1, StreamsQuiet
  <2> QED BY <2>3, <2>4
<1>22. CASE MergeLine
  <2>1. Merging /\ Merging' /\ ~SortPhase /\ ~SortPhase' /\ pc' = "next" /\ pc = "line"
        /\ UNCHANGED <<range, opened, ibuf, caller, text>>
    BY <1>22 DEF MergeLine, Merging, SortPhase
  <2>2. Prev \in 0 .. N /\ Using \subseteq 0 .. Prev - 1 /\ ibuf # << >> /\ \A p \in Using : mem[p] # NoLine
    BY <1>0, <2>1, StreamFacts DEF StreamsRight
  <2>3. mem' = mem \/ mem' = [mem EXCEPT ![Prev] = mem[Last(ibuf)]]
    BY <1>22 DEF MergeLine
  <2>4. \A p \in Using : p # Prev /\ p \in 0 .. N
    BY <2>2, Numbers
  <2>5. \A p \in Using : mem'[p] # NoLine
    BY <1>0, <2>2, <2>3, <2>4
  <2> QED BY <2>1, <2>2, <2>5, StreamsQuiet
<1>24. CASE StreamEnds
  <2> DEFINE b == Front(ibuf)
  <2>1. Merging /\ ibuf # << >> /\ Distinct(ibuf) /\ InLine
    BY <1>24, LineFacts DEF StreamEnds, InLine
  <2>2. SamePointers(b, ibuf') /\ Distinct(ibuf') /\ ibuf' \in Seq(Nat)
    BY <1>24, FrontSorted
  <2>3. b \in Seq(Nat) /\ Elements(b) \subseteq Using
    BY <1>0, <2>1, FrontLast, FrontElements
  <2> HIDE DEF b
  <2>4. Using' \subseteq Using
    BY <2>2, <2>3, SameElements, UsingIs
  <2>5. UNCHANGED <<mem, range, opened, caller, text>> /\ pc' = (IF b = << >> THEN "close" ELSE "check") /\ pc = "next"
    BY <1>24 DEF StreamEnds, b
  <2>6. \A p \in Using : mem[p] # NoLine
    BY <1>0, <2>5 DEF StreamsRight
  <2>7. Merging' /\ Prev' = Prev
    BY <2>5 DEF Merging, Prev
  <2>8. Len(ibuf') = Len(b)
    BY <2>2 DEF SamePointers
  <2>9. ibuf' = << >> <=> b = << >>
    BY <2>2, <2>3, <2>8, EmptySeq
  <2>10. Using \subseteq 0 .. Prev - 1 /\ opened <= Prev /\ opened = Prev
    BY <1>0, <2>1, <2>5 DEF StreamsRight
  <2> QED BY <2>2, <2>4, <2>5, <2>6, <2>7, <2>9, <2>10 DEF StreamsRight
<1>25. CASE StreamReads
  <2>1. Merging /\ ibuf # << >> /\ Distinct(ibuf) /\ ibuf \in Seq(0 .. N)
    BY <1>25, LineFacts DEF StreamReads, InLine
  <2>2. SamePointers(ibuf, ibuf') /\ Distinct(ibuf') /\ ibuf' \in Seq(Nat) /\ Holding(mem', ibuf)
    BY <1>25, NextSorted
  <2>3. Using' = Using
    BY <1>0, <2>2, SameElements, UsingIs
  <2>4. UNCHANGED <<range, opened, caller, text>> /\ pc' = "check" /\ pc = "next"
    BY <1>25 DEF StreamReads
  <2>5. \A p \in Using : mem'[p] # NoLine
    <3>1. DOMAIN ibuf = 1 .. Len(ibuf)
      BY <1>0, LenProperties
    <3> QED BY <2>2, <3>1, Numbers DEF Using, Holding
  <2>6. Merging' /\ Prev' = Prev
    BY <2>4 DEF Merging, Prev
  <2>7. Len(ibuf') = Len(ibuf)
    BY <2>2 DEF SamePointers
  <2>8. ibuf' # << >>
    BY <1>0, <2>1, <2>2, <2>7, EmptySeq
  <2>9. Using \subseteq 0 .. Prev - 1 /\ opened <= Prev /\ opened = Prev
    BY <1>0, <2>1, <2>4 DEF StreamsRight
  <2> QED BY <2>2, <2>3, <2>4, <2>5, <2>6, <2>8, <2>9 DEF StreamsRight
<1>26. CASE NextLine
  <2>1. Merging /\ Merging' /\ ~SortPhase /\ ~SortPhase' /\ pc' \in {"line", "next"} /\ pc = "check"
        /\ UNCHANGED <<range, opened, ibuf, caller, text, mem>>
    BY <1>26 DEF NextLine, Merging, SortPhase
  <2>2. ibuf # << >> /\ \A p \in Using : mem[p] # NoLine
    BY <1>0, <2>1 DEF StreamsRight
  <2> QED BY <2>1, <2>2, StreamsQuiet
<1>28. CASE MergeClose \/ MergeCloseCuts
  BY <1>28, StreamsIdle DEF MergeClose, MergeCloseCuts
<1> QED BY <1>1, <1>2, <1>3, <1>4, <1>6, <1>8, <1>9, <1>10, <1>11, <1>12, <1>13, <1>15, <1>17, <1>18,
           <1>19, <1>20, <1>21, <1>22, <1>24, <1>25, <1>26, <1>28, Stopped DEF SortNext

-----------------------------------------------------------------------------
(***************************************************************************)
(* Pointers.                                                               *)
(***************************************************************************)
LEMMA PointersIdle ==
  ASSUME pc' \notin {"qusort", "store", "put", "drop", "line", "next", "check"}
  PROVE  PointersRight'
BY DEF PointersRight

LEMMA PointersInLine ==
  ASSUME pc' \in {"line", "next", "check"}, NEW D, ibuf' \in Seq(D), SortedTo(opt.u, mem', ibuf', Len(ibuf')), opt' = opt
  PROVE  PointersRight'
<1>1. DOMAIN ibuf' = 1 .. Len(ibuf')
  BY LenProperties
<1> QED BY <1>1 DEF PointersRight, SortedTo

\* qusort begins, on the chunk or on the structures.
LEMMA PointersSort ==
  ASSUME SortTypes, NEW D, NEW line \in [D -> Cells], NEW b \in Seq(D), \A k \in 1 .. Len(b) : line[b[k]] # NoLine,
         line = (IF caller' = "sort" THEN text' ELSE mem'), Sort(b), opt' = opt
  PROVE  PointersRight'
<1>1. Sorting(opt.u, line, b, <<<<1, Len(b)>>>>, Idle)
  BY OptFields, SortingBegins
<1> QED BY <1>1 DEF Sort, PointersRight

LEMMA PointersKept ==
  ASSUME Base, pc # "exit", SortNext, pc' # "exit"
  PROVE  PointersRight'
<1> USE DEF setup, reading, qstate, streams, flags
<1>0. SortTypes /\ RangeRight /\ StreamsRight /\ PointersRight /\ caller \in {"sort", "merge"} /\ opt.u \in BOOLEAN
      /\ ibuf \in Seq(Nat) /\ text \in Seq(Cells) /\ mem \in [0 .. N -> Cells] /\ segs \in Seq(Ranges) /\ part \in Parts
  BY OptFields DEF Base, SortTypes
<1>01. DOMAIN ibuf = 1 .. Len(ibuf) /\ Len(ibuf) \in Nat
  BY <1>0, LenProperties
<1>1. CASE ReadLine \/ ReadOn
  BY <1>1, PointersIdle DEF ReadLine, ReadOn
<1>3. CASE ReadAll
  <2> DEFINE n == Len(text)
             b == [k \in 1 .. n |-> k]
  <2>1. caller = "sort" /\ pc = "read"
    BY <1>0, <1>3 DEF ReadAll, RangeRight, SortPhase
  <2>2. text \in Seq(Lines)
    BY <1>0, <2>1 DEF StreamsRight
  <2>3. n \in Nat /\ text \in [1 .. n -> Cells] /\ \A k \in 1 .. n : text[k] \in Lines
    BY <1>0, <2>2, LenProperties, ElementOfSeq
  <2>4. b \in [1 .. n -> 1 .. n] /\ \A k \in 1 .. n : b[k] = k
    OBVIOUS
  <2>5. Sort(b) /\ caller' = caller /\ text' = text /\ opt' = opt
    BY <1>3 DEF ReadAll
  <2> HIDE DEF n, b
  <2>6. b \in Seq(1 .. n) /\ Len(b) = n
    BY <2>3, <2>4, FunctionSeq
  <2>7. \A k \in 1 .. Len(b) : text[b[k]] # NoLine
    BY <2>3, <2>4, <2>6, Numbers
  <2>8. text = (IF caller' = "sort" THEN text' ELSE mem')
    BY <2>1, <2>5
  <2> QED BY <1>0, <2>3, <2>5, <2>6, <2>7, <2>8, PointersSort
<1>4. CASE StoreChunk
  BY <1>0, <1>4 DEF StoreChunk, PointersRight
<1>6. CASE PutLine
  <2>1. pc = "put" /\ pc' = "put" /\ ibuf # << >> /\ ibuf' = Front(ibuf) /\ text' = text /\ opt' = opt
    BY <1>6 DEF PutLine
  <2> DEFINE n == Len(ibuf)
             b == Front(ibuf)
  <2>2. n \in Nat \ {0} /\ DOMAIN ibuf = 1 .. n /\ DOMAIN b = 1 .. n - 1 /\ \A i \in 1 .. n - 1 : b[i] = ibuf[i]
    BY <1>0, <2>1, FrontLast
  <2> HIDE DEF n, b
  <2>3. \A i \in 1 .. n - 1 : i \in 1 .. n
    BY <2>2
  <2>4. Descending(opt.u, text, ibuf)
    BY <1>0, <2>1 DEF PointersRight
  <2>5. Descending(opt.u, text, b)
    BY <2>2, <2>3, <2>4 DEF Descending
  <2> QED BY <2>1, <2>5 DEF PointersRight, b
<1>8. CASE PutAll \/ PutAllCuts
  BY <1>8, PointersIdle DEF PutAll, PutAllCuts
<1>9. CASE QusortBegin
  <2> DEFINE a == Last(segs)[1]
             b == Last(segs)[2]
             mid == a + (b - a + 1) \div 2
  <2>1. pc = "qusort" /\ pc' = "qusort" /\ part = Idle /\ segs # << >> /\ UNCHANGED <<opt, text, mem, ibuf, caller>>
    BY <1>9 DEF QusortBegin
  <2>2. /\ Memory \in [DOMAIN Memory -> Cells] /\ ibuf \in Seq(DOMAIN Memory)
        /\ Sorting(opt.u, Memory, ibuf, segs, Idle)
    BY <2>1, MemoryFacts
  <2>3. a \in Int /\ b \in Int
    BY <1>0, <2>1, LastRange
  <2>4. Sorting(opt.u, Memory, ibuf, segs', part')
    <3>1. CASE b - a < 1
      <4>1. segs' = Front(segs) /\ part' = part
        BY <1>9, <3>1 DEF QusortBegin
      <4> QED BY <1>0, <2>1, <2>2, <3>1, <4>1, SmallRange
    <3>2. CASE ~(b - a < 1)
      <4>1. part' = [i |-> a, j |-> b, lp |-> mid, hp |-> mid, top |-> TRUE] /\ segs' = segs
        BY <1>9, <3>2 DEF QusortBegin
      <4>2. RangeIs(Last(segs), a, b)
        BY DEF RangeIs
      <4>3. mid = a + ((b - a + 1) \div 2)
        BY <2>3
      <4> HIDE DEF a, b, mid
      <4> QED BY <1>0, <2>1, <2>2, <2>3, <3>2, <4>1, <4>2, <4>3, PartBegins
    <3> QED BY <3>1, <3>2
  <2> QED BY <2>1, <2>4 DEF PointersRight, Memory
<1>10. CASE QusortLoop
  <2>1. pc' = "qusort" /\ UNCHANGED <<opt, text, mem, caller, segs>>
    BY <1>10 DEF QusortLoop
  <2>2. Sorting(opt.u, Memory, ibuf', segs, part')
    BY <1>10, LoopStep
  <2> QED BY <2>1, <2>2 DEF PointersRight, Memory
<1>11. CASE QusortParted
  <2>1. pc' = "qusort" /\ UNCHANGED <<opt, caller>>
    BY <1>11 DEF QusortParted
  <2>2. Sorting(opt.u, Memory', ibuf', segs', part')
    BY <1>11, PartedStep
  <2> QED BY <2>1, <2>2 DEF PointersRight, Memory
<1>12. CASE QusortReturn
  <2>1. pc = "qusort" /\ segs = << >> /\ pc' = (IF caller = "sort" THEN "store" ELSE "drop")
        /\ UNCHANGED <<opt, text, mem, ibuf, caller>>
    BY <1>12 DEF QusortReturn
  <2>2. Sorting(opt.u, Memory, ibuf, << >>, part)
    BY <2>1, MemoryFacts
  <2>3. Descending(opt.u, Memory, ibuf)
    BY <2>2, SortingEnds
  <2> QED BY <2>1, <2>3 DEF PointersRight, Memory
<1>13. CASE PlanRun \/ PlanOutput \/ OpenFile \/ DropVoid \/ MergeClose \/ MergeCloseCuts
  BY <1>13, PointersIdle DEF PlanRun, PlanOutput, OpenFile, DropVoid, MergeClose, MergeCloseCuts
<1>18. CASE OpenedAll \/ SortAgain
  <2>1. Merging /\ Sort(ibuf) /\ UNCHANGED <<opt, mem, caller>>
    BY <1>18 DEF OpenedAll, SortAgain, Merging
  <2>2. ibuf \in Seq(0 .. N) /\ caller = "merge"
    BY <2>1, StreamFacts
  <2>3. \A k \in 1 .. Len(ibuf) : mem[ibuf[k]] # NoLine
    <3>1. CASE OpenedAll
      BY <1>0, <1>01, <3>1 DEF OpenedAll, StreamsRight, Using
    <3>2. CASE SortAgain
      BY <1>01, <3>2 DEF SortAgain, Voids
    <3> QED BY <1>18, <3>1, <3>2
  <2>4. mem = (IF caller' = "sort" THEN text' ELSE mem')
    BY <2>1, <2>2
  <2> QED BY <1>0, <2>1, <2>2, <2>3, <2>4, PointersSort
<1>21. CASE NoneDropped
  <2>1. pc = "drop" /\ Merging /\ Voids = {} /\ UNCHANGED <<opt, mem, ibuf>> /\ pc' \in {"close", "line"}
    BY <1>21 DEF NoneDropped, Merging
  <2>2. CASE pc' = "close"
    BY <2>2, PointersIdle
  <2>3. CASE pc' = "line"
    <3>1. Descending(opt.u, mem, ibuf)
      BY <1>0, <2>1 DEF PointersRight
    <3>2. ibuf \in Seq(0 .. N)
      BY <2>1, StreamFacts
    <3>3. \A k \in 1 .. Len(ibuf) : mem[ibuf[k]] \in Lines
      <4>1. \A k \in 1 .. Len(ibuf) : mem[ibuf[k]] # NoLine
        BY <1>01, <2>1 DEF Voids
      <4>2. \A k \in 1 .. Len(ibuf) : ibuf[k] \in 0 .. N
        BY <3>2, ElementOfSeq
      <4> QED BY <1>0, <4>1, <4>2, Numbers
    <3>4. ASSUME NEW k \in 1 .. Len(ibuf), NEW l \in 1 .. Len(ibuf), k < l
          PROVE  Cmp(opt.u, mem[ibuf[k]], mem[ibuf[l]]) <= 0
      <4>1. InOrder(opt.u, mem[ibuf[k]], mem[ibuf[l]])
        BY <1>01, <3>1, <3>4 DEF Descending
      <4>2. mem[ibuf[k]] # NoLine /\ mem[ibuf[l]] # NoLine /\ Cmp(opt.u, mem[ibuf[k]], mem[ibuf[l]]) \in Int
        BY <1>0, <3>3, CmpOrder, Numbers
      <4> QED BY <4>1, <4>2 DEF InOrder
    <3>5. SortedTo(opt.u, mem, ibuf, Len(ibuf))
      BY <3>4 DEF SortedTo
    <3> QED BY <2>1, <2>3, <3>2, <3>5, PointersInLine
  <2> QED BY <2>1, <2>2, <2>3
<1>22. CASE MergeLine
  <2>1. InLine /\ Merging /\ pc' = "next" /\ UNCHANGED <<opt, ibuf>> /\ pc = "line"
    BY <1>22 DEF MergeLine, InLine, Merging
  <2>2. mem' = mem \/ mem' = [mem EXCEPT ![Prev] = mem[Last(ibuf)]]
    BY <1>22 DEF MergeLine
  <2>3. \A k \in 1 .. Len(ibuf) : ibuf[k] \in 0 .. Prev - 1
    BY <1>01, <2>1, StreamFacts
  <2>4. \A k \in 1 .. Len(ibuf) : ibuf[k] # Prev /\ ibuf[k] \in 0 .. N
    <3>1. Prev \in Nat /\ Prev <= N
      BY <2>1, StreamFacts
    <3>2. N \in Nat
      BY Numbers
    <3> QED BY <2>3, <3>1, <3>2
  <2>5. \A k \in 1 .. Len(ibuf) : mem'[ibuf[k]] = mem[ibuf[k]]
    BY <1>0, <2>2, <2>4
  <2>6. \A k, l \in 1 .. Len(ibuf) : k < l => Cmp(opt.u, mem[ibuf[k]], mem[ibuf[l]]) <= 0
    BY <2>1, LineFacts
  <2>7. SortedTo(opt.u, mem', ibuf, Len(ibuf))
    BY <2>5, <2>6 DEF SortedTo
  <2> QED BY <1>0, <2>1, <2>7, PointersInLine
<1>24. CASE StreamEnds
  <2>1. pc' = (IF Front(ibuf) = << >> THEN "close" ELSE "check") /\ opt' = opt /\ mem' = mem
    BY <1>24 DEF StreamEnds
  <2>2. ibuf' \in Seq(Nat) /\ SamePointers(Front(ibuf), ibuf') /\ SortedTo(opt.u, mem, ibuf', Len(Front(ibuf)))
    BY <1>24, FrontSorted
  <2>3. Len(ibuf') = Len(Front(ibuf))
    BY <2>2 DEF SamePointers
  <2>4. pc' \in {"close", "check"}
    BY <2>1
  <2> QED BY <2>1, <2>2, <2>3, <2>4, PointersIdle, PointersInLine
<1>25. CASE StreamReads
  <2>1. ibuf' \in Seq(Nat) /\ SamePointers(ibuf, ibuf') /\ SortedTo(opt.u, mem', ibuf', Len(ibuf))
    BY <1>25, NextSorted
  <2>2. Len(ibuf') = Len(ibuf)
    BY <2>1 DEF SamePointers
  <2>3. pc' = "check" /\ opt' = opt
    BY <1>25 DEF StreamReads
  <2> QED BY <2>1, <2>2, <2>3, PointersInLine
<1>26. CASE NextLine
  <2>1. pc = "check" /\ pc' \in {"line", "next"} /\ UNCHANGED <<opt, mem, ibuf>>
    BY <1>26 DEF NextLine
  <2> QED BY <1>0, <2>1 DEF PointersRight
<1> QED BY <1>1, <1>3, <1>4, <1>6, <1>8, <1>9, <1>10, <1>11, <1>12, <1>13, <1>18,
           <1>21, <1>22, <1>24, <1>25, <1>26, Stopped DEF SortNext

-----------------------------------------------------------------------------
LEMMA BaseKept ==
  ASSUME Base, SortNext
  PROVE  Base'
<1>1. pc # "exit"
  BY Running
<1>2. SortTypes'
  BY TypesKept
<1>3. pc' # "exit" => FilesRight' /\ RangeRight' /\ StreamsRight' /\ PointersRight'
  BY <1>1, FilesKept, RangeKept, StreamsKept, PointersKept
<1> QED BY <1>2, <1>3 DEF Base

LEMMA BaseUnchanged ==
  ASSUME Base, UNCHANGED sortvars
  PROVE  Base'
<1>1. UNCHANGED <<opt, foreign, eargc, input, disk, nfiles, unread, is, text, mem, rest, opened, ibuf,
                  caller, segs, part, muflg, range, fresh, lost, fault, os, pc, error>>
  BY DEF sortvars, setup, reading, streams, qstate, flags
<1>2. SortTypes'
  BY <1>1 DEF Base, SortTypes
<1>3. (SortPhase' <=> SortPhase) /\ (Merging' <=> Merging) /\ Output' = Output /\ Prev' = Prev /\ Using' = Using
      /\ (Done' <=> Done) /\ (Direct' <=> Direct)
  BY <1>1 DEF SortPhase, Merging, Output, Prev, Using, Done, Direct
<1>4. Live' = Live
  BY <1>1, <1>3 DEF Live
<1>5. FilesRight' <=> FilesRight
  BY <1>1, <1>4 DEF FilesRight
<1>6. RangeRight' <=> RangeRight
  BY <1>1, <1>3 DEF RangeRight
<1>7. StreamsRight' <=> StreamsRight
  BY <1>1, <1>3 DEF StreamsRight
<1>8. PointersRight' <=> PointersRight
  BY <1>1 DEF PointersRight
<1> QED BY <1>1, <1>2, <1>5, <1>6, <1>7, <1>8 DEF Base

LEMMA InitFacts ==
  ASSUME SortInit
  PROVE  /\ input \in Seq(Seq(Lines)) /\ Len(input) = eargc /\ eargc \in Nat \ {0} /\ nfiles = eargc /\ opt \in Opts
         /\ opt.c => eargc = 1
         /\ foreign \in {{}, {eargc + 1}} /\ DOMAIN disk = Files(eargc)
         /\ disk[Stdout] = << >> /\ \A f \in 0 .. eargc - 1 : disk[f] = input[f + 1]
         /\ \A f \in eargc .. eargc + MaxTemp : disk[f] = IF f \in foreign THEN << >> ELSE Absent
         /\ unread = IF opt.m \/ opt.c THEN [k \in 1 .. eargc |-> << >>] ELSE input
         /\ range = IF opt.m \/ opt.c THEN <<0, 0>> ELSE <<eargc, eargc>>
<1>1. PICK args \in Inputs :
        /\ eargc = Len(args) /\ nfiles = eargc /\ input = args
        /\ opt.c => eargc = 1
        /\ foreign \in {{}, {eargc + 1}}
        /\ disk = [f \in {Stdout} \cup 0 .. eargc + MaxTemp |->
                     CASE f = Stdout -> << >>
                       [] f \in 0 .. eargc - 1 -> args[f + 1]
                       [] f \in foreign -> << >>
                       [] OTHER -> Absent]
        /\ unread = IF opt.m \/ opt.c THEN [k \in 1 .. eargc |-> << >>] ELSE args
        /\ range = IF opt.m \/ opt.c THEN <<0, 0>> ELSE <<eargc, eargc>>
  BY DEF SortInit
<1>2. args \in Seq(Seq(Lines)) /\ args # << >>
  BY SortAssumption
<1>3. Len(args) \in Nat \ {0}
  BY <1>2, EmptySeq, LenProperties
<1>4. opt \in Opts
  BY DEF SortInit, Opts
<1>5. \A f \in {Stdout} \cup 0 .. eargc + MaxTemp :
        disk[f] = CASE f = Stdout -> << >>
                    [] f \in 0 .. eargc - 1 -> args[f + 1]
                    [] f \in foreign -> << >>
                    [] OTHER -> Absent
  BY <1>1
<1>6. eargc \in Nat \ {0} /\ MaxTemp \in Nat /\ Stdout = -1
  BY <1>1, <1>3, Numbers DEF Stdout
<1>7. \A f \in 0 .. eargc - 1 : disk[f] = input[f + 1]
  <2> SUFFICES ASSUME NEW f \in 0 .. eargc - 1 PROVE disk[f] = input[f + 1]
    OBVIOUS
  <2>1. f \in {Stdout} \cup 0 .. eargc + MaxTemp /\ f # Stdout /\ f \notin foreign
    BY <1>1, <1>6
  <2> QED BY <1>1, <1>5, <2>1
<1>8. \A f \in eargc .. eargc + MaxTemp : disk[f] = IF f \in foreign THEN << >> ELSE Absent
  <2> SUFFICES ASSUME NEW f \in eargc .. eargc + MaxTemp PROVE disk[f] = IF f \in foreign THEN << >> ELSE Absent
    OBVIOUS
  <2>1. f \in {Stdout} \cup 0 .. eargc + MaxTemp /\ f # Stdout /\ f \notin 0 .. eargc - 1
    BY <1>6
  <2>2. CASE f \in foreign
    BY <1>5, <2>1, <2>2
  <2>3. CASE f \notin foreign
    BY <1>5, <2>1, <2>3
  <2> QED BY <2>2, <2>3
<1>9. disk[Stdout] = << >>
  <2>1. Stdout \in {Stdout} \cup 0 .. eargc + MaxTemp /\ Stdout \notin 0 .. eargc - 1 /\ Stdout \notin foreign
    BY <1>1, <1>6
  <2> QED BY <1>5, <2>1
<1>10. DOMAIN disk = Files(eargc)
  BY <1>1 DEF Files
<1> QED BY <1>1, <1>2, <1>3, <1>4, <1>7, <1>8, <1>9, <1>10

LEMMA BaseBegins ==
  ASSUME SortInit
  PROVE  Base
<1>1. /\ input \in Seq(Seq(Lines)) /\ Len(input) = eargc /\ eargc \in Nat \ {0} /\ nfiles = eargc /\ opt \in Opts
      /\ opt.c => eargc = 1
      /\ foreign \in {{}, {eargc + 1}} /\ DOMAIN disk = Files(eargc)
      /\ disk[Stdout] = << >> /\ \A f \in 0 .. eargc - 1 : disk[f] = input[f + 1]
      /\ \A f \in eargc .. eargc + MaxTemp : disk[f] = IF f \in foreign THEN << >> ELSE Absent
      /\ unread = IF opt.m \/ opt.c THEN [k \in 1 .. eargc |-> << >>] ELSE input
      /\ range = IF opt.m \/ opt.c THEN <<0, 0>> ELSE <<eargc, eargc>>
  BY InitFacts
<1>2. /\ is = 1 /\ text = << >> /\ ibuf = << >> /\ mem = [p \in 0 .. N |-> NoLine]
      /\ rest = [p \in 0 .. N - 1 |-> << >>] /\ opened = 0
      /\ caller = "sort" /\ segs = << >> /\ part = Idle
      /\ muflg = FALSE /\ fresh = FALSE /\ lost = FALSE
      /\ os = Stdout /\ error = 1
      /\ pc = IF opt.m \/ opt.c THEN "plan" ELSE "read"
  BY DEF SortInit
<1>3. \A k \in 1 .. eargc : input[k] \in Seq(Lines)
  BY <1>1, ElementOfSeq
<1>4. \A f \in 0 .. eargc - 1 : disk[f] \in Seq(Lines)
  <2>1. \A f \in 0 .. eargc - 1 : f + 1 \in 1 .. eargc
    BY <1>1
  <2> QED BY <1>1, <1>3, <2>1
<1>5. SortTypes
  <2>1. disk \in [Files(eargc) -> Seq(Cells)]
    <3>1. \A f \in Files(eargc) : f = Stdout \/ f \in 0 .. eargc - 1 \/ f \in eargc .. eargc + MaxTemp
      BY <1>1, Numbers DEF Files
    <3>2. \A f \in Files(eargc) : disk[f] \in Seq(Cells)
      BY <1>1, <1>4, <3>1, Numbers
    <3>3. disk = [f \in DOMAIN disk |-> disk[f]]
      BY <1>1 DEF SortInit
    <3> QED BY <1>1, <3>2, <3>3
  <2>2. unread \in [1 .. eargc -> Seq(Lines)]
    <3>1. input \in [1 .. eargc -> Seq(Lines)]
      BY <1>1, LenProperties
    <3> QED BY <1>1, <3>1, Numbers
  <2>3. text \in Seq(Cells) /\ ibuf \in Seq(Nat) /\ segs \in Seq(Ranges)
    BY <1>2
  <2>4. mem \in [0 .. N -> Cells] /\ rest \in [0 .. N - 1 -> Seq(Lines)]
    BY <1>2, Numbers
  <2>5. part \in Parts
    BY <1>2 DEF Idle, Parts
  <2>6. range \in Spans
    BY <1>1, SpanFields
  <2>7. os \in Files(eargc) /\ nfiles \in eargc .. eargc + MaxTemp /\ is \in 1 .. eargc
    BY <1>1, <1>2, Numbers DEF Files
  <2>8. foreign \subseteq Nat \ 0 .. eargc
    <3>1. eargc + 1 \in Nat /\ eargc + 1 \notin 0 .. eargc
      BY <1>1
    <3> QED BY <1>1, <3>1
  <2>9. muflg \in BOOLEAN /\ fresh \in BOOLEAN /\ lost \in BOOLEAN /\ fault \in {"none", "told", "silent"}
    BY <1>2 DEF SortInit
  <2>10. pc \in States
    BY <1>2 DEF States
  <2> QED BY <1>1, <1>2, <2>1, <2>2, <2>3, <2>4, <2>5, <2>6, <2>7, <2>8, <2>9, <2>10 DEF SortTypes
<1>6. (opt.m \/ opt.c) => ~SortPhase /\ ~Merging /\ range[1] = 0 /\ range[2] = 0 /\ pc = "plan"
  BY <1>1, <1>2 DEF SortPhase, Merging
<1>7. ~(opt.m \/ opt.c) => SortPhase /\ ~Merging /\ range[1] = eargc /\ range[2] = eargc /\ pc = "read"
                           /\ range = <<eargc, eargc>>
  BY <1>1, <1>2 DEF SortPhase, Merging
<1>8. FilesRight
  <2>1. \A f \in foreign : f >= nfiles
    BY <1>1
  <2>2. (opt.m \/ opt.c) => Live = 0 .. eargc - 1
    BY <1>1, <1>6 DEF Live
  <2>3. ~(opt.m \/ opt.c) => Live = {}
    BY <1>1, <1>7 DEF Live
  <2> QED BY <1>1, <1>4, <2>1, <2>2, <2>3 DEF FilesRight
<1>9. RangeRight
  <2>1. \A k \in 1 .. is - 1 : unread[k] = << >>
    BY <1>2
  <2>2. (opt.m \/ opt.c) => \A k \in 1 .. eargc : unread[k] = << >>
    BY <1>1
  <2> QED BY <1>1, <1>2, <1>6, <1>7, <2>1, <2>2, Numbers DEF RangeRight
<1>10. StreamsRight
  BY <1>2, <1>6, <1>7, Numbers DEF StreamsRight
<1>11. PointersRight
  BY <1>6, <1>7 DEF PointersRight
<1> QED BY <1>5, <1>8, <1>9, <1>10, <1>11 DEF Base

LEMMA BaseHolds == SortSpec => []Base
<1>1. SortInit => Base
  BY BaseBegins
<1>2. Base /\ [SortNext]_sortvars => Base'
  BY BaseKept, BaseUnchanged
<1> QED BY <1>1, <1>2, PTL DEF SortSpec

-----------------------------------------------------------------------------
(***************************************************************************)
(* Arguments.                                                              *)
(***************************************************************************)
\* What a step may do to an argument file.
ArgumentKept(f) ==
  disk'[f] # disk[f] =>
    /\ f = Output /\ \A k \in 1 .. eargc : unread'[k] = << >>
    /\ pc = "plan" => range'[1] >= eargc

\* The files that end with the program are not arguments.
LEMMA TermKept ==
  ASSUME Base, pc # "exit", Term(error'), NEW f \in 0 .. eargc - 1
  PROVE  disk'[f] = disk[f]
<1>1. DOMAIN disk = Files(eargc) /\ f \in Files(eargc)
  BY FileNames, Numbers DEF Base, Files
<1>2. f \notin eargc .. nfiles - 1
  BY RangeFacts
<1> QED BY <1>1, <1>2 DEF Term

LEMMA ArgumentStep ==
  ASSUME Base, SortNext, NEW f \in 0 .. eargc - 1
  PROVE  ArgumentKept(f)
<1> USE DEF setup, reading, qstate, streams, flags
<1>0. SortTypes /\ RangeRight /\ pc # "exit" /\ eargc \in Nat /\ nfiles \in Nat /\ eargc <= nfiles
      /\ range[2] \in Nat /\ range[2] <= nfiles /\ Output' = Output
  <2>1. pc # "exit"
    BY Running
  <2>2. opt' = opt
    BY OptStays
  <2> QED BY <2>1, <2>2, RangeFacts DEF Base, Output
<1>1. f \in Files(eargc) /\ DOMAIN disk = Files(eargc) /\ f # nfiles /\ f \in Nat /\ f < eargc
  BY <1>0, FileNames, Numbers DEF Files
<1>2. CASE UNCHANGED disk
  BY <1>2 DEF ArgumentKept
<1>3. CASE StoreChunkFails \/ PutLineFails \/ PlanFails \/ PlanDone \/ MergeLineFails \/ Disordered
           \/ CreateFails \/ ReadFails
  <2>1. Term(error')
    BY <1>3 DEF StoreChunkFails, PutLineFails, PlanFails, PlanDone, MergeLineFails, Disordered,
                CreateFails, ReadFails, Fail, Term
  <2> QED BY <1>0, <2>1, TermKept DEF ArgumentKept
<1>4. CASE StoreChunk
  <2>1. pc = "store" /\ SortPhase /\ unread' = unread
        /\ disk' = [disk EXCEPT ![IF Direct THEN Output ELSE nfiles] = << >>]
    BY <1>4 DEF StoreChunk, SortPhase
  <2>2. Direct => \A k \in 1 .. eargc : unread[k] = << >>
    BY <1>0, <2>1 DEF RangeRight, Direct
  <2> QED BY <1>1, <2>1, <2>2 DEF ArgumentKept
<1>5. CASE PutLine
  <2>1. pc = "put" /\ unread' = unread
        /\ (disk' = disk \/ disk' = [disk EXCEPT ![os] = Append(@, text[Last(ibuf)])])
    BY <1>5 DEF PutLine
  <2>2. IF Direct THEN os = Output /\ \A k \in 1 .. eargc : unread[k] = << >> ELSE nfiles > eargc /\ os = nfiles - 1
    BY <1>0, <2>1 DEF RangeRight
  <2>3. f = os => Direct
    BY <1>0, <1>1, <2>2
  <2> QED BY <1>1, <2>1, <2>2, <2>3 DEF ArgumentKept
<1>6. CASE PlanRun
  BY <1>1, <1>6 DEF PlanRun, ArgumentKept
<1>7. CASE PlanOutput
  <2>1. pc' = "open" /\ unread' = unread /\ disk' = [disk EXCEPT ![Output] = << >>] /\ nfiles' = nfiles
        /\ range' = <<range[2], nfiles>> /\ eargc' = eargc
    BY <1>7 DEF PlanOutput
  <2>2. Merging' /\ ~SortPhase' /\ range'[2] = nfiles'
    BY <2>1 DEF Merging, SortPhase
  <2>3. RangeRight'
    BY <1>0, <2>1, RangeKept
  <2>4. (\A k \in 1 .. eargc : unread'[k] = << >>) /\ (Output >= 0 => range'[1] >= eargc)
    BY <1>0, <2>1, <2>2, <2>3 DEF RangeRight
  <2> QED BY <1>1, <2>1, <2>4 DEF ArgumentKept
<1>8. CASE MergeLine
  <2>1. pc = "line" /\ Merging /\ ~SortPhase /\ unread' = unread
        /\ (disk' = disk \/ disk' = [disk EXCEPT ![os] = Append(@, mem[Last(ibuf)])])
    BY <1>8 DEF MergeLine, Merging, SortPhase
  <2>2. os = Output \/ (nfiles > eargc /\ os = nfiles - 1)
    BY <1>0, <2>1 DEF RangeRight
  <2>3. \A k \in 1 .. eargc : unread[k] = << >>
    BY <1>0, <2>1 DEF RangeRight
  <2>4. f = os => f = Output
    BY <1>0, <1>1, <2>2
  <2> QED BY <1>1, <2>1, <2>3, <2>4 DEF ArgumentKept
<1>9. CASE MergeClose
  <2>1. disk'[f] = disk[f]
    BY <1>0, <1>1, <1>9 DEF MergeClose, Unlinked
  <2> QED BY <2>1 DEF ArgumentKept
<1>10. CASE PutAllCuts
  <2>1. pc = "put" /\ unread' = unread /\ \E s \in Cuts(disk[os]) : disk' = [disk EXCEPT ![os] = s]
    BY <1>10 DEF PutAllCuts
  <2>2. IF Direct THEN os = Output /\ \A k \in 1 .. eargc : unread[k] = << >> ELSE nfiles > eargc /\ os = nfiles - 1
    BY <1>0, <2>1 DEF RangeRight
  <2>3. f = os => Direct
    BY <1>0, <1>1, <2>2
  <2> QED BY <1>1, <2>1, <2>2, <2>3 DEF ArgumentKept
<1>11. CASE MergeCloseCuts
  <2>1. pc = "close" /\ Merging /\ ~SortPhase /\ unread' = unread
    BY <1>11 DEF MergeCloseCuts, Merging, SortPhase
  <2>2. PICK s \in Cuts(disk[os]) : disk' = Unlinked([disk EXCEPT ![os] = s])
    BY <1>11 DEF MergeCloseCuts
  <2>3. f # os => disk'[f] = disk[f]
    BY <1>0, <1>1, <2>2 DEF Unlinked
  <2>4. os = Output \/ (nfiles > eargc /\ os = nfiles - 1)
    BY <1>0, <2>1 DEF RangeRight
  <2>5. \A k \in 1 .. eargc : unread[k] = << >>
    BY <1>0, <2>1 DEF RangeRight
  <2>6. f = os => f = Output
    BY <1>0, <1>1, <2>4
  <2> QED BY <2>1, <2>3, <2>5, <2>6 DEF ArgumentKept
<1> QED BY <1>2, <1>3, <1>4, <1>5, <1>6, <1>7, <1>8, <1>9, <1>10, <1>11
        DEF SortNext, ReadLine, ReadOn, ReadAll, PutAll, QusortBegin, QusortLoop, QusortParted, QusortReturn,
            OpenFile, OpenedAll, DropVoid, SortAgain, NoneDropped, StreamEnds, StreamReads, NextLine

\* An argument file changes only by becoming the output, and not before every line of
\* it has been read.
THEOREM ArgumentsStay == SortSpec => InputsKept
<1>1. Base /\ [SortNext]_sortvars =>
        [\A f \in 0 .. eargc - 1 : disk'[f] # disk[f] =>
           /\ f = Output /\ \A k \in 1 .. eargc : unread'[k] = << >>
           /\ pc = "plan" => range'[1] >= eargc]_sortvars
  BY ArgumentStep DEF ArgumentKept
<1> QED BY <1>1, BaseHolds, PTL DEF SortSpec, InputsKept

-----------------------------------------------------------------------------
(***************************************************************************)
(* Temporary files.                                                        *)
(***************************************************************************)
LEMMA NothingLeft ==
  ASSUME Base, pc # "exit", Term(error'), eargc' = eargc, foreign' = foreign
  PROVE  NoTempLeft'
<1>1. FilesRight /\ SortTypes
  BY DEF Base
<1>2. eargc \in Nat /\ nfiles \in Nat /\ eargc <= nfiles /\ MaxTemp \in Nat /\ DOMAIN disk = Files(eargc)
  BY <1>1, RangeFacts, FileNames
<1>3. disk' = [f \in Files(eargc) |-> IF f \in eargc .. nfiles - 1 THEN Absent ELSE disk[f]]
  BY <1>2 DEF Term
<1> SUFFICES ASSUME NEW f \in Files(eargc), f # Stdout, f >= eargc
             PROVE  disk'[f] = IF f \in foreign THEN << >> ELSE Absent
  BY <1>3 DEF NoTempLeft
<1>4. f \in 0 .. eargc + MaxTemp
  BY DEF Files
<1>5. CASE f \in eargc .. nfiles - 1
  <2>1. f \notin foreign
    BY <1>1, <1>2, <1>5 DEF FilesRight
  <2> QED BY <1>3, <1>5, <2>1
<1>6. CASE f \notin eargc .. nfiles - 1
  <2>1. f \in nfiles .. eargc + MaxTemp
    BY <1>2, <1>4, <1>6
  <2>2. disk[f] = IF f \in foreign THEN << >> ELSE Absent
    BY <1>1, <2>1 DEF FilesRight
  <2> QED BY <1>3, <1>6, <2>2
<1> QED BY <1>5, <1>6

\* exit is reached by term only.
LEMMA Exits ==
  ASSUME SortNext, pc' = "exit"
  PROVE  /\ Term(error') /\ UNCHANGED <<setup, nfiles, reading, text, streams, ibuf, qstate, flags, os>>
         /\ \/ StoreChunkFails \/ PutLineFails \/ PlanFails \/ PlanDone \/ MergeLineFails \/ Disordered
            \/ CreateFails \/ ReadFails
<1>1. ~ReadLine /\ ~ReadOn /\ ~ReadAll /\ ~StoreChunk /\ ~PutLine /\ ~PutAll /\ ~PutAllCuts /\ ~QusortBegin /\ ~QusortLoop
      /\ ~QusortParted /\ ~QusortReturn /\ ~PlanRun /\ ~PlanOutput
  BY DEF ReadLine, ReadOn, ReadAll, StoreChunk, PutLine, PutAll, PutAllCuts,
         QusortBegin, QusortLoop, QusortParted, QusortReturn, PlanRun, PlanOutput, Sort
<1>2. ~OpenFile /\ ~OpenedAll /\ ~DropVoid /\ ~SortAgain /\ ~NoneDropped /\ ~MergeLine /\ ~StreamEnds /\ ~StreamReads
      /\ ~NextLine /\ ~MergeClose /\ ~MergeCloseCuts
  BY DEF OpenFile, OpenedAll, DropVoid, SortAgain, NoneDropped, MergeLine, StreamEnds,
         StreamReads, NextLine, MergeClose, MergeCloseCuts, Sort
<1>3. StoreChunkFails \/ PutLineFails \/ PlanFails \/ PlanDone \/ MergeLineFails \/ Disordered \/ CreateFails \/ ReadFails
  BY <1>1, <1>2 DEF SortNext
<1>4. Term(error') /\ UNCHANGED <<setup, nfiles, reading, text, streams, ibuf, qstate, flags, os>>
  BY <1>3 DEF StoreChunkFails, PutLineFails, PlanFails, PlanDone, MergeLineFails, Disordered,
              CreateFails, ReadFails, Fail, Failed, Term
<1> QED BY <1>3, <1>4

LEMMA NoTempKept ==
  ASSUME Base, SortNext
  PROVE  NoTempLeft'
<1>1. CASE pc' = "exit"
  BY <1>1, Running, Exits, NothingLeft DEF setup
<1>2. CASE pc' # "exit"
  BY <1>2 DEF NoTempLeft
<1> QED BY <1>1, <1>2

\* However sort ends, none of its temporary files is left and no other file that has
\* such a name is touched.
THEOREM TempsRemoved == SortSpec => []NoTempLeft
<1>1. SortInit => NoTempLeft
  BY DEF SortInit, NoTempLeft
<1>2. ASSUME NoTempLeft, UNCHANGED sortvars PROVE NoTempLeft'
  BY <1>2 DEF NoTempLeft, sortvars, setup
<1>3. Base /\ NoTempLeft /\ [SortNext]_sortvars => NoTempLeft'
  BY <1>2, NoTempKept
<1> QED BY <1>1, <1>3, BaseHolds, PTL DEF SortSpec

\* The variables keep their types.
THEOREM SortTypesHold == SortSpec => []SortTypes
<1>1. Base => SortTypes
  BY DEF Base
<1> QED BY <1>1, BaseHolds, PTL
=============================================================================
