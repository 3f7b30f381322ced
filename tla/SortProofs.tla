----------------------------- MODULE SortProofs -----------------------------
(***************************************************************************)
(* sort writes its input sorted, loses no line, and -c tells what is       *)
(* sorted: SortSafe, for all lines, inputs and sizes.                      *)
(***************************************************************************)
EXTENDS SortBase

\* What is left of the p-th stream.
Pending(p) ==
  IF pc = "open" /\ p >= opened THEN disk[range[1] + p]
  ELSE IF p \notin Using THEN << >>
  ELSE IF mem[p] = NoLine \/ (pc = "next" /\ p = Last(ibuf)) THEN rest[p]
  ELSE <<mem[p]>> \o rest[p]

\* All the lines: in the arguments, in memory, in files; the file f has the place f + 1.
Chunked == IF pc = "read" THEN text
           ELSE IF SortPhase THEN [p \in Using |-> text[p]] ELSE << >>
FileText(f) ==
  IF Merging /\ f \in Merged THEN Pending(f - range[1])
  ELSE IF f \in Live THEN disk[f] ELSE << >>
FileTexts == [g \in 0 .. eargc + MaxTemp + 1 |-> FileText(g - 1)]

\* The files and the streams are ascending, without equals where -u has dropped them.
Strictly == opt.u /\ ~opt.m
Single(f) == opt.u /\ (f \notin 0 .. eargc - 1 \/ range[2] = nfiles)
TextsRight ==
  /\ \A f \in Live : Rising(Single(f), opt.u, disk[f])
  /\ Merging => \A p \in 0 .. Prev - 1 : Rising(Strictly, opt.u, Pending(p))
  /\ pc = "next" => Rising(Strictly, opt.u, <<mem[Last(ibuf)]>> \o rest[Last(ibuf)])

\* What is written comes before what is left.
Before(x, y) == Precedes(Strictly, opt.u, x, y)
WrittenRight ==
  /\ pc = "put" /\ disk[os] # << >> => \A p \in Using : text[p] # NoLine =>
       Precedes(opt.u, opt.u, Last(disk[os]), text[p])
  /\ pc \in {"line", "next", "check"} /\ disk[os] # << >> =>
       \A p \in 0 .. Prev - 1 : Pending(p) # << >> => Before(Last(disk[os]), Pending(p)[1])
  /\ pc = "line" /\ opt.u /\ disk[os] # << >> => Cmp(opt.u, Last(disk[os]), mem[Last(ibuf)]) > 0

\* The options and the line last written.
FlagsRight ==
  /\ Merging /\ pc \notin {"line", "next", "check", "close"} => ~fresh /\ disk[os] = << >>
  /\ pc \in {"line", "next", "check"} =>
       /\ muflg => opt.u
       /\ opt.m /\ opt.u => muflg
       /\ muflg /\ ~opt.m => Len(ibuf) = 1
       /\ fresh => muflg /\ disk[os] # << >> /\ mem[Prev] = Last(disk[os])
       /\ opt.m /\ opt.u /\ pc # "line" => fresh
       /\ opt.m /\ opt.u /\ disk[os] # << >> => fresh

\* No line is lost, none comes from nowhere; with -u each key is still there.
Total(x, un, ch, ft) == Times(x, un) + Count(x, ch) + Times(x, ft)
LinesKept(u, lo, un, ch, ft, in) ==
  /\ ~u => \A x \in Lines : Total(x, un, ch, ft) = Times(x, in)
  /\ u => \A x \in Lines : Total(x, un, ch, ft) > 0 => Times(x, in) > 0
  /\ u /\ ~lo => \A x \in Lines : Times(x, in) > 0 =>
                   \E y \in Lines : Key[y] = Key[x] /\ Total(y, un, ch, ft) > 0
LinesRight == LinesKept(opt.u, lost, unread, Chunked, FileTexts, input)

\* -c: what has been read.
Consumed == Len(input[1]) - Len(rest[0])
GoodUpTo(n) == \A i \in 1 .. n - 1 :
  IF opt.u THEN Cmp(TRUE, input[1][i], input[1][i + 1]) > 0 ELSE Cmp(FALSE, input[1][i], input[1][i + 1]) >= 0
\* The file has been opened, and its first line read.
FirstRead ==
  IF ibuf = << >> THEN input[1] = << >>
  ELSE /\ ibuf = << 0 >> /\ mem[0] # NoLine
       /\ input[1] # << >> /\ mem[0] = Head(input[1]) /\ rest[0] = Tail(input[1])
\* A line has been read, and another one before it.
LineRead ==
  /\ ibuf = << 0 >> /\ Consumed \in 1 .. Len(input[1]) /\ mem[0] = input[1][Consumed]
  /\ \A i \in 1 .. Len(rest[0]) : rest[0][i] = input[1][Consumed + i]
LinesRead ==
  /\ LineRead /\ muflg
  /\ pc # "check" => GoodUpTo(Consumed)
  /\ pc = "next" => mem[1] = mem[0]
  /\ pc = "check" => Consumed >= 2 /\ mem[1] = input[1][Consumed - 1] /\ GoodUpTo(Consumed - 1)
CheckRight ==
  opt.c =>
    /\ disk[0] = input[1] /\ range[1] = 0 /\ range[2] \in {0, 1} /\ (range[2] = 0 => pc = "plan")
    /\ pc = "open" /\ opened = 0 => ibuf = << >>
    /\ pc \in {"open", "qusort", "drop", "again"} /\ opened = 1 => FirstRead
    /\ pc \in {"line", "next", "check"} => LinesRead
    /\ pc = "close" \/ (pc = "plan" /\ range[2] = 1) => GoodUpTo(Len(input[1]))

Applies == ~opt.c /\ (opt.m => \A f \in DOMAIN input : Asc(opt.u, input[f]))

-----------------------------------------------------------------------------
(***************************************************************************)
(* sort -c.                                                                *)
(***************************************************************************)
\* The one file that is checked.
LEMMA OneFile ==
  ASSUME Base, opt.c, pc # "exit"
  PROVE  /\ eargc = 1 /\ nfiles = 1 /\ N \in Nat /\ N >= 1 /\ input[1] \in Seq(Lines) /\ Output = Stdout
         /\ Stdout # 0 /\ 0 \in Files(eargc) /\ DOMAIN disk = Files(eargc) /\ 0 \in 0 .. N /\ 1 \in 0 .. N
         /\ rest[0] \in Seq(Lines) /\ mem[0] \in Cells /\ mem[1] \in Cells /\ opt.u \in BOOLEAN
         /\ ~SortPhase /\ ~Staged
<1>1. SortTypes /\ RangeRight
  BY DEF Base
<1>2. eargc = 1 /\ nfiles = 1 /\ N \in Nat /\ N >= 1
  BY <1>1, Numbers DEF SortTypes
<1>3. input[1] \in Seq(Lines)
  <2>1. 1 \in 1 .. Len(input)
    BY <1>1, <1>2 DEF SortTypes
  <2> QED BY <1>1, <2>1, ElementOfSeq DEF SortTypes
<1>4. 0 \in Files(eargc) /\ DOMAIN disk = Files(eargc)
  BY <1>1, <1>2, FileNames, Numbers DEF Files
<1>5. 0 \in 0 .. N /\ 1 \in 0 .. N /\ 0 \in 0 .. N - 1
  BY <1>2
<1>6. rest[0] \in Seq(Lines) /\ mem[0] \in Cells /\ mem[1] \in Cells
  BY <1>1, <1>5 DEF SortTypes
<1>7. ~SortPhase /\ opt.u \in BOOLEAN
  BY <1>1, OptFields DEF RangeRight
<1>8. ~Staged
  BY <1>2, RangeFacts DEF Staged
<1> QED BY <1>2, <1>3, <1>4, <1>5, <1>6, <1>7, <1>8 DEF Output, Stdout

\* A row of pointers with the one structure.
LEMMA OnePointer ==
  ASSUME NEW D, NEW b \in Seq(D)
  PROVE  /\ Elements(b) = {0} /\ Distinct(b) => b = << 0 >>
         /\ b = << 0 >> => /\ Len(b) = 1 /\ DOMAIN b = {1} /\ Last(b) = 0 /\ Front(b) = << >> /\ b[1] = 0
                         /\ Elements(b) = {0} /\ b # << >>
<1>1. Len(b) \in Nat /\ DOMAIN b = 1 .. Len(b)
  BY LenProperties
<1>2. ASSUME Elements(b) = {0}, Distinct(b) PROVE b = << 0 >>
  <2>1. \A k \in 1 .. Len(b) : b[k] = 0
    BY <1>1, <1>2 DEF Elements
  <2>2. Len(b) # 0
    <3> SUFFICES ASSUME Len(b) = 0 PROVE FALSE
      OBVIOUS
    <3>1. DOMAIN b = {}
      BY <1>1
    <3>2. Elements(b) = {}
      BY <3>1 DEF Elements
    <3> QED BY <1>2, <3>2
  <2>3. ASSUME Len(b) >= 2 PROVE FALSE
    <3>1. 1 \in DOMAIN b /\ 2 \in DOMAIN b
      BY <1>1, <2>3
    <3>2. b[1] = b[2]
      BY <1>1, <2>1, <3>1
    <3> QED BY <1>2, <3>1, <3>2 DEF Distinct
  <2>4. Len(b) = 1
    BY <1>1, <2>2, <2>3
  <2>5. DOMAIN b = DOMAIN << 0 >> /\ \A k \in DOMAIN b : b[k] = << 0 >>[k]
    BY <1>1, <2>1, <2>4
  <2> QED BY <2>4, <2>5, <2>1
<1>3. ASSUME b = << 0 >>
      PROVE  /\ Len(b) = 1 /\ DOMAIN b = {1} /\ Last(b) = 0 /\ Front(b) = << >> /\ b[1] = 0 /\ b # << >>
             /\ Elements(b) = {0}
  <2>1. Len(b) = 1 /\ b[1] = 0 /\ b # << >>
    BY <1>3
  <2>2. DOMAIN b = {1}
    BY <1>1, <2>1
  <2>3. Last(b) = 0 /\ Len(Front(b)) = 0 /\ Front(b) \in Seq(D)
    <3>1. Last(b) = b[Len(b)] /\ Len(Front(b)) = Len(b) - 1 /\ Front(b) \in Seq(D)
      BY <2>1, FrontLast
    <3> QED BY <2>1, <3>1
  <2>4. Front(b) = << >>
    BY <2>3, EmptySeq
  <2>5. Elements(b) = {0}
    BY <2>1, <2>2 DEF Elements
  <2> QED BY <2>1, <2>2, <2>3, <2>4, <2>5
<1> QED BY <1>2, <1>3

\* qusort leaves one structure alone.
LEMMA OneSorted ==
  ASSUME Base, opt.c, pc = "qusort", ibuf \in {<< >>, << 0 >>}, QusortLoop \/ QusortParted
  PROVE  ibuf' = ibuf /\ mem' = mem /\ ibuf # << >>
<1>1. Merging /\ caller = "merge" /\ ibuf \in Seq(0 .. N)
  <2>1. ~SortPhase
    BY OneFile
  <2>2. Merging
    BY <2>1, Phases
  <2> QED BY <2>2, StreamFacts
<1>2. part # Idle /\ segs \in Seq(Ranges) /\ part \in Parts /\ opt.u \in BOOLEAN
  BY OptFields DEF QusortLoop, QusortParted, Base, SortTypes
<1>3. /\ Memory \in [DOMAIN Memory -> Cells] /\ ibuf \in Seq(DOMAIN Memory)
      /\ Sorting(opt.u, Memory, ibuf, segs, part)
  BY MemoryFacts
<1>4. /\ Last(segs) \in Ranges /\ 1 <= Last(segs)[1] /\ Last(segs)[2] <= Len(ibuf)
      /\ PartLines(Memory, ibuf, Last(segs)) /\ PartRight(opt.u, Memory, ibuf, Last(segs), part)
  BY <1>2, <1>3, PartFacts
<1>5. part.lp \in 1 .. Len(ibuf) /\ part.hp \in 1 .. Len(ibuf)
  BY <1>2, <1>3, <1>4, RightIsAbout
<1>6. ibuf # << >>
  <2> SUFFICES ASSUME ibuf = << >> PROVE FALSE
    OBVIOUS
  <2>1. Len(ibuf) = 0
    OBVIOUS
  <2> QED BY <1>5, <2>1
<1>7. ibuf = << 0 >> /\ Len(ibuf) = 1 /\ Elements(ibuf) = {0}
  BY <1>1, <1>6, OnePointer
<1>8. CASE QusortLoop
  <2>1. ibuf' \in Seq(DOMAIN Memory) /\ Permuted(ibuf, ibuf', Last(segs)) /\ mem' = mem
    BY <1>8, LoopStep DEF QusortLoop, streams
  <2>2. Distinct(ibuf)
    BY <1>1, StreamFacts
  <2>3. Elements(ibuf') = {0} /\ Distinct(ibuf')
    BY <1>3, <1>7, <2>1, <2>2, PermutedElements
  <2> QED BY <1>6, <1>7, <2>1, <2>3, OnePointer
<1>9. CASE QusortParted
  <2>1. ibuf' = ibuf /\ mem' = VoidedBy(mem, Doubles)
    BY <1>1, <1>9, PartedStep
  <2>2. \A k : k \notin part.lp + 1 .. part.hp
    <3> DEFINE l == part.lp
               h == part.hp
    <3>1. l \in 1 .. 1 /\ h \in 1 .. 1
      BY <1>5, <1>7
    <3> HIDE DEF l, h
    <3>2. \A k : k \notin l + 1 .. h
      BY <3>1
    <3> QED BY <3>2 DEF l, h
  <2>3. Doubles = {}
    BY <2>2 DEF Doubles
  <2>4. mem' = mem
    <3>1. mem \in [0 .. N -> Cells]
      BY DEF Base, SortTypes
    <3> QED BY <2>1, <2>3, <3>1 DEF VoidedBy
  <2> QED BY <1>6, <2>1, <2>4
<1> QED BY <1>8, <1>9

\* One more line has been compared.
LEMMA GoodFurther ==
  ASSUME Base, opt.c, pc # "exit", NEW n \in Nat, n + 1 \in 1 .. Len(input[1]), n \in 1 .. Len(input[1]),
         GoodUpTo(n)
  PROVE  GoodUpTo(n + 1) <=> ~Disorder(input[1][n + 1], input[1][n])
<1> DEFINE in == input[1]
           u == opt.u
<1>1. in \in Seq(Lines) /\ u \in BOOLEAN
  BY OneFile
<1>2. in[n] \in Lines /\ in[n + 1] \in Lines
  BY <1>1, ElementOfSeq
<1>3. Cmp(u, in[n], in[n + 1]) \in Int /\ Cmp(u, in[n], in[n + 1]) = -Cmp(u, in[n + 1], in[n])
      /\ Cmp(u, in[n + 1], in[n]) \in Int
  BY <1>1, <1>2, CmpOrder
<1>4. Disorder(in[n + 1], in[n]) <=> (Cmp(u, in[n + 1], in[n]) > 0 \/ (u /\ Cmp(u, in[n + 1], in[n]) = 0))
  BY CompareIs DEF Disorder
<1> DEFINE c == Cmp(u, in[n], in[n + 1])
           d == Cmp(u, in[n + 1], in[n])
<1>9. c \in Int /\ d \in Int /\ c = -d
  BY <1>3
<1> HIDE DEF c, d
<1> DEFINE good(i) == IF u THEN Cmp(TRUE, in[i], in[i + 1]) > 0 ELSE Cmp(FALSE, in[i], in[i + 1]) >= 0
<1>5. (GoodUpTo(n) <=> \A i \in 1 .. n - 1 : good(i)) /\ (GoodUpTo(n + 1) <=> \A i \in 1 .. n : good(i))
  <2>1. n + 1 - 1 = n
    OBVIOUS
  <2> QED BY <2>1 DEF GoodUpTo
<1>10. Disorder(in[n + 1], in[n]) <=> (d > 0 \/ (u /\ d = 0))
  BY <1>4 DEF d
<1> DEFINE bad == Disorder(in[n + 1], in[n])
<1> HIDE DEF bad
<1>6. good(n) <=> ~bad
  <2>1. CASE u
    <3>1. \A x, y : Cmp(u, x, y) = Cmp(TRUE, x, y)
      BY <2>1 DEF Cmp
    <3>2. good(n) <=> c > 0
      BY <2>1, <3>1 DEF c
    <3>3. bad <=> (d > 0 \/ d = 0)
      BY <1>10, <2>1 DEF bad
    <3> HIDE DEF good
    <3> QED BY <3>2, <3>3, <1>9
  <2>2. CASE ~u
    <3>1. \A x, y : Cmp(u, x, y) = Cmp(FALSE, x, y)
      BY <2>2 DEF Cmp
    <3>2. good(n) <=> c >= 0
      BY <2>2, <3>1 DEF c
    <3>3. bad <=> d > 0
      BY <1>10, <2>2 DEF bad
    <3> HIDE DEF good
    <3> QED BY <3>2, <3>3, <1>9
  <2> QED BY <2>1, <2>2
<1> HIDE DEF good
<1>7. \A i \in 1 .. n : i = n \/ i \in 1 .. n - 1
  OBVIOUS
<1>8. n \in 1 .. n /\ \A i \in 1 .. n - 1 : i \in 1 .. n
  OBVIOUS
<1> QED BY <1>5, <1>6, <1>7, <1>8 DEF bad

\* One more line is read.
LEMMA FurtherRead ==
  ASSUME NEW in \in Seq(Lines), NEW r \in Seq(Lines), r # << >>, NEW n, n = Len(in) - Len(r), n \in 1 .. Len(in),
         \A i \in 1 .. Len(r) : r[i] = in[n + i]
  PROVE  /\ Len(in) - Len(Tail(r)) = n + 1 /\ n + 1 \in 1 .. Len(in) /\ Head(r) = in[n + 1]
         /\ \A i \in 1 .. Len(Tail(r)) : Tail(r)[i] = in[n + 1 + i]
<1>1. Len(r) \in Nat /\ Len(in) \in Nat /\ Len(r) # 0
  BY LenProperties, EmptySeq
<1>2. Len(Tail(r)) = Len(r) - 1 /\ Head(r) = r[1] /\ \A i \in 1 .. Len(Tail(r)) : Tail(r)[i] = r[i + 1]
  BY HeadTailProperties
<1> DEFINE l == Len(r)
<1> HIDE DEF l
<1>3. Head(r) = in[n + 1]
  <2>1. 1 \in 1 .. Len(r)
    BY <1>1
  <2> QED BY <1>2, <2>1
<1>4. \A i \in 1 .. Len(Tail(r)) : Tail(r)[i] = in[n + 1 + i]
  <2> SUFFICES ASSUME NEW i \in 1 .. Len(Tail(r)) PROVE Tail(r)[i] = in[n + 1 + i]
    OBVIOUS
  <2>1. i + 1 \in 1 .. Len(r) /\ n + (i + 1) = n + 1 + i
    BY <1>1, <1>2
  <2>2. Tail(r)[i] = r[i + 1] /\ r[i + 1] = in[n + (i + 1)]
    BY <1>2, <2>1
  <2> QED BY <2>1, <2>2
<1>5. Len(in) - Len(Tail(r)) = n + 1 /\ n + 1 \in 1 .. Len(in)
  BY <1>1, <1>2
<1> QED BY <1>3, <1>4, <1>5

\* -c: nothing but the loop of merge moves.
LEMMA CheckQuiet ==
  ASSUME Base, opt.c, CheckRight, pc # "exit", UNCHANGED <<opt, input, disk, range, opened, ibuf, mem, rest>>,
         pc' \in {"qusort", "drop", "again"}, pc \in {"open", "qusort", "drop", "again"}, opened = Prev
  PROVE  CheckRight'
<1>1. range[1] = 0 /\ range[2] = 1 /\ disk[0] = input[1] /\ Prev = 1
  BY DEF CheckRight, Prev
<1>2. FirstRead
  BY <1>1 DEF CheckRight
<1>3. FirstRead'
  BY <1>2 DEF FirstRead
<1> QED BY <1>1, <1>3 DEF CheckRight

LEMMA CheckKept ==
  ASSUME Base, opt.c, CheckRight, SortNext, pc' # "exit"
  PROVE  CheckRight'
<1> USE DEF setup, reading, qstate, streams, flags
<1> DEFINE in == input[1]
<1>0. /\ eargc = 1 /\ nfiles = 1 /\ N \in Nat /\ N >= 1 /\ in \in Seq(Lines) /\ Output = Stdout
      /\ Stdout # 0 /\ 0 \in Files(eargc) /\ DOMAIN disk = Files(eargc) /\ 0 \in 0 .. N /\ 1 \in 0 .. N
      /\ rest[0] \in Seq(Lines) /\ mem[0] \in Cells /\ mem[1] \in Cells /\ opt.u \in BOOLEAN
      /\ ~SortPhase /\ ~Staged /\ pc # "exit"
  BY Running, OneFile
<1>01. /\ disk[0] = in /\ range[1] = 0 /\ range[2] \in {0, 1} /\ (range[2] = 0 => pc = "plan")
       /\ SortTypes /\ StreamsRight /\ mem \in [0 .. N -> Cells] /\ rest \in [0 .. N - 1 -> Seq(Lines)]
       /\ ibuf \in Seq(Nat) /\ 0 \in 0 .. N - 1
  BY <1>0 DEF CheckRight, Base, SortTypes
<1>02. /\ ~ReadLine /\ ~ReadOn /\ ~ReadAll /\ ~StoreChunk /\ ~PutLine /\ ~PutAll /\ ~PutAllCuts /\ ~PlanRun
       /\ ~MergeCloseCuts
  BY <1>0 DEF SortPhase, ReadLine, ReadOn, ReadAll, StoreChunk, PutLine, PutAll, PutAllCuts, PlanRun, MergeCloseCuts
<1>03. Merging => opened <= Prev /\ (pc # "open" => opened = Prev) /\ caller = "merge"
  BY <1>0, <1>01, Phases DEF StreamsRight
<1>04. pc # "plan" => Merging /\ range[2] = 1 /\ Prev = 1
  BY <1>0, <1>01, Phases DEF Prev
<1>9. CASE QusortBegin
  BY <1>03, <1>04, <1>9, <1>0, CheckQuiet DEF QusortBegin
<1>10. CASE QusortLoop \/ QusortParted
  <2>1. pc = "qusort" /\ pc' = "qusort" /\ UNCHANGED <<opt, input, disk, range, opened, rest>>
    BY <1>10 DEF QusortLoop, QusortParted
  <2>2. opened = 1
    BY <1>03, <1>04, <2>1
  <2>3. FirstRead
    BY <2>1, <2>2 DEF CheckRight
  <2>4. ibuf \in {<< >>, << 0 >>}
    BY <2>3 DEF FirstRead
  <2>5. ibuf' = ibuf /\ mem' = mem
    BY <1>10, <2>1, <2>4, OneSorted
  <2> QED BY <1>0, <1>03, <1>04, <2>1, <2>5, CheckQuiet
<1>12. CASE QusortReturn
  <2>1. pc' \in {"store", "drop"} /\ pc = "qusort"
    BY <1>12 DEF QusortReturn
  <2>2. pc' = "drop"
    BY <1>03, <1>04, <1>12, <2>1 DEF QusortReturn
  <2> QED BY <1>0, <1>03, <1>04, <1>12, <2>2, CheckQuiet DEF QusortReturn
<1>15. CASE PlanOutput
  <2>1. /\ pc' = "open" /\ opened' = 0 /\ ibuf' = << >> /\ disk' = [disk EXCEPT ![Output] = << >>]
        /\ UNCHANGED <<opt, input>> /\ range' = <<range[2], nfiles>> /\ range[2] # nfiles
    BY <1>15 DEF PlanOutput
  <2>2. range[2] = 0 /\ range'[1] = 0 /\ range'[2] = 1
    BY <1>0, <1>01, <2>1
  <2>3. disk'[0] = in
    BY <1>0, <1>01, <2>1
  <2> QED BY <2>1, <2>2, <2>3 DEF CheckRight
<1>17. CASE OpenFile
  <2>1. pc = "open" /\ pc' = "open" /\ opened \in 0 .. Prev - 1 /\ opened' = opened + 1
        /\ UNCHANGED <<opt, input, disk, range>>
    BY <1>17, OpenFacts DEF OpenFile
  <2>2. opened = 0 /\ opened' = 1 /\ range[1] + opened = 0
    BY <1>01, <1>04, <2>1
  <2>3. ibuf = << >>
    BY <2>1, <2>2 DEF CheckRight
  <2>4. FirstRead'
    <3>1. CASE in = << >>
      <4>1. ibuf' = << >>
        BY <1>01, <1>17, <2>2, <2>3, <3>1 DEF OpenFile
      <4> QED BY <2>1, <3>1, <4>1 DEF FirstRead
    <3>2. CASE in # << >>
      <4>1. mem' = [mem EXCEPT ![0] = Head(in)] /\ rest' = [rest EXCEPT ![0] = Tail(in)] /\ ibuf' = Append(ibuf, 0)
        BY <1>01, <1>17, <2>2, <3>2 DEF OpenFile
      <4>2. ibuf' = << 0 >>
        BY <2>3, <4>1
      <4>3. mem'[0] = Head(in) /\ rest'[0] = Tail(in) /\ Head(in) # NoLine
        BY <1>0, <1>01, <3>2, <4>1, HeadTailProperties, Numbers
      <4> QED BY <2>1, <3>2, <4>2, <4>3 DEF FirstRead
    <3> QED BY <3>1, <3>2
  <2> QED BY <1>01, <1>04, <2>1, <2>2, <2>4 DEF CheckRight
<1>18. CASE OpenedAll
  BY <1>0, <1>18, CheckQuiet DEF OpenedAll, Sort
<1>19. CASE DropVoid
  <2>1. pc \in {"drop", "again"} /\ Voids # {}
    BY <1>19 DEF DropVoid
  <2>2. FirstRead
    BY <1>03, <1>04, <2>1 DEF CheckRight
  <2>3. Voids = {}
    <3>1. CASE ibuf = << >>
      BY <3>1 DEF Voids
    <3>2. CASE ibuf = << 0 >>
      <4>1. DOMAIN ibuf = {1} /\ ibuf[1] = 0
        BY <1>01, <3>2, OnePointer
      <4> QED BY <2>2, <3>2, <4>1 DEF FirstRead, Voids
    <3> QED BY <2>2, <3>1, <3>2 DEF FirstRead
  <2> QED BY <2>1, <2>3
<1>20. CASE SortAgain
  BY <1>03, <1>04, <1>0, <1>20, CheckQuiet DEF SortAgain, Sort
<1>21. CASE NoneDropped
  <2>1. pc = "drop" /\ UNCHANGED <<opt, input, disk, range, opened, ibuf, mem, rest>> /\ muflg'
        /\ pc' = (IF ibuf = << >> THEN "close" ELSE "line")
    BY <1>21 DEF NoneDropped
  <2>2. FirstRead /\ opened = 1
    BY <1>03, <1>04, <2>1 DEF CheckRight
  <2>3. CASE ibuf = << >>
    <3>1. in = << >> /\ pc' = "close" /\ in' = in
      BY <2>1, <2>2, <2>3 DEF FirstRead
    <3>2. GoodUpTo(Len(in))'
      BY <3>1 DEF GoodUpTo
    <3> QED BY <1>01, <1>04, <2>1, <2>3, <3>1, <3>2 DEF CheckRight
  <2>4. CASE ibuf # << >>
    <3>1. pc' = "line" /\ ibuf = << 0 >> /\ in # << >> /\ mem[0] = Head(in) /\ rest[0] = Tail(in)
      BY <2>1, <2>2, <2>4 DEF FirstRead
    <3>2. Len(in) \in Nat \ {0} /\ Len(rest[0]) = Len(in) - 1 /\ mem[0] = in[1]
          /\ \A i \in 1 .. Len(rest[0]) : rest[0][i] = in[i + 1]
      BY <1>0, <3>1, HeadTailProperties, EmptySeq, LenProperties
    <3>3. Consumed = 1
      <4> DEFINE n == Len(in)
                 l == Len(rest[0])
      <4>1. n \in Nat /\ l = n - 1
        BY <3>2
      <4> HIDE DEF n, l
      <4>2. n - l = 1
        BY <4>1
      <4> QED BY <4>2 DEF n, l, Consumed
    <3>4. \A i \in 1 .. Len(rest[0]) : rest[0][i] = in[1 + i]
      BY <3>2
    <3>5. LineRead
      BY <3>1, <3>2, <3>3, <3>4 DEF LineRead
    <3>6. LineRead' /\ Consumed' = 1 /\ in' = in
      BY <2>1, <3>3, <3>5 DEF LineRead, Consumed
    <3>7. GoodUpTo(Consumed)'
      BY <3>6 DEF GoodUpTo
    <3>8. LinesRead'
      BY <2>1, <3>1, <3>6, <3>7 DEF LinesRead
    <3> QED BY <1>01, <1>04, <2>1, <3>1, <3>8 DEF CheckRight
  <2> QED BY <2>3, <2>4
<1>22. CASE MergeLine
  <2>1. pc = "line" /\ pc' = "next" /\ UNCHANGED <<opt, input, rest, opened, ibuf, muflg, range>> /\ disk' = disk
        /\ mem' = (IF muflg THEN [mem EXCEPT ![Prev] = mem[Last(ibuf)]] ELSE mem)
    BY <1>22 DEF MergeLine
  <2>2. LinesRead
    BY <2>1 DEF CheckRight
  <2>3. LineRead /\ muflg /\ GoodUpTo(Consumed)
    BY <2>1, <2>2 DEF LinesRead
  <2>4. Last(ibuf) = 0
    BY <1>01, <2>3, OnePointer DEF LineRead
  <2>5. mem'[0] = mem[0] /\ mem'[1] = mem[0]
    BY <1>0, <1>01, <1>04, <2>1, <2>3, <2>4
  <2>6. LineRead' /\ Consumed' = Consumed /\ in' = in
    BY <2>1, <2>3, <2>5 DEF LineRead, Consumed
  <2>7. GoodUpTo(Consumed)'
    BY <2>1, <2>3, <2>6 DEF GoodUpTo
  <2>8. LinesRead'
    BY <2>1, <2>3, <2>5, <2>6, <2>7 DEF LinesRead
  <2> QED BY <1>01, <1>04, <2>1, <2>8 DEF CheckRight
<1>24. CASE StreamEnds
  <2>1. pc = "next" /\ rest[Last(ibuf)] = << >> /\ UNCHANGED <<opt, input, disk, opened, mem, rest, range>>
        /\ pc' = (IF Front(ibuf) = << >> THEN "close" ELSE "check")
    BY <1>24 DEF StreamEnds
  <2>2. LinesRead
    BY <2>1 DEF CheckRight
  <2>3. LineRead /\ GoodUpTo(Consumed)
    BY <2>1, <2>2 DEF LinesRead
  <2>4. Last(ibuf) = 0 /\ Front(ibuf) = << >>
    BY <1>01, <2>3, OnePointer DEF LineRead
  <2>5. Consumed = Len(in)
    <3>1. Len(rest[0]) = 0 /\ Len(in) \in Nat
      BY <1>0, <2>1, <2>4, LenProperties
    <3> QED BY <3>1 DEF Consumed
  <2>6. GoodUpTo(Len(in))' /\ pc' = "close"
    BY <2>1, <2>3, <2>4, <2>5 DEF GoodUpTo
  <2> QED BY <1>01, <1>04, <2>1, <2>6 DEF CheckRight
<1>25. CASE StreamReads
  <2>1. pc = "next" /\ rest[Last(ibuf)] # << >> /\ UNCHANGED <<opt, input, disk, opened, range, muflg>> /\ pc' = "check"
        /\ Rline(Last(ibuf))
    BY <1>25 DEF StreamReads
  <2>2. LinesRead
    BY <2>1 DEF CheckRight
  <2>3. LineRead /\ GoodUpTo(Consumed) /\ mem[1] = mem[0] /\ muflg
    BY <2>1, <2>2 DEF LinesRead
  <2>4. Last(ibuf) = 0 /\ Elements(ibuf) = {0} /\ Len(ibuf) = 1
    BY <1>01, <2>3, OnePointer DEF LineRead
  <2>5. ibuf' \in Seq(Nat) /\ SamePointers(ibuf, ibuf') /\ Distinct(ibuf')
    BY <1>25, NextSorted
  <2>6. ibuf' = << 0 >>
    <3>1. Elements(ibuf') = {0}
      BY <1>01, <2>4, <2>5, SameElements
    <3> QED BY <2>5, <3>1, OnePointer
  <2>7. mem' = [mem EXCEPT ![0] = Head(rest[0])] /\ rest' = [rest EXCEPT ![0] = Tail(rest[0])] /\ rest[0] # << >>
    BY <2>1, <2>4 DEF Rline
  <2>8. mem'[0] = Head(rest[0]) /\ mem'[1] = mem[0] /\ rest'[0] = Tail(rest[0])
    BY <1>0, <1>01, <2>3, <2>7
  <2> DEFINE n == Consumed
  <2>9. n = Len(in) - Len(rest[0]) /\ n \in 1 .. Len(in) /\ mem[0] = in[n]
        /\ \A i \in 1 .. Len(rest[0]) : rest[0][i] = in[n + i]
    BY <2>3 DEF LineRead, Consumed
  <2>10. n \in Nat /\ Len(in) \in Nat
    BY <1>0, <2>9, LenProperties
  <2>14. GoodUpTo(n)
    BY <2>3
  <2> HIDE DEF n
  <2>11. /\ Len(in) - Len(Tail(rest[0])) = n + 1 /\ n + 1 \in 1 .. Len(in) /\ Head(rest[0]) = in[n + 1]
         /\ \A i \in 1 .. Len(Tail(rest[0])) : Tail(rest[0])[i] = in[n + 1 + i]
    <3> DEFINE r == rest[0]
    <3>1. r \in Seq(Lines) /\ r # << >> /\ in \in Seq(Lines)
      BY <1>0, <2>7
    <3>2. n = Len(in) - Len(r) /\ n \in 1 .. Len(in)
      BY <2>9
    <3>3. \A i \in 1 .. Len(r) : r[i] = in[n + i]
      BY <2>9
    <3> HIDE DEF r, in
    <3>4. /\ Len(in) - Len(Tail(r)) = n + 1 /\ n + 1 \in 1 .. Len(in) /\ Head(r) = in[n + 1]
          /\ \A i \in 1 .. Len(Tail(r)) : Tail(r)[i] = in[n + 1 + i]
      BY <3>1, <3>2, <3>3, FurtherRead
    <3> QED BY <3>4 DEF r, in
  <2>12. Consumed' = n + 1 /\ in' = in
    BY <2>1, <2>8, <2>11 DEF Consumed
  <2>13. LineRead'
    BY <2>6, <2>8, <2>11, <2>12 DEF LineRead
  <2>15. Consumed' >= 2 /\ Consumed' - 1 = n
    BY <2>9, <2>10, <2>12
  <2>16. (GoodUpTo(Consumed - 1))'
    BY <2>1, <2>12, <2>14, <2>15 DEF GoodUpTo
  <2>17. mem'[1] = in'[Consumed' - 1]
    BY <2>8, <2>9, <2>12, <2>15
  <2>18. LinesRead'
    BY <2>1, <2>3, <2>13, <2>15, <2>16, <2>17 DEF LinesRead
  <2> QED BY <1>01, <1>04, <2>1, <2>18 DEF CheckRight
<1>26. CASE NextLine
  <2>1. pc = "check" /\ pc' = "line" /\ UNCHANGED <<opt, input, disk, opened, ibuf, mem, rest, range, muflg>>
        /\ ~Disorder(mem[Last(ibuf)], mem[Prev])
    BY <1>26 DEF NextLine
  <2>2. LinesRead
    BY <2>1 DEF CheckRight
  <2>3. LineRead /\ Consumed >= 2 /\ mem[1] = in[Consumed - 1] /\ GoodUpTo(Consumed - 1) /\ muflg
    BY <2>1, <2>2 DEF LinesRead
  <2>4. Last(ibuf) = 0 /\ Prev = 1
    BY <1>01, <1>04, <2>1, <2>3, OnePointer DEF LineRead
  <2> DEFINE n == Consumed - 1
  <2>5. Consumed \in 1 .. Len(in) /\ mem[0] = in[Consumed] /\ Len(in) \in Nat
    BY <1>0, <2>3, LenProperties DEF LineRead
  <2>6. n \in Nat /\ n + 1 = Consumed /\ n \in 1 .. Len(in) /\ n + 1 \in 1 .. Len(in)
    BY <2>3, <2>5
  <2>7. GoodUpTo(n) /\ mem[1] = in[n] /\ mem[0] = in[n + 1]
    BY <2>3, <2>5, <2>6
  <2> HIDE DEF n
  <2>8. GoodUpTo(n + 1)
    BY <1>0, <2>1, <2>4, <2>6, <2>7, GoodFurther
  <2>9. LineRead' /\ Consumed' = n + 1
    BY <2>1, <2>3, <2>6 DEF LineRead, Consumed
  <2>10. (GoodUpTo(Consumed))'
    BY <2>1, <2>8, <2>9 DEF GoodUpTo
  <2>11. LinesRead'
    BY <2>1, <2>3, <2>9, <2>10 DEF LinesRead
  <2> QED BY <1>01, <1>04, <2>1, <2>11 DEF CheckRight
<1>28. CASE MergeClose
  <2>1. pc = "close" /\ pc' = "plan" /\ UNCHANGED <<opt, input, range>>
        /\ disk' = [f \in DOMAIN disk |-> IF f \in range[1] .. range[2] - 1 /\ f >= eargc THEN Absent ELSE disk[f]]
    BY <1>28 DEF MergeClose, Unlinked
  <2>2. disk'[0] = in
    BY <1>0, <1>01, <2>1
  <2>3. GoodUpTo(Len(in))
    BY <2>1 DEF CheckRight
  <2>4. GoodUpTo(Len(in))'
    BY <2>1, <2>3 DEF GoodUpTo
  <2> QED BY <1>01, <1>04, <2>1, <2>2, <2>4 DEF CheckRight
<1> QED BY <1>02, <1>9, <1>10, <1>12, <1>15, <1>17, <1>18,
           <1>19, <1>20, <1>21, <1>22, <1>24, <1>25, <1>26, <1>28, Stopped DEF SortNext

LEMMA CheckBegins ==
  ASSUME SortInit
  PROVE  CheckRight /\ CheckIsRight /\ fault = "none"
<1>1. pc \in {"plan", "read"}
  BY DEF SortInit
<1>2. ASSUME opt.c PROVE disk[0] = input[1] /\ range[1] = 0 /\ range[2] = 0 /\ pc = "plan"
  <2>1. eargc = 1 /\ range = <<0, 0>>
    BY <1>2, InitFacts
  <2>2. 0 \in 0 .. eargc - 1 /\ 0 + 1 = 1
    BY <2>1
  <2>3. disk[0] = input[1]
    BY <2>2, InitFacts
  <2>4. pc = "plan"
    BY <1>2 DEF SortInit
  <2> QED BY <2>1, <2>3, <2>4
<1>3. fault = "none"
  BY DEF SortInit
<1> QED BY <1>1, <1>2, <1>3 DEF CheckRight, CheckIsRight

LEMMA CheckUnchanged ==
  ASSUME CheckRight, UNCHANGED sortvars
  PROVE  CheckRight'
<1>1. UNCHANGED <<opt, input, disk, range, pc, opened, ibuf, mem, rest, muflg>>
  BY DEF sortvars, setup, streams, flags
<1>2. FirstRead' <=> FirstRead
  BY <1>1 DEF FirstRead
<1>3. Consumed' = Consumed /\ \A n : (GoodUpTo(n) <=> GoodUpTo(n)')
  BY <1>1 DEF Consumed, GoodUpTo
<1>4. LinesRead' <=> LinesRead
  BY <1>1, <1>3 DEF LinesRead, LineRead, GoodUpTo
<1>5. GoodUpTo(Len(input[1]))' <=> GoodUpTo(Len(input[1]))
  BY <1>1 DEF GoodUpTo
<1> QED BY <1>1, <1>2, <1>4, <1>5 DEF CheckRight

\* What the exit status must tell.
LEMMA GoodIs ==
  ASSUME opt' = opt, input' = input, opt.u \in BOOLEAN
  PROVE  GoodUpTo(Len(input[1])) <=> (IF opt.u THEN Unique(input[1]) ELSE Ascending(input[1]))'
<1>1. \A x, y : Compare(x, y)' = Cmp(opt.u, x, y)
  BY DEF Compare, Cmp
<1>2. \A x, y : (opt.u => Cmp(opt.u, x, y) = Cmp(TRUE, x, y)) /\ (~opt.u => Cmp(opt.u, x, y) = Cmp(FALSE, x, y))
  BY DEF Cmp
<1> DEFINE in == input[1]
           n == Len(in) - 1
<1>3. CASE opt.u
  <2>1. GoodUpTo(Len(in)) <=> \A i \in 1 .. n : Cmp(TRUE, in[i], in[i + 1]) > 0
    BY <1>3 DEF GoodUpTo
  <2>2. Unique(in)' <=> \A i \in 1 .. n : Compare(in[i], in[i + 1])' > 0
    BY DEF Unique
  <2>3. \A x, y : Compare(x, y)' = Cmp(TRUE, x, y)
    BY <1>1, <1>2, <1>3
  <2> QED BY <1>3, <2>1, <2>2, <2>3
<1>4. CASE ~opt.u
  <2>1. GoodUpTo(Len(in)) <=> \A i \in 1 .. n : Cmp(FALSE, in[i], in[i + 1]) >= 0
    BY <1>4 DEF GoodUpTo
  <2>2. Ascending(in)' <=> \A i \in 1 .. n : Compare(in[i], in[i + 1])' >= 0
    BY DEF Ascending
  <2>3. \A x, y : Compare(x, y)' = Cmp(FALSE, x, y)
    BY <1>1, <1>2, <1>4
  <2> QED BY <1>4, <2>1, <2>2, <2>3
<1> QED BY <1>3, <1>4

LEMMA CheckEnds ==
  ASSUME Base, CheckRight, SortNext, pc' = "exit", fault # "told"
  PROVE  CheckIsRight'
<1> USE DEF setup, reading, qstate, streams, flags
<1>5. CASE ReadFails
  BY <1>5 DEF ReadFails, Fail, Term, CheckIsRight
<1> SUFFICES ASSUME opt.c, ~ReadFails
             PROVE  (error = 0 <=> IF opt.u THEN Unique(input[1]) ELSE Ascending(input[1]))' /\ fault' # "told"
  BY <1>5, Exits DEF CheckIsRight
<1> DEFINE in == input[1]
<1>0. opt' = opt /\ input' = input /\ pc # "exit"
  BY Exits, Running
<1>1. in \in Seq(Lines) /\ opt.u \in BOOLEAN /\ ~SortPhase /\ ~Staged /\ nfiles = 1 /\ ibuf \in Seq(Nat)
  BY <1>0, OneFile DEF Base, SortTypes
<1>2. error' = 0 <=> GoodUpTo(Len(in))
  <2>1. PlanDone \/ Disordered
    <3>1. ~CreateFails
      BY <1>0, <1>1 DEF SortPhase, CreateFails, Output
    <3> QED BY <1>1, <3>1, Exits DEF SortPhase, StoreChunkFails, PutLineFails, PlanFails, MergeLineFails
  <2>2. CASE PlanDone
    <3>1. pc = "plan" /\ range[2] = nfiles /\ error' = 0
      BY <2>2 DEF PlanDone, Term
    <3> QED BY <1>1, <3>1 DEF CheckRight
  <2>3. CASE Disordered
    <3>1. pc = "check" /\ error' = 1 /\ Disorder(mem[Last(ibuf)], mem[Prev])
      BY <2>3 DEF Disordered, Term
    <3>2. LinesRead /\ range[1] = 0 /\ range[2] = 1
      BY <3>1 DEF CheckRight
    <3>3. LineRead /\ Consumed >= 2 /\ mem[1] = in[Consumed - 1] /\ GoodUpTo(Consumed - 1)
      BY <3>1, <3>2 DEF LinesRead
    <3>4. Last(ibuf) = 0 /\ Prev = 1
      <4>1. Last(ibuf) = 0
        BY <1>1, <3>3, OnePointer DEF LineRead
      <4> QED BY <3>2, <4>1 DEF Prev
    <3>5. Consumed \in 1 .. Len(in) /\ mem[0] = in[Consumed] /\ Len(in) \in Nat
      BY <1>1, <3>3, LenProperties DEF LineRead
    <3> DEFINE n == Consumed - 1
    <3>6. n \in Nat /\ n + 1 = Consumed /\ n \in 1 .. Len(in) /\ n + 1 \in 1 .. Len(in)
      BY <3>3, <3>5
    <3>7. GoodUpTo(n) /\ mem[1] = in[n] /\ mem[0] = in[n + 1]
      BY <3>3, <3>5, <3>6
    <3> HIDE DEF n
    <3>8. ~GoodUpTo(n + 1)
      BY <1>0, <3>1, <3>4, <3>6, <3>7, GoodFurther
    <3>9. ~GoodUpTo(Consumed)
      BY <3>6, <3>8
    <3>10. ~GoodUpTo(Len(in))
      <4> DEFINE good(i) == IF opt.u THEN Cmp(TRUE, input[1][i], input[1][i + 1]) > 0
                            ELSE Cmp(FALSE, input[1][i], input[1][i + 1]) >= 0
      <4>2. \A k : GoodUpTo(k) <=> \A i \in 1 .. k - 1 : good(i)
        BY DEF GoodUpTo
      <4> HIDE DEF good
      <4> DEFINE m == Consumed
                 l == Len(in)
      <4>3. ~GoodUpTo(m) /\ m \in 1 .. l /\ l \in Nat
        BY <3>5, <3>9
      <4>4. (GoodUpTo(m) <=> \A i \in 1 .. m - 1 : good(i)) /\ (GoodUpTo(l) <=> \A i \in 1 .. l - 1 : good(i))
        BY <4>2
      <4> HIDE DEF m, l
      <4>5. ~GoodUpTo(l)
        BY <4>3, <4>4
      <4> QED BY <4>5 DEF l
    <3> QED BY <3>1, <3>10
  <2> QED BY <2>1, <2>2, <2>3
<1>3. fault' # "told"
  <2>1. PlanDone \/ Disordered
    <3>1. ~CreateFails
      BY <1>0, <1>1 DEF SortPhase, CreateFails, Output
    <3> QED BY <1>1, <3>1, Exits DEF SortPhase, StoreChunkFails, PutLineFails, PlanFails, MergeLineFails
  <2> QED BY <2>1 DEF PlanDone, Disordered
<1> QED BY <1>0, <1>1, <1>2, <1>3, GoodIs

\* While sort runs nothing has failed that it told; once a write has been lost, one has.
LEMMA FaultKept ==
  ASSUME SortNext, pc' # "exit"
  PROVE  /\ fault # "told" => fault' # "told"
         /\ fault = "silent" => fault' = "silent"
         /\ PutAllCuts \/ MergeCloseCuts => fault' = "silent"
<1>1. fault' = fault \/ fault' = "silent"
  BY Stopped DEF SortNext, ReadLine, ReadOn, ReadAll, StoreChunk, PutLine, PutAll, PutAllCuts,
     QusortBegin, QusortLoop, QusortParted, QusortReturn, PlanRun, PlanOutput,
     OpenFile, OpenedAll, DropVoid, SortAgain, NoneDropped, MergeLine, StreamEnds,
     StreamReads, NextLine, MergeClose, MergeCloseCuts
<1>2. PutAllCuts \/ MergeCloseCuts => fault' = "silent"
  BY DEF PutAllCuts, MergeCloseCuts
<1> QED BY <1>1, <1>2

\* -c tells whether the file is sorted, and with -u whether it is without equals.
THEOREM CheckTells == SortSpec => []CheckIsRight
<1> DEFINE Inv == (pc # "exit" => CheckRight /\ fault # "told") /\ CheckIsRight
<1>1. SortInit => Inv
  BY CheckBegins
<1>2. ASSUME Base, Inv, SortNext PROVE Inv'
  <2>1. pc # "exit" /\ CheckRight /\ fault # "told"
    BY <1>2, Running
  <2>2. CASE pc' = "exit"
    BY <1>2, <2>1, <2>2, CheckEnds
  <2>3. CASE pc' # "exit"
    <3>1. CheckIsRight' /\ fault' # "told"
      BY <1>2, <2>1, <2>3, FaultKept DEF CheckIsRight
    <3>2. CASE opt.c
      BY <1>2, <2>1, <2>3, <3>1, <3>2, CheckKept
    <3>3. CASE ~opt.c
      <4>1. opt' = opt
        BY <1>2, OptStays
      <4> QED BY <3>1, <3>3, <4>1 DEF CheckRight
    <3> QED BY <3>2, <3>3
  <2> QED BY <2>2, <2>3
<1>3. ASSUME Inv, UNCHANGED sortvars PROVE Inv'
  <2>1. UNCHANGED <<pc, opt, error, input, fault>>
    BY <1>3 DEF sortvars, setup
  <2>2. CheckIsRight' <=> CheckIsRight
    BY <2>1 DEF CheckIsRight, Unique, Ascending, Compare
  <2> QED BY <1>3, <2>1, <2>2, CheckUnchanged
<1>4. Base /\ Inv /\ [SortNext]_sortvars => Inv'
  BY <1>2, <1>3
<1>5. Inv => CheckIsRight
  OBVIOUS
<1> HIDE DEF Inv
<1> QED BY <1>1, <1>4, <1>5, BaseHolds, PTL DEF SortSpec


-----------------------------------------------------------------------------
(***************************************************************************)
(* The steps of a merge that neither write nor drop a line: what is left   *)
(* of each stream stays.                                                   *)
(***************************************************************************)
StreamStep ==
  \/ OpenFile \/ OpenedAll \/ DropVoid \/ SortAgain \/ NoneDropped \/ StreamEnds \/ StreamReads
  \/ Merging /\ (QusortBegin \/ QusortLoop \/ QusortReturn)
  \/ NextLine /\ pc' = "line"

LEMMA FirstAdded ==
  ASSUME NEW D, NEW y \in D, NEW s \in Seq(D)
  PROVE  <<y>> \o s \in Seq(D) /\ Added(D, y, s, <<y>> \o s)
<1> DEFINE v == <<y>>
           n == Len(s)
<1>1. v \in Seq(D) /\ Len(v) = 1 /\ v[1] = y /\ n \in Nat
  BY LenProperties
<1> HIDE DEF v
<1>2. /\ v \o s \in Seq(D) /\ Len(v \o s) = Len(v) + Len(s)
      /\ \A i \in 1 .. Len(v) + Len(s) : (v \o s)[i] = IF i <= Len(v) THEN v[i] ELSE s[i - Len(v)]
  BY <1>1, ConcatProperties, Zenon
<1> HIDE DEF n
<1>3. /\ v \o s \in Seq(D) /\ Len(v \o s) = 1 + n
      /\ \A i \in 1 .. 1 + n : (v \o s)[i] = IF i <= 1 THEN v[i] ELSE s[i - 1]
  BY <1>1, <1>2 DEF n
<1>4. ASSUME NEW i \in 1 .. n PROVE (v \o s)[i + 1] = s[i]
  <2>1. i + 1 \in 1 .. 1 + n /\ ~(i + 1 <= 1) /\ (i + 1) - 1 = i
    BY <1>1
  <2> QED BY <1>3, <2>1
<1>5. Len(v \o s) = n + 1 /\ (v \o s)[1] = y
  BY <1>1, <1>3
<1> QED BY <1>3, <1>4, <1>5 DEF v, n, Added

LEMMA HeadFirst ==
  ASSUME NEW D, NEW s \in Seq(D), s # << >>
  PROVE  <<Head(s)>> \o Tail(s) = s /\ Added(D, Head(s), Tail(s), s)
<1> DEFINE n == Len(s)
           y == Head(s)
           t == Tail(s)
           v == <<y>> \o t
<1>1. n \in Nat /\ n >= 1 /\ s \in [1 .. n -> D] /\ y = s[1] /\ y \in D
  BY EmptySeq, LenProperties, HeadTailProperties
<1>2. t \in Seq(D) /\ Len(t) = n - 1 /\ \A i \in 1 .. Len(t) : t[i] = s[i + 1]
  BY HeadTailProperties
<1>3. v \in Seq(D) /\ Added(D, y, t, v)
  BY <1>1, <1>2, FirstAdded
<1> HIDE DEF n, y, t, v
<1>4. Len(v) = n /\ v[1] = s[1]
  BY <1>1, <1>2, <1>3 DEF Added
<1>5. ASSUME NEW i \in 1 .. n, i # 1 PROVE v[i] = s[i]
  <2>1. PICK j \in 1 .. n - 1 : i = j + 1
    BY <1>1, <1>5
  <2>2. v[j + 1] = t[j] /\ t[j] = s[j + 1]
    BY <1>2, <1>3, <2>1 DEF Added
  <2> QED BY <2>1, <2>2
<1>6. v \in [1 .. n -> D]
  BY <1>3, <1>4, LenProperties
<1>7. v = s
  BY <1>1, <1>4, <1>5, <1>6
<1> QED BY <1>3, <1>7 DEF v, y, t

LEMMA PendingQuiet ==
  ASSUME pc \notin {"open", "next"}, pc' \notin {"open", "next"}, UNCHANGED <<mem, rest>>, Using' = Using
  PROVE  \A p : Pending(p)' = Pending(p)
BY DEF Pending

\* What the steps leave alone.
LEMMA StreamStepQuiet ==
  ASSUME Base, StreamStep, ~opt.c
  PROVE  /\ Merging /\ Merging' /\ ~SortPhase /\ ~SortPhase' /\ pc # "exit" /\ pc' # "exit" /\ SortNext
         /\ UNCHANGED <<opt, input, eargc, nfiles, range, disk, os, unread, text, lost, fresh>>
         /\ Live' = Live /\ Prev' = Prev /\ Output' = Output
<1> USE DEF setup, reading, qstate, streams, flags
<1>1. Merging /\ Merging' /\ UNCHANGED <<setup, nfiles, range, disk, os, reading, text, fresh>>
  <2>1. CASE OpenFile
    BY <2>1 DEF OpenFile, Merging
  <2>2. CASE OpenedAll
    BY <2>2, Phases DEF OpenedAll, Merging, Sort
  <2>3. CASE DropVoid
    BY <2>3 DEF DropVoid, Merging, Rline
  <2>4. CASE SortAgain
    BY <2>4, Phases DEF SortAgain, Merging, Sort
  <2>5. CASE NoneDropped
    BY <2>5 DEF NoneDropped, Merging
  <2>6. CASE StreamEnds
    BY <2>6 DEF StreamEnds, Merging
  <2>7. CASE StreamReads
    BY <2>7 DEF StreamReads, Merging, Rline
  <2>8. CASE Merging /\ QusortBegin
    BY <2>8 DEF QusortBegin, Merging
  <2>9. CASE Merging /\ QusortLoop
    BY <2>9 DEF QusortLoop, Merging
  <2>10. CASE Merging /\ QusortReturn
    BY <2>10 DEF QusortReturn, Merging
  <2>11. CASE NextLine
    BY <2>11 DEF NextLine, Merging
  <2> QED BY <2>1, <2>2, <2>3, <2>4, <2>5, <2>6, <2>7, <2>8, <2>9, <2>10, <2>11 DEF StreamStep
<1>2. SortNext
  BY DEF StreamStep, SortNext
<1>3. lost' = lost
  <2>1. CASE NextLine /\ pc' = "line"
    <3>1. lost \in BOOLEAN
      BY DEF Base, SortTypes
    <3> QED BY <2>1, <3>1 DEF NextLine
  <2> QED BY <2>1 DEF StreamStep, OpenFile, OpenedAll, DropVoid, SortAgain, NoneDropped, StreamEnds, StreamReads,
            QusortBegin, QusortLoop, QusortReturn
<1>4. pc # "exit" /\ pc' # "exit" /\ ~SortPhase
  BY <1>1, <1>2, Running, Phases DEF Merging
<1>5. ~SortPhase'
  BY <1>1 DEF Merging, SortPhase
<1>6. Live' = Live /\ Prev' = Prev /\ Output' = Output
  BY <1>1, <1>4, <1>5 DEF Live, Prev, Output
<1> QED BY <1>1, <1>2, <1>3, <1>4, <1>5, <1>6

LEMMA PendingKept ==
  ASSUME Base, Base', StreamStep, ~opt.c
  PROVE  \A p \in 0 .. Prev - 1 : Pending(p)' = Pending(p)
<1> USE DEF setup, reading, qstate, streams, flags
<1>0. /\ Merging /\ Merging' /\ UNCHANGED <<range, disk>> /\ Prev' = Prev /\ pc # "exit"
  BY StreamStepQuiet
<1>1. /\ Prev \in 0 .. N /\ Using \subseteq 0 .. Prev - 1 /\ Distinct(ibuf) /\ ibuf \in Seq(0 .. N)
      /\ mem \in [0 .. N -> Cells] /\ rest \in [0 .. N - 1 -> Seq(Lines)] /\ StreamsRight /\ ibuf \in Seq(Nat)
      /\ \A p \in 0 .. Prev - 1 : p \in 0 .. N - 1 /\ p \in 0 .. N
  <2>1. Prev \in 0 .. N /\ Using \subseteq 0 .. Prev - 1 /\ Distinct(ibuf) /\ ibuf \in Seq(0 .. N)
    BY <1>0, StreamFacts
  <2>2. \A p \in 0 .. Prev - 1 : p \in 0 .. N - 1 /\ p \in 0 .. N
    BY <2>1, Numbers
  <2> QED BY <1>0, <2>1, <2>2 DEF Base, SortTypes
<1>2. CASE OpenFile
  <2> DEFINE q == opened
             lines == disk[range[1] + q]
  <2>1. q \in 0 .. Prev - 1 /\ lines \in Seq(Lines) /\ q \in Nat /\ q \in 0 .. N /\ q \in 0 .. N - 1
    BY <1>2, OpenFacts
  <2>2. pc = "open" /\ pc' = "open" /\ opened' = q + 1 /\ disk' = disk
    BY <1>2 DEF OpenFile
  <2>3. Using \subseteq 0 .. q - 1 /\ q \notin 0 .. q - 1
    BY <1>1, <2>1, <2>2 DEF StreamsRight
  <2>4. CASE lines = << >>
    <3>1. rest' = [rest EXCEPT ![q] = << >>] /\ mem' = mem /\ ibuf' = ibuf
      BY <1>2, <2>4 DEF OpenFile
    <3>2. Using' = Using
      BY <3>1 DEF Using
    <3> SUFFICES ASSUME NEW p \in 0 .. Prev - 1 PROVE Pending(p)' = Pending(p)
      OBVIOUS
    <3>3. CASE p > q
      <4>1. p >= q /\ p >= q + 1
        BY <2>1, <3>3
      <4> QED BY <1>0, <2>2, <4>1 DEF Pending
    <3>4. CASE p = q
      <4>1. p >= q /\ ~(p >= q + 1) /\ p \notin Using
        BY <2>1, <2>3, <3>4
      <4> QED BY <1>0, <2>2, <2>4, <3>2, <3>4, <4>1 DEF Pending
    <3>5. CASE p < q
      <4>1. ~(p >= q) /\ ~(p >= q + 1) /\ p # q
        BY <2>1, <3>5
      <4>2. rest'[p] = rest[p]
        BY <1>1, <3>1, <4>1
      <4> HIDE DEF q
      <4> QED BY <2>2, <3>1, <3>2, <4>1, <4>2 DEF Pending, q
    <3> QED BY <2>1, <3>3, <3>4, <3>5
  <2>5. CASE lines # << >>
    <3>1. /\ rest' = [rest EXCEPT ![q] = Tail(lines)] /\ mem' = [mem EXCEPT ![q] = Head(lines)]
          /\ ibuf' = Append(ibuf, q)
      BY <1>2, <2>5 DEF OpenFile
    <3>2. Using' = Using \cup {q}
      BY <1>1, <2>1, <2>3, <3>1, AppendElements, UsingIs
    <3>3. Head(lines) \in Lines /\ <<Head(lines)>> \o Tail(lines) = lines
      BY <2>1, <2>5, HeadTailProperties, HeadFirst
    <3>4. rest'[q] = Tail(lines) /\ mem'[q] = Head(lines) /\ mem'[q] # NoLine
      BY <1>1, <2>1, <3>1, <3>3, Numbers
    <3>5. \A p \in 0 .. Prev - 1 : p # q => rest'[p] = rest[p] /\ mem'[p] = mem[p] /\ (p \in Using' <=> p \in Using)
      BY <1>1, <3>1, <3>2
    <3> SUFFICES ASSUME NEW p \in 0 .. Prev - 1 PROVE Pending(p)' = Pending(p)
      OBVIOUS
    <3>6. CASE p > q
      <4>1. p >= q /\ p >= q + 1
        BY <2>1, <3>6
      <4> QED BY <1>0, <2>2, <4>1 DEF Pending
    <3>7. CASE p = q
      <4>1. p >= q /\ ~(p >= q + 1) /\ p \in Using'
        BY <2>1, <3>2, <3>7
      <4>2. Pending(p) = lines
        BY <2>2, <3>7, <4>1 DEF Pending
      <4>3. Pending(p)' = <<mem'[q]>> \o rest'[q]
        BY <2>2, <3>4, <3>7, <4>1 DEF Pending
      <4> QED BY <3>3, <3>4, <4>2, <4>3
    <3>8. CASE p < q
      <4>1. ~(p >= q) /\ ~(p >= q + 1) /\ p # q
        BY <2>1, <3>8
      <4>2. rest'[p] = rest[p] /\ mem'[p] = mem[p] /\ (p \in Using' <=> p \in Using)
        BY <3>5, <4>1
      <4> HIDE DEF q
      <4> QED BY <2>2, <4>1, <4>2 DEF Pending, q
    <3> QED BY <2>1, <3>6, <3>7, <3>8
  <2> QED BY <2>4, <2>5
<1>3. CASE OpenedAll
  <2>1. pc = "open" /\ pc' = "qusort" /\ opened = Prev /\ ibuf' = ibuf /\ UNCHANGED <<mem, rest>>
    BY <1>3 DEF OpenedAll, Sort
  <2>2. Using' = Using
    BY <2>1 DEF Using
  <2>3. \A p \in 0 .. Prev - 1 : ~(p >= opened)
    BY <1>1, <2>1
  <2> QED BY <2>1, <2>2, <2>3 DEF Pending
<1>4. CASE DropVoid
  <2> DEFINE k == Max(Voids)
             q == ibuf[k]
  <2>1. k \in 1 .. Len(ibuf) /\ k \in DOMAIN ibuf /\ mem[q] = NoLine /\ q \in 0 .. Prev - 1 /\ q \in 0 .. N - 1
    BY <1>4, DropFacts
  <2>2. pc \in {"drop", "again"} /\ pc' = "again"
    BY <1>4 DEF DropVoid
  <2>3. q \in Using
    BY <2>1 DEF Using
  <2>4. Pending(q) = rest[q]
    BY <2>1, <2>2, <2>3 DEF Pending
  <2>5. CASE rest[q] = << >>
    <3>1. ibuf' = RemoveAt(ibuf, k) /\ UNCHANGED <<mem, rest>>
      BY <1>4, <2>5 DEF DropVoid
    <3> HIDE DEF k
    <3>2. Using' = Using \ {q}
      BY <1>1, <2>1, <3>1, RemoveElements, UsingIs
    <3> HIDE DEF q
    <3> QED BY <2>2, <2>3, <2>4, <2>5, <3>1, <3>2 DEF Pending
  <2>6. CASE rest[q] # << >>
    <3>1. ibuf' = ibuf /\ Rline(q)
      BY <1>4, <2>6 DEF DropVoid
    <3>2. Using' = Using
      BY <3>1 DEF Using
    <3> HIDE DEF q
    <3>3. rest[q] \in Seq(Lines) /\ <<Head(rest[q])>> \o Tail(rest[q]) = rest[q] /\ Head(rest[q]) \in Lines
      BY <1>1, <2>1, <2>6, HeadTailProperties, HeadFirst
    <3>4. mem'[q] = Head(rest[q]) /\ rest'[q] = Tail(rest[q]) /\ mem'[q] # NoLine
      BY <1>1, <2>1, <3>1, <3>3, Numbers DEF Rline
    <3>5. \A p \in 0 .. Prev - 1 : p # q => mem'[p] = mem[p] /\ rest'[p] = rest[p]
      BY <1>1, <3>1 DEF Rline
    <3>6. ASSUME NEW p \in 0 .. Prev - 1, p = q PROVE Pending(p)' = Pending(p)
      <4>1. Pending(p) = rest[p]
        BY <2>4, <3>6
      <4>2. p \in Using' /\ mem'[p] # NoLine /\ mem'[p] = Head(rest[p]) /\ rest'[p] = Tail(rest[p])
        BY <2>3, <3>2, <3>4, <3>6
      <4>3. Pending(p)' = <<mem'[p]>> \o rest'[p]
        BY <2>2, <4>2 DEF Pending
      <4> QED BY <3>3, <3>6, <4>1, <4>2, <4>3
    <3>7. ASSUME NEW p \in 0 .. Prev - 1, p # q PROVE Pending(p)' = Pending(p)
      <4>1. mem'[p] = mem[p] /\ rest'[p] = rest[p]
        BY <3>5, <3>7
      <4> QED BY <2>2, <3>2, <4>1 DEF Pending
    <3> QED BY <3>6, <3>7
  <2> QED BY <2>5, <2>6
<1>5. CASE SortAgain
  <2>1. pc = "again" /\ pc' = "qusort" /\ ibuf' = ibuf /\ UNCHANGED <<mem, rest>>
    BY <1>5 DEF SortAgain, Sort
  <2> QED BY <2>1, PendingQuiet DEF Using
<1>6. CASE NoneDropped
  BY <1>6, PendingQuiet DEF NoneDropped, Using
<1>7. CASE StreamEnds
  <2> DEFINE q == Last(ibuf)
             b == Front(ibuf)
  <2>1. pc = "next" /\ pc' \in {"close", "check"} /\ rest[q] = << >> /\ UNCHANGED <<mem, rest>>
    BY <1>7 DEF StreamEnds
  <2>2. ibuf # << >> /\ InLine
    BY <2>1, LineFacts DEF InLine
  <2>3. Elements(b) = Using \ {q} /\ q \in Using /\ b \in Seq(0 .. N)
    BY <1>1, <2>2, FrontElements, FrontLast, UsingIs
  <2>4. ibuf' \in Seq(Nat) /\ SamePointers(b, ibuf')
    BY <1>7, FrontSorted
  <2> HIDE DEF b
  <2>5. Using' = Using \ {q}
    BY <2>3, <2>4, SameElements, UsingIs
  <2>6. Pending(q) = << >>
    BY <2>1, <2>3 DEF Pending
  <2> QED BY <2>1, <2>5, <2>6 DEF Pending
<1>8. CASE StreamReads
  <2> DEFINE q == Last(ibuf)
  <2>1. pc = "next" /\ pc' = "check" /\ rest[q] # << >> /\ Rline(q)
    BY <1>8 DEF StreamReads
  <2>2. ibuf # << >> /\ InLine /\ q \in 0 .. N - 1 /\ q \in 0 .. Prev - 1
    BY <2>1, LineFacts DEF InLine
  <2>3. q \in Using
    BY <1>1, <2>2, FrontElements, UsingIs
  <2>4. ibuf' \in Seq(Nat) /\ SamePointers(ibuf, ibuf')
    BY <1>8, NextSorted
  <2>5. Using' = Using
    BY <1>1, <2>4, SameElements, UsingIs
  <2>6. Pending(q) = rest[q]
    BY <2>1, <2>3 DEF Pending
  <2> HIDE DEF q
  <2>7. rest[q] \in Seq(Lines) /\ <<Head(rest[q])>> \o Tail(rest[q]) = rest[q] /\ Head(rest[q]) \in Lines
    BY <1>1, <2>1, <2>2, HeadTailProperties, HeadFirst
  <2>8. mem'[q] = Head(rest[q]) /\ rest'[q] = Tail(rest[q]) /\ mem'[q] # NoLine
    BY <1>1, <2>1, <2>2, <2>7, Numbers DEF Rline
  <2>9. \A p \in 0 .. Prev - 1 : p # q => mem'[p] = mem[p] /\ rest'[p] = rest[p]
    BY <1>1, <2>1 DEF Rline
  <2>10. ASSUME NEW p \in 0 .. Prev - 1, p = q PROVE Pending(p)' = Pending(p)
    <3>1. Pending(p) = rest[p]
      BY <2>6, <2>10
    <3>2. p \in Using' /\ mem'[p] # NoLine /\ mem'[p] = Head(rest[p]) /\ rest'[p] = Tail(rest[p])
      BY <2>3, <2>5, <2>8, <2>10
    <3>3. Pending(p)' = <<mem'[p]>> \o rest'[p]
      BY <2>1, <3>2 DEF Pending
    <3> QED BY <2>7, <2>10, <3>1, <3>2, <3>3
  <2>11. ASSUME NEW p \in 0 .. Prev - 1, p # q PROVE Pending(p)' = Pending(p)
    <3>1. mem'[p] = mem[p] /\ rest'[p] = rest[p]
      BY <2>9, <2>11
    <3> QED BY <2>1, <2>5, <2>11, <3>1 DEF Pending, q
  <2> QED BY <2>10, <2>11
<1>9. CASE Merging /\ QusortBegin
  BY <1>9, PendingQuiet DEF QusortBegin, Using
<1>10. CASE Merging /\ QusortLoop
  <2>1. pc = "qusort" /\ pc' = "qusort" /\ UNCHANGED <<mem, rest>>
    BY <1>10 DEF QusortLoop
  <2>2. ibuf' \in Seq(DOMAIN Memory) /\ Permuted(ibuf, ibuf', Last(segs))
    BY <1>10, LoopStep
  <2>3. Using' = Using
    BY <1>1, <2>2, PermutedElements, UsingIs
  <2> QED BY <2>1, <2>3, PendingQuiet
<1>11. CASE Merging /\ QusortReturn
  <2>1. pc = "qusort" /\ pc' \in {"store", "drop"} /\ UNCHANGED <<mem, rest, ibuf>>
    BY <1>11 DEF QusortReturn
  <2> QED BY <2>1, PendingQuiet DEF Using
<1>12. CASE NextLine /\ pc' = "line"
  <2>1. pc = "check" /\ UNCHANGED <<mem, rest, ibuf>>
    BY <1>12 DEF NextLine
  <2> QED BY <1>12, <2>1, PendingQuiet DEF Using
<1> QED BY <1>2, <1>3, <1>4, <1>5, <1>6, <1>7, <1>8, <1>9, <1>10, <1>11, <1>12 DEF StreamStep


-----------------------------------------------------------------------------
(***************************************************************************)
(* The steps that neither write nor drop a line: the texts stay.           *)
(***************************************************************************)
LEMMA FileTextsSame ==
  ASSUME eargc' = eargc, \A f \in -1 .. eargc + MaxTemp : FileText(f)' = FileText(f), eargc \in Nat
  PROVE  FileTexts' = FileTexts
<1> DEFINE n == eargc + MaxTemp
           old == [g \in 0 .. n + 1 |-> FileText(g - 1)]
           new == [g \in 0 .. n + 1 |-> FileText(g - 1)']
<1>1. n \in Nat
  BY Numbers
<1>2. \A g \in 0 .. n + 1 : g - 1 \in -1 .. n
  BY <1>1
<1>3. \A f \in -1 .. n : FileText(f)' = FileText(f)
  OBVIOUS
<1> HIDE DEF n
<1>4. ASSUME NEW g \in 0 .. n + 1 PROVE FileText(g - 1)' = FileText(g - 1)
  <2> DEFINE f == g - 1
  <2>1. f \in -1 .. n
    BY <1>2
  <2> HIDE DEF f
  <2>2. FileText(f)' = FileText(f)
    BY <1>3, <2>1
  <2> QED BY <2>2 DEF f
<1>5. new = old
  BY <1>4
<1>6. FileTexts = old
  BY DEF FileTexts, n
<1>7. FileTexts' = new
  BY DEF FileTexts, n
<1> QED BY <1>5, <1>6, <1>7

LEMMA StreamTexts ==
  ASSUME Base, Base', StreamStep, ~opt.c
  PROVE  FileTexts' = FileTexts /\ Chunked' = Chunked
<1>1. Merging /\ Merging' /\ ~SortPhase /\ ~SortPhase' /\ UNCHANGED <<range, disk, eargc>> /\ Live' = Live
      /\ pc # "exit" /\ Prev' = Prev
  BY StreamStepQuiet
<1>2. \A p \in 0 .. Prev - 1 : Pending(p)' = Pending(p)
  BY PendingKept
<1>3. range[1] \in Nat /\ range[2] \in Nat /\ eargc \in Nat
  BY <1>1, RangeFacts
<1>4. ASSUME NEW f \in Int PROVE FileText(f)' = FileText(f)
  <2>1. CASE f \in Merged
    <3>1. f - range[1] \in 0 .. Prev - 1
      BY <1>3, <2>1 DEF Merged, Prev
    <3>3. \A r \in Nat : r = f - range[1] => Pending(r)' = Pending(r)
      BY <1>2, <3>1
    <3>4. \A r : r = f - range[1] => FileText(f) = Pending(r) /\ FileText(f)' = Pending(r)'
      BY <1>1, <2>1 DEF FileText, Merged
    <3>5. PICK r \in Nat : r = f - range[1]
      BY <3>1
    <3> QED BY <3>3, <3>4, <3>5
  <2>2. CASE f \notin Merged
    BY <1>1, <2>2 DEF FileText, Merged
  <2> QED BY <2>1, <2>2
<1>5. FileTexts' = FileTexts
  <2>1. \A f \in -1 .. eargc + MaxTemp : f \in Int
    BY <1>3, Numbers
  <2> QED BY <1>1, <1>3, <1>4, <2>1, FileTextsSame
<1>6. Chunked' = Chunked
  BY <1>1 DEF Chunked, SortPhase
<1> QED BY <1>5, <1>6

LEMMA ReadTexts ==
  ASSUME Base, Base', ReadOn \/ ReadAll \/ StoreChunk \/ PutAll \/ (SortPhase /\ (QusortBegin \/ QusortLoop \/ QusortReturn))
  PROVE  /\ FileTexts' = FileTexts /\ Chunked' = Chunked
         /\ UNCHANGED <<opt, input, unread, lost>>
<1> USE DEF setup, reading, qstate, streams, flags
<1>1. /\ pc # "exit" /\ ~Merging /\ UNCHANGED <<eargc, range, opt, input, unread, lost>> /\ SortPhase
      /\ pc' # "exit" /\ ~Merging'
  BY Phases DEF ReadOn, ReadAll, StoreChunk, PutAll, QusortBegin, QusortLoop, QusortReturn, Sort, SortPhase, Merging
<1>2. /\ range[1] \in Nat /\ range[2] \in Nat /\ eargc \in Nat /\ range[2] = eargc /\ nfiles \in Nat /\ eargc <= nfiles
      /\ Output \in {Stdout, 0} /\ Stdout = -1 /\ caller = "sort" /\ eargc >= 1 /\ nfiles <= eargc + MaxTemp /\ MaxTemp \in Nat
  <2>1. range = <<eargc, eargc>>
    BY <1>1 DEF Base, RangeRight
  <2>2. range[2] = eargc
    BY <2>1
  <2> QED BY <1>1, <2>2, RangeFacts, Phases
<1>3. ibuf \in Seq(Nat) /\ Using = Elements(ibuf) /\ Using' = Elements(ibuf') /\ Output' = Output
      /\ text \in Seq(Cells) /\ disk \in [Files(eargc) -> Seq(Cells)]
  BY <1>1, UsingIs DEF Base, SortTypes, Output
<1>4. CASE ReadOn
  <2>1. UNCHANGED <<pc, text, nfiles, disk>> /\ pc = "read"
    BY <1>4 DEF ReadOn
  <2>2. Live' = Live
    BY <1>1, <2>1, LiveSame DEF SortPhase
  <2>3. \A f \in -1 .. eargc + MaxTemp : FileText(f)' = FileText(f)
    BY <1>1, <2>1, <2>2 DEF FileText
  <2> QED BY <1>1, <1>2, <2>1, <2>3, FileTextsSame DEF Chunked
<1>5. CASE ReadAll
  <2> DEFINE n == Len(text)
             b == [k \in 1 .. n |-> k]
  <2>1. UNCHANGED <<text, nfiles, disk, caller>> /\ pc = "read" /\ pc' = "qusort" /\ ibuf' = b
    BY <1>5 DEF ReadAll, Sort
  <2>2. SortPhase' /\ SortPhase
    BY <1>2, <2>1 DEF SortPhase
  <2>3. Live' = Live
    BY <1>1, <2>1, <2>2, LiveSame
  <2>4. \A f \in -1 .. eargc + MaxTemp : FileText(f)' = FileText(f)
    BY <1>1, <2>1, <2>3 DEF FileText
  <2>5. Elements(b) = 1 .. n
    BY DEF Elements
  <2>6. Using' = 1 .. n
    BY <1>3, <2>1, <2>5
  <2>7. Chunked' = [p \in 1 .. n |-> text[p]]
    BY <2>1, <2>2, <2>6 DEF Chunked
  <2>8. text \in [1 .. n -> Cells]
    BY <1>3, LenProperties
  <2>9. Chunked' = text
    BY <2>7, <2>8
  <2>10. Chunked = text
    BY <2>1 DEF Chunked
  <2> QED BY <1>1, <1>2, <2>4, <2>9, <2>10, FileTextsSame
<1>6. CASE StoreChunk
  <2>1. pc = "store" /\ pc' = "put" /\ UNCHANGED <<text, ibuf, caller>> /\ SortPhase' /\ eargc' = eargc /\ opt' = opt
    BY <1>6 DEF StoreChunk, SortPhase
  <2>2. Chunked' = Chunked
    BY <1>1, <2>1 DEF Chunked, Using
  <2>3. \A f \in -1 .. eargc + MaxTemp : FileText(f)' = FileText(f)
    <3>1. CASE Direct
      <4>1. nfiles' = nfiles /\ nfiles = eargc /\ disk' = [disk EXCEPT ![Output] = << >>]
        BY <1>6, <3>1 DEF StoreChunk, Direct
      <4>2. Live = {} /\ Live' = {Output}
        BY <1>1, <1>2, <1>3, <2>1, <4>1 DEF Live
      <4>3. Output \in Files(eargc)
        BY <1>2 DEF Files
      <4>4. disk'[Output] = << >>
        BY <1>3, <4>1, <4>3
      <4> QED BY <1>1, <1>3, <4>2, <4>4 DEF FileText
    <3>2. CASE ~Direct
      <4>1. nfiles' = nfiles + 1 /\ disk' = [disk EXCEPT ![nfiles] = << >>] /\ NewfileWorks
        BY <1>6, <3>2 DEF StoreChunk
      <4>2. nfiles' > range[2]
        BY <1>2, <4>1
      <4>3. Live = eargc .. nfiles - 1
        <5>1. CASE eargc < nfiles
          BY <1>2, <5>1 DEF Live
        <5>2. CASE eargc = nfiles
          <6>1. Live = {}
            BY <1>1, <1>2, <2>1, <5>2 DEF Live
          <6>2. eargc .. nfiles - 1 = {}
            BY <1>2, <5>2
          <6> QED BY <6>1, <6>2
        <5> QED BY <1>2, <5>1, <5>2
      <4>4. Live' = eargc .. nfiles
        <5>1. Live' = range[2] .. nfiles' - 1
          BY <1>1, <4>2 DEF Live
        <5>2. nfiles' - 1 = nfiles
          BY <1>2, <4>1
        <5> QED BY <1>2, <5>1, <5>2
      <4>5. nfiles \in Files(eargc)
        BY <1>2 DEF Files
      <4>6. disk'[nfiles] = << >> /\ \A f \in Files(eargc) : f # nfiles => disk'[f] = disk[f]
        BY <1>3, <4>1, <4>5
      <4>7. \A f \in -1 .. eargc + MaxTemp : f \in Files(eargc)
        BY <1>2 DEF Files
      <4>8. \A f \in -1 .. eargc + MaxTemp : f \in Live' <=> f = nfiles \/ f \in Live
        BY <1>2, <4>3, <4>4
      <4>9. nfiles \notin Live
        BY <1>2, <4>3
      <4> QED BY <1>1, <4>6, <4>7, <4>8, <4>9 DEF FileText
    <3> QED BY <3>1, <3>2
  <2> QED BY <1>1, <1>2, <2>2, <2>3, FileTextsSame
<1>7. CASE PutAll
  <2>1. /\ pc = "put" /\ pc' = (IF Done THEN "plan" ELSE "read") /\ text' = << >> /\ ibuf = << >> /\ ibuf' = << >>
        /\ UNCHANGED <<nfiles, disk>>
    BY <1>7 DEF PutAll
  <2>2. Using = {}
    BY <2>1 DEF Using
  <2>3. Chunked = << >>
    <3>1. Chunked = [p \in {} |-> text[p]]
      BY <1>1, <2>1, <2>2 DEF Chunked
    <3> QED BY <3>1
  <2>4. Chunked' = << >>
    BY <2>1 DEF Chunked, SortPhase
  <2>5. Live' = Live
    <3>1. CASE Done
      <4>1. pc' = "plan" /\ ~SortPhase'
        BY <2>1, <3>1 DEF SortPhase
      <4> QED BY <1>1, <1>3, <2>1, <4>1 DEF Live
    <3>2. CASE ~Done
      <4>1. pc' = "read" /\ SortPhase' /\ ~Direct
        BY <2>1, <3>2 DEF SortPhase, Direct
      <4>2. range[2] < nfiles
        BY <1>2, <2>1, <4>1 DEF Base, RangeRight
      <4> QED BY <1>1, <2>1, <4>2 DEF Live
    <3> QED BY <3>1, <3>2
  <2>6. \A f \in -1 .. eargc + MaxTemp : FileText(f)' = FileText(f)
    BY <1>1, <2>1, <2>5 DEF FileText
  <2> QED BY <1>1, <1>2, <2>3, <2>4, <2>6, FileTextsSame
<1>8. CASE QusortBegin \/ QusortLoop \/ QusortReturn
  <2>1. pc = "qusort" /\ pc' \in {"qusort", "store"} /\ UNCHANGED <<text, nfiles, disk, caller>>
    BY <1>2, <1>8 DEF QusortBegin, QusortLoop, QusortReturn
  <2>2. Using' = Using
    <3>1. CASE QusortLoop
      BY <1>3, <3>1, LoopStep, PermutedElements
    <3>2. CASE QusortBegin \/ QusortReturn
      BY <1>3, <3>2 DEF QusortBegin, QusortReturn
    <3> QED BY <1>8, <3>1, <3>2
  <2>3. SortPhase'
    BY <1>2, <2>1 DEF SortPhase
  <2>4. Chunked' = Chunked
    BY <1>1, <2>1, <2>2, <2>3 DEF Chunked
  <2>5. Live' = Live
    BY <1>1, <2>1, <2>3, LiveSame
  <2>6. \A f \in -1 .. eargc + MaxTemp : FileText(f)' = FileText(f)
    BY <1>1, <2>1, <2>5 DEF FileText
  <2> QED BY <1>1, <1>2, <2>4, <2>6, FileTextsSame
<1> QED BY <1>4, <1>5, <1>6, <1>7, <1>8

\* A merge begins: its files are live ones, the output is a new file or is emptied.
MergeBegins(a, b, f) ==
  /\ pc = "plan" /\ range[2] = a /\ a < b /\ b <= nfiles /\ range' = <<a, b>> /\ disk' = [disk EXCEPT ![f] = << >>]
  /\ pc' = "open" /\ opened' = 0 /\ ibuf' = << >> /\ caller' = "merge" /\ os' = f /\ ~fresh'
  /\ UNCHANGED <<opt, input, eargc, unread, lost>>
  /\ f \in Files(eargc) /\ f \notin Live
  /\ b < nfiles \/ f = nfiles => f = nfiles /\ nfiles' = nfiles + 1
  /\ f # nfiles => b = nfiles /\ nfiles' = nfiles /\ f = Output

LEMMA PlanBegins ==
  ASSUME Base, PlanRun \/ PlanOutput
  PROVE  \E b \in Nat, f \in Int : MergeBegins(range[2], b, f)
<1> USE DEF setup, reading, qstate, streams, flags
<1>1. /\ range[2] \in Nat /\ nfiles \in Nat /\ eargc \in Nat /\ Output \in {Stdout, 0} /\ Stdout = -1 /\ pc = "plan"
      /\ range[2] <= nfiles /\ eargc <= nfiles /\ eargc >= 1 /\ nfiles <= eargc + MaxTemp /\ MaxTemp \in Nat /\ pc # "exit"
  BY RangeFacts DEF PlanRun, PlanOutput
<1> DEFINE a == range[2]
<1>2. CASE PlanRun
  <2> DEFINE b == range'[2]
  <2>1. b \in Nat /\ b <= nfiles /\ a < b /\ a < nfiles
    BY <1>2, PlanRunFacts
  <2>2. range' = <<a, b>>
    BY <1>2 DEF PlanRun
  <2> HIDE DEF b
  <2>3. Live = a .. nfiles - 1
    BY <2>1 DEF Live
  <2>4. nfiles \in Files(eargc) /\ nfiles \notin Live /\ nfiles \in Int
    BY <1>1, <2>3 DEF Files
  <2>5. /\ disk' = [disk EXCEPT ![nfiles] = << >>] /\ nfiles' = nfiles + 1 /\ os' = nfiles /\ pc' = "open"
        /\ opened' = 0 /\ ibuf' = << >> /\ caller' = "merge" /\ ~fresh' /\ UNCHANGED <<opt, input, eargc, unread, lost>>
    BY <1>2 DEF PlanRun
  <2>6. MergeBegins(a, b, nfiles)
    BY <1>1, <2>1, <2>2, <2>4, <2>5 DEF MergeBegins
  <2> QED BY <2>1, <2>4, <2>6
<1>3. CASE PlanOutput
  <2>1. a < nfiles /\ range' = <<a, nfiles>>
    BY <1>1, <1>3 DEF PlanOutput
  <2>2. Live = a .. nfiles - 1
    BY <2>1 DEF Live
  <2>3. /\ disk' = [disk EXCEPT ![Output] = << >>] /\ nfiles' = nfiles /\ os' = Output /\ pc' = "open" /\ ~Staged
        /\ opened' = 0 /\ ibuf' = << >> /\ caller' = "merge" /\ ~fresh' /\ UNCHANGED <<opt, input, eargc, unread, lost>>
    BY <1>3 DEF PlanOutput
  <2>4. Output = 0 => a >= eargc
    <3>1. SortTypes /\ RangeRight /\ range[1] <= a /\ range[1] \in Nat
      BY <1>1, RangeFacts DEF Base
    <3>2. Output = 0 => ~opt.c /\ opt.o # Stdout
      BY <1>1, <3>1, OptFields DEF Output
    <3>3. opt.m /\ Output = 0 => a >= eargc
      BY <1>1, <2>3, <3>2 DEF Staged
    <3>4. ~opt.m /\ Output = 0 => range[1] >= eargc
      BY <3>1, <3>2 DEF RangeRight
    <3> QED BY <1>1, <3>1, <3>3, <3>4
  <2>5. Output \in Files(eargc) /\ Output \notin Live /\ Output \in Int /\ Output # nfiles
    BY <1>1, <2>2, <2>4 DEF Files
  <2>6. MergeBegins(a, nfiles, Output)
    BY <1>1, <2>1, <2>3, <2>5 DEF MergeBegins
  <2> QED BY <1>1, <2>5, <2>6
<1> QED BY <1>2, <1>3

LEMMA BeginFacts ==
  ASSUME Base, NEW a \in Nat, NEW b \in Nat, NEW f \in Int, MergeBegins(a, b, f)
  PROVE  /\ Merging' /\ ~Merging /\ ~SortPhase /\ ~SortPhase' /\ Prev' = b - a /\ range'[1] = a
         /\ Live = a .. nfiles - 1 /\ (\A g \in Live' : g = f \/ g \in Live) /\ f \in Live'
         /\ \A g \in a .. b - 1 : g \in Live /\ g \notin Live' /\ g # f
         /\ \A g \in Live : g \in a .. b - 1 \/ g \in Live'
         /\ disk'[f] = << >> /\ \A g \in Files(eargc) : g # f => disk'[g] = disk[g]
         /\ \A p \in 0 .. b - a - 1 : Pending(p)' = disk[a + p] /\ a + p \in a .. b - 1
<1>1. /\ range[2] \in Nat /\ nfiles \in Nat /\ eargc \in Nat /\ Output \in {Stdout, 0} /\ Stdout = -1 /\ pc = "plan"
      /\ range[2] <= nfiles /\ eargc <= nfiles /\ eargc >= 1 /\ nfiles <= eargc + MaxTemp /\ MaxTemp \in Nat /\ pc # "exit"
  BY RangeFacts DEF MergeBegins
<1>2. Merging' /\ ~Merging /\ ~SortPhase /\ ~SortPhase'
  BY DEF MergeBegins, Merging, SortPhase
<1>3. range' = <<a, b>> /\ range[2] = a /\ a < b /\ b <= nfiles /\ f \in Files(eargc) /\ f \notin Live
      /\ disk' = [disk EXCEPT ![f] = << >>] /\ Output' = Output
  BY DEF MergeBegins, Output
<1>4. range'[1] = a /\ range'[2] = b
  BY <1>3
<1>5. Prev' = b - a
  BY <1>4 DEF Prev
<1>6. Live = a .. nfiles - 1
  BY <1>1, <1>3 DEF Live
<1>7. Live' = IF f = nfiles THEN b .. nfiles ELSE {f}
  <2>1. CASE f = nfiles
    <3>1. nfiles' = nfiles + 1
      BY <2>1 DEF MergeBegins
    <3>2. b < nfiles' /\ nfiles' - 1 = nfiles
      BY <1>1, <1>3, <3>1
    <3> QED BY <1>4, <2>1, <3>2 DEF Live
  <2>2. CASE f # nfiles
    <3>1. b = nfiles' /\ f = Output
      BY <2>2 DEF MergeBegins
    <3> QED BY <1>1, <1>2, <1>3, <1>4, <2>2, <3>1 DEF Live
  <2> QED BY <2>1, <2>2
<1>8. /\ (\A g \in Live' : g = f \/ g \in Live) /\ f \in Live'
      /\ \A g \in a .. b - 1 : g \in Live /\ g \notin Live' /\ g # f
      /\ \A g \in Live : g \in a .. b - 1 \/ g \in Live'
  <2>1. CASE f = nfiles
    BY <1>1, <1>3, <1>6, <1>7, <2>1
  <2>2. CASE f # nfiles
    <3>1. b = nfiles
      BY <2>2 DEF MergeBegins
    <3> QED BY <1>1, <1>3, <1>6, <1>7, <2>2, <3>1
  <2> QED BY <2>1, <2>2
<1>9. disk'[f] = << >> /\ \A g \in Files(eargc) : g # f => disk'[g] = disk[g]
  BY <1>3 DEF Base, SortTypes
<1>10. ASSUME NEW p \in 0 .. b - a - 1 PROVE Pending(p)' = disk[a + p] /\ a + p \in a .. b - 1
  <2>1. a + p \in a .. b - 1 /\ p >= 0
    BY <1>3, <1>10
  <2>2. a + p \in Files(eargc)
    BY <1>1, <1>3, <2>1 DEF Files
  <2>3. a + p # f
    BY <1>8, <2>1
  <2>4. Pending(p)' = disk'[range'[1] + p]
    <3>1. pc' = "open" /\ opened' = 0
      BY DEF MergeBegins
    <3> QED BY <2>1, <3>1 DEF Pending
  <2> QED BY <1>4, <1>9, <2>1, <2>2, <2>3, <2>4
<1> QED BY <1>2, <1>4, <1>5, <1>6, <1>8, <1>9, <1>10

LEMMA PlanTexts ==
  ASSUME Base, PlanRun \/ PlanOutput
  PROVE  /\ FileTexts' = FileTexts /\ Chunked' = Chunked
         /\ UNCHANGED <<opt, input, unread, lost>>
<1> DEFINE a == range[2]
<1>1. /\ range[2] \in Nat /\ nfiles \in Nat /\ eargc \in Nat /\ MaxTemp \in Nat /\ pc = "plan"
  BY RangeFacts DEF PlanRun, PlanOutput
<1>2. PICK b \in Nat, f \in Int : MergeBegins(a, b, f)
  BY PlanBegins
<1> HIDE DEF a
<1>3. PICK c \in Nat : c = a
  BY <1>1 DEF a
<1>4. MergeBegins(c, b, f)
  BY <1>2, <1>3
<1>5. /\ Merging' /\ ~Merging /\ ~SortPhase /\ ~SortPhase' /\ Prev' = b - c /\ range'[1] = c
      /\ (\A g \in Live' : g = f \/ g \in Live) /\ f \in Live' /\ f \notin Live
      /\ \A g \in c .. b - 1 : g \in Live /\ g \notin Live' /\ g # f
      /\ \A g \in Live : g \in c .. b - 1 \/ g \in Live'
      /\ disk'[f] = << >> /\ \A g \in Files(eargc) : g # f => disk'[g] = disk[g]
      /\ \A p \in 0 .. b - c - 1 : Pending(p)' = disk[c + p]
  <2>1. f \notin Live
    BY <1>4 DEF MergeBegins
  <2> QED BY <1>4, <2>1, BeginFacts
<1>6. ASSUME NEW g \in -1 .. eargc + MaxTemp PROVE FileText(g)' = FileText(g)
  <2>1. FileText(g) = IF g \in Live THEN disk[g] ELSE << >>
    BY <1>5 DEF FileText
  <2>2. Merged' = c .. b - 1
    <3>1. range' = <<c, b>>
      BY <1>4 DEF MergeBegins
    <3>2. range'[1] = c /\ range'[2] = b
      BY <3>1
    <3> QED BY <3>2 DEF Merged
  <2>3. g \in Files(eargc)
    BY <1>1 DEF Files, Stdout
  <2>4. CASE g \in c .. b - 1
    <3>1. PICK p \in 0 .. b - c - 1 : p = g - c /\ c + p = g
      BY <1>1, <2>4
    <3>2. \A r : r = g - c => FileText(g)' = Pending(r)'
      BY <1>5, <2>2, <2>4 DEF FileText
    <3>3. FileText(g)' = Pending(p)'
      BY <3>1, <3>2
    <3>4. Pending(p)' = disk[g] /\ g \in Live
      BY <1>5, <2>4, <3>1
    <3> QED BY <2>1, <3>3, <3>4
  <2>5. CASE g \notin c .. b - 1
    <3>1. FileText(g)' = IF g \in Live' THEN disk'[g] ELSE << >>
      BY <2>2, <2>5 DEF FileText
    <3> QED BY <1>5, <2>1, <2>3, <2>5, <3>1
  <2> QED BY <2>4, <2>5
<1>7. FileTexts' = FileTexts
  BY <1>1, <1>4, <1>6, FileTextsSame DEF MergeBegins
<1>8. Chunked = << >> /\ Chunked' = << >>
  BY <1>1, <1>4, <1>5 DEF Chunked, MergeBegins
<1> QED BY <1>4, <1>7, <1>8 DEF MergeBegins

\* The files merged are not live.
LEMMA LiveApart ==
  ASSUME Base, Merging
  PROVE  \A f \in Live : f \notin Merged
<1>1. pc # "exit" /\ ~SortPhase
  BY Phases DEF Merging
<1>2. /\ range[1] \in Nat /\ range[2] \in Nat /\ nfiles \in Nat /\ eargc \in Nat /\ range[2] <= nfiles
      /\ Output \in {Stdout, 0} /\ Stdout = -1 /\ eargc >= 1
  BY <1>1, RangeFacts
<1> SUFFICES ASSUME NEW f \in Live PROVE f \notin Merged
  OBVIOUS
<1>3. f = Output \/ f >= range[2]
  BY <1>1, LiveFiles
<1>4. CASE f >= range[2]
  BY <1>2, <1>3, <1>4 DEF Merged
<1>5. CASE ~(f >= range[2])
  <2>1. range[2] = nfiles /\ f = Output
    BY <1>1, <1>2, <1>3, <1>5 DEF Live
  <2>2. Output >= 0 => range[1] >= eargc
    BY <1>1, <2>1 DEF Base, RangeRight
  <2> QED BY <1>2, <2>1, <2>2 DEF Merged
<1> QED BY <1>4, <1>5

LEMMA CloseTexts ==
  ASSUME Base, MergeClose
  PROVE  /\ FileTexts' = FileTexts /\ Chunked' = Chunked /\ Live' = Live /\ Output' = Output
         /\ \A f \in Live : disk'[f] = disk[f]
         /\ UNCHANGED <<opt, input, unread, lost, eargc, nfiles, range>>
<1> USE DEF setup, reading, qstate, streams, flags
<1>1. /\ pc = "close" /\ pc' = "plan" /\ Merging /\ ~Merging' /\ ~SortPhase /\ ~SortPhase' /\ pc # "exit"
      /\ UNCHANGED <<opt, input, unread, lost, eargc, nfiles, range>>
      /\ disk' = [f \in DOMAIN disk |-> IF f \in range[1] .. range[2] - 1 /\ f >= eargc THEN Absent ELSE disk[f]]
  BY DEF MergeClose, Unlinked, Merging, SortPhase
<1>2. Live' = Live /\ Output' = Output
  BY <1>1 DEF Live, Output
<1>3. /\ range[1] \in Nat /\ range[2] \in Nat /\ nfiles \in Nat /\ eargc \in Nat /\ MaxTemp \in Nat /\ range[2] <= nfiles
      /\ Output \in {Stdout, 0} /\ Stdout = -1 /\ eargc >= 1
  BY <1>1, RangeFacts
<1>4. \A f \in Live : disk'[f] = disk[f] /\ f \notin Merged
  <2> SUFFICES ASSUME NEW f \in Live PROVE disk'[f] = disk[f] /\ f \notin Merged
    OBVIOUS
  <2>1. f \in Files(eargc) /\ (f = Output \/ f >= range[2]) /\ f \in Int /\ DOMAIN disk = Files(eargc)
    BY <1>1, LiveFiles DEF Base, SortTypes
  <2>2. ~(f \in range[1] .. range[2] - 1 /\ f >= eargc)
    BY <1>3, <2>1
  <2>3. f \notin Merged
    BY <1>1, LiveApart
  <2> QED BY <1>1, <2>1, <2>2, <2>3
<1>5. ibuf = << >>
  BY <1>1 DEF Base, StreamsRight
<1>6. \A p : Pending(p) = << >>
  BY <1>1, <1>5 DEF Pending, Using
<1>7. \A f : FileText(f) = (IF f \in Merged THEN << >> ELSE IF f \in Live THEN disk[f] ELSE << >>)
  BY <1>1, <1>6 DEF FileText
<1>8. \A f : FileText(f)' = IF f \in Live THEN disk'[f] ELSE << >>
  BY <1>1, <1>2 DEF FileText
<1>9. \A f \in -1 .. eargc + MaxTemp : FileText(f)' = FileText(f)
  BY <1>4, <1>7, <1>8
<1>10. FileTexts' = FileTexts
  BY <1>1, <1>3, <1>9, FileTextsSame
<1>11. Chunked = << >> /\ Chunked' = << >>
  BY <1>1 DEF Chunked
<1> QED BY <1>1, <1>2, <1>4, <1>10, <1>11


-----------------------------------------------------------------------------
(***************************************************************************)
(* The options and the line last written.                                  *)
(***************************************************************************)

\* With -u the line is not written when the next stream begins with its equal.
Doubled == /\ opt.u /\ ~muflg /\ Len(ibuf) > 1
           /\ Compare(mem[Last(ibuf)], mem[ibuf[Len(ibuf) - 1]]) = 0

LEMMA LineWritten ==
  ASSUME Base, MergeLine, ~opt.c
  PROVE  /\ pc = "line" /\ pc' = "next" /\ Merging /\ Merging' /\ ~SortPhase /\ ~SortPhase' /\ InLine
         /\ UNCHANGED <<opt, input, eargc, nfiles, range, os, unread, text, ibuf, rest, muflg, lost>>
         /\ Live' = Live /\ Prev' = Prev /\ Using' = Using /\ Output' = Output
         /\ os \in Live /\ os \in Files(eargc) /\ disk[os] \in Seq(Lines) /\ os \notin Merged
         /\ mem[Last(ibuf)] \in Lines
         /\ Doubled => disk' = disk
         /\ ~Doubled => disk'[os] = Append(disk[os], mem[Last(ibuf)])
         /\ \A f \in Files(eargc) : f # os => disk'[f] = disk[f]
         /\ \A p \in 0 .. Prev - 1 : mem'[p] = mem[p]
         /\ muflg => mem'[Prev] = mem[Last(ibuf)]
         /\ fresh' = (fresh \/ muflg)
<1> USE DEF setup, reading, qstate, streams, flags
<1>1. /\ pc = "line" /\ pc' = "next" /\ Merging /\ Merging' /\ ~SortPhase /\ ~SortPhase' /\ InLine /\ pc # "exit"
      /\ UNCHANGED <<opt, input, eargc, nfiles, range, os, unread, text, ibuf, rest, muflg, lost>>
      /\ fresh' = (fresh \/ muflg)
  BY DEF MergeLine, Merging, SortPhase, InLine
<1>2. Live' = Live /\ Prev' = Prev /\ Using' = Using /\ Output' = Output
  BY <1>1 DEF Live, Prev, Using, Output
<1>3. /\ mem[Last(ibuf)] \in Lines /\ Prev \in 0 .. N /\ mem \in [0 .. N -> Cells]
  BY <1>1, LineFacts
<1>4. os \in Live /\ os \notin Merged
  BY <1>1, OutputLive, LiveApart
<1>5. os \in Files(eargc) /\ disk[os] \in Seq(Lines) /\ disk \in [Files(eargc) -> Seq(Cells)]
  BY <1>1, <1>4, LiveFiles DEF Base, FilesRight, SortTypes
<1>6. disk' = (IF Doubled THEN disk ELSE [disk EXCEPT ![os] = Append(@, mem[Last(ibuf)])])
  BY DEF MergeLine, Doubled
<1>7. mem' = IF muflg THEN [mem EXCEPT ![Prev] = mem[Last(ibuf)]] ELSE mem
  BY DEF MergeLine
<1>8. \A p \in 0 .. Prev - 1 : p # Prev /\ p \in 0 .. N
  BY <1>3, Numbers
<1>9. (\A p \in 0 .. Prev - 1 : mem'[p] = mem[p]) /\ (muflg => mem'[Prev] = mem[Last(ibuf)])
  BY <1>3, <1>7, <1>8
<1>10. /\ Doubled => disk' = disk
       /\ ~Doubled => disk'[os] = Append(disk[os], mem[Last(ibuf)])
       /\ \A f \in Files(eargc) : f # os => disk'[f] = disk[f]
  BY <1>5, <1>6
<1> QED BY <1>1, <1>2, <1>3, <1>4, <1>5, <1>9, <1>10

Early == Merging /\ pc \notin {"line", "next", "check", "close"}
LEMMA FlagsQuiet ==
  ASSUME FlagsRight, Early, Merging', UNCHANGED <<disk, os, fresh>>, pc' \notin {"line", "next", "check"}
  PROVE  FlagsRight'
BY DEF FlagsRight, Early

LEMMA FlagsKept ==
  ASSUME Base, Base', ~opt.c, FlagsRight, SortNext, pc' # "exit", fault' # "silent"
  PROVE  FlagsRight'
<1> USE DEF setup, reading, qstate, streams, flags
<1>0. /\ muflg \in BOOLEAN /\ fresh \in BOOLEAN /\ ibuf \in Seq(Nat) /\ opt.u \in BOOLEAN /\ opt.m \in BOOLEAN
      /\ mem \in [0 .. N -> Cells]
  BY OptFields DEF Base, SortTypes
<1>1. CASE ~Merging'
  BY <1>1 DEF FlagsRight, Merging
<1>2. CASE PlanRun \/ PlanOutput
  <2>1. range[2] \in Nat
    BY <1>2, RangeFacts DEF PlanRun, PlanOutput
  <2>2. PICK b \in Nat, f \in Int : MergeBegins(range[2], b, f)
    BY <1>2, PlanBegins
  <2>3. disk'[f] = << >>
    BY <2>1, <2>2, BeginFacts
  <2> QED BY <2>2, <2>3 DEF FlagsRight, MergeBegins
<1>3. CASE QusortParted
  <2>1. CASE caller = "merge"
    BY <1>3, <2>1, FlagsQuiet DEF QusortParted, Early, Merging
  <2>2. CASE caller # "merge"
    BY <1>1, <1>3, <2>2 DEF QusortParted, Merging
  <2> QED BY <2>1, <2>2
<1>4. CASE OpenFile \/ OpenedAll \/ DropVoid \/ SortAgain \/ (Merging /\ (QusortBegin \/ QusortLoop \/ QusortReturn))
  <2>1. Early /\ pc' \notin {"line", "next", "check"}
    BY <1>4, Phases DEF OpenFile, OpenedAll, DropVoid, SortAgain, QusortBegin, QusortLoop, QusortReturn, Sort, Early, Merging
  <2>2. Merging' /\ UNCHANGED <<disk, os, fresh>>
    BY <1>4, StreamStepQuiet DEF StreamStep
  <2> QED BY <2>1, <2>2, FlagsQuiet
<1>5. CASE NoneDropped
  <2>1. /\ Early /\ pc' \in {"close", "line"} /\ UNCHANGED <<disk, os, fresh, opt>> /\ muflg' = ((opt.m /\ opt.u) \/ opt.c)
    BY <1>5 DEF NoneDropped, Early, Merging
  <2> QED BY <1>0, <2>1 DEF FlagsRight, Early
<1>6. CASE MergeLine
  <2>1. /\ pc = "line" /\ pc' = "next" /\ UNCHANGED <<opt, os, muflg, ibuf>> /\ Prev' = Prev /\ fresh' = (fresh \/ muflg)
        /\ mem[Last(ibuf)] \in Lines /\ disk[os] \in Seq(Lines)
        /\ ~Doubled => disk'[os] = Append(disk[os], mem[Last(ibuf)])
        /\ muflg => mem'[Prev] = mem[Last(ibuf)]
    BY <1>6, LineWritten
  <2>2. muflg => ~Doubled
    BY DEF Doubled
  <2> DEFINE s == disk[os]
             x == mem[Last(ibuf)]
  <2>3. Append(s, x) # << >> /\ Last(Append(s, x)) = x
    <3>1. s \in Seq(Lines) /\ x \in Lines
      BY <2>1
    <3> HIDE DEF s, x
    <3>2. Append(s, x) \in Seq(Lines) /\ Len(Append(s, x)) = Len(s) + 1 /\ Append(s, x)[Len(s) + 1] = x /\ Len(s) \in Nat
      BY <3>1, AppendProperties, LenProperties
    <3> QED BY <3>1, <3>2 DEF Last
  <2>4. fresh => muflg
    BY <2>1 DEF FlagsRight
  <2>5. fresh' = muflg
    BY <1>0, <2>1, <2>4
  <2>6. fresh' => disk'[os'] # << >> /\ mem'[Prev'] = Last(disk'[os'])
    <3> SUFFICES ASSUME muflg PROVE disk'[os'] # << >> /\ mem'[Prev'] = Last(disk'[os'])
      BY <2>5
    <3>1. disk'[os] = Append(s, x) /\ mem'[Prev] = x
      BY <2>1, <2>2
    <3>2. disk'[os'] = disk'[os] /\ mem'[Prev'] = mem'[Prev]
      BY <2>1
    <3> QED BY <2>3, <3>1, <3>2
  <2> HIDE DEF s, x
  <2> QED BY <1>0, <2>1, <2>5, <2>6 DEF FlagsRight
<1>7. CASE StreamEnds
  <2> DEFINE b == Front(ibuf)
  <2>1. /\ pc = "next" /\ pc' = (IF b = << >> THEN "close" ELSE "check") /\ UNCHANGED <<opt, disk, os, fresh, mem>>
        /\ muflg' = (IF Len(b) = 1 THEN opt.u ELSE muflg)
    BY <1>7 DEF StreamEnds
  <2>2. ibuf # << >>
    BY <2>1, LineFacts DEF InLine
  <2>3. Len(ibuf) \in Nat \ {0} /\ Len(b) = Len(ibuf) - 1 /\ b \in Seq(Nat)
    BY <1>0, <2>2, FrontLast
  <2>4. Len(ibuf') = Len(b)
    BY <1>7, FrontSorted DEF SamePointers
  <2>5. Prev' = Prev
    BY <1>7 DEF StreamEnds, Prev
  <2>6. Len(b) = 0 => b = << >>
    BY <2>3, EmptySeq
  <2> HIDE DEF b
  <2>7. CASE pc' = "close"
    BY <2>7 DEF FlagsRight
  <2>8. CASE pc' = "check"
    <3>1. b # << >>
      BY <2>1, <2>8
    <3>2. Len(ibuf) # 1
      BY <2>3, <2>6, <3>1
    <3>3. muflg /\ ~opt.m => FALSE
      BY <2>1, <3>2 DEF FlagsRight
    <3>4. muflg' => muflg \/ (Len(b) = 1 /\ opt.u)
      BY <2>1
    <3>5. muflg => muflg'
      <4>1. muflg => opt.u
        BY <2>1 DEF FlagsRight
      <4> QED BY <2>1, <4>1
    <3>6. muflg' => opt'.u
      BY <2>1, <3>4 DEF FlagsRight
    <3>7. muflg' /\ ~opt'.m => Len(ibuf') = 1
      BY <2>1, <2>4, <3>3, <3>4
    <3>8. disk' = disk /\ os' = os /\ fresh' = fresh /\ mem' = mem /\ opt' = opt
      BY <2>1
    <3>9. /\ fresh => muflg /\ disk[os] # << >> /\ mem[Prev] = Last(disk[os])
          /\ opt.m /\ opt.u => muflg /\ fresh
      BY <2>1 DEF FlagsRight
    <3> QED BY <2>5, <2>8, <3>5, <3>6, <3>7, <3>8, <3>9 DEF FlagsRight
  <2> QED BY <2>1, <2>7, <2>8
<1>8. CASE StreamReads
  <2> DEFINE q == Last(ibuf)
  <2>1. /\ pc = "next" /\ pc' = "check" /\ UNCHANGED <<opt, disk, os, fresh, muflg>>
        /\ mem' = [mem EXCEPT ![q] = Head(rest[q])]
    BY <1>8 DEF StreamReads, Rline
  <2>2. Len(ibuf') = Len(ibuf)
    BY <1>8, NextSorted DEF SamePointers
  <2>3. Prev' = Prev
    BY <1>8 DEF StreamReads, Prev
  <2>4. q \in 0 .. Prev - 1 /\ Prev \in 0 .. N
    BY <2>1, LineFacts DEF InLine
  <2> HIDE DEF q
  <2>5. Prev # q
    BY <2>4, Numbers
  <2>6. mem'[Prev] = mem[Prev]
    BY <1>0, <2>1, <2>4, <2>5
  <2>7. disk' = disk /\ os' = os /\ fresh' = fresh /\ muflg' = muflg /\ opt' = opt
    BY <2>1
  <2> QED BY <2>1, <2>2, <2>3, <2>6, <2>7 DEF FlagsRight
<1>9. CASE NextLine
  <2>1. /\ pc = "check" /\ pc' \in {"line", "next"} /\ UNCHANGED <<opt, disk, os, fresh, muflg, mem, ibuf>>
    BY <1>9 DEF NextLine
  <2>2. Prev' = Prev
    BY <1>9 DEF NextLine, Prev
  <2>3. disk' = disk /\ os' = os /\ fresh' = fresh /\ muflg' = muflg /\ opt' = opt /\ ibuf' = ibuf /\ mem' = mem
    BY <2>1
  <2> QED BY <2>1, <2>2, <2>3 DEF FlagsRight
<1>10. CASE ReadLine \/ ReadOn \/ ReadAll \/ StoreChunk \/ PutLine \/ PutAll \/ MergeClose
  <2>1. ~Merging'
    BY <1>10, Phases DEF ReadLine, ReadOn, ReadAll, StoreChunk, PutLine, PutAll, MergeClose, Sort, Merging, SortPhase
  <2> QED BY <1>1, <2>1
<1>11. CASE ~Merging /\ (QusortBegin \/ QusortLoop \/ QusortReturn)
  <2>1. ~Merging'
    BY <1>11, Phases DEF QusortBegin, QusortLoop, QusortReturn, Merging, SortPhase
  <2> QED BY <1>1, <2>1
<1> QED BY <1>2, <1>3, <1>4, <1>5, <1>6, <1>7, <1>8, <1>9, <1>10, <1>11, Stopped, FaultKept DEF SortNext


-----------------------------------------------------------------------------
(***************************************************************************)
(* All lines are kept.                                                     *)
(***************************************************************************)
\* What is left of the streams, and of the files, are lines.
LEMMA PendingLines ==
  ASSUME Base, Merging, NEW p \in 0 .. Prev - 1
  PROVE  Pending(p) \in Seq(Lines)
<1>1. /\ Prev \in 0 .. N /\ StreamsRight /\ mem \in [0 .. N -> Cells] /\ rest \in [0 .. N - 1 -> Seq(Lines)]
      /\ opened \in Nat
  BY StreamFacts DEF Base, SortTypes, Merging
<1>2. p \in 0 .. N /\ p \in 0 .. N - 1
  BY <1>1, Numbers
<1>3. rest[p] \in Seq(Lines) /\ mem[p] \in Cells
  BY <1>1, <1>2
<1>4. CASE pc = "open" /\ p >= opened
  <2>1. p \in opened .. Prev - 1
    BY <1>1, <1>4
  <2> QED BY <1>1, <1>4, <2>1 DEF StreamsRight, Pending
<1>5. mem[p] # NoLine => <<mem[p]>> \o rest[p] \in Seq(Lines)
  <2> SUFFICES ASSUME mem[p] # NoLine PROVE <<mem[p]>> \o rest[p] \in Seq(Lines)
    OBVIOUS
  <2>1. mem[p] \in Lines
    BY <1>3, Numbers
  <2> QED BY <1>3, <2>1, FirstAdded
<1> QED BY <1>3, <1>4, <1>5, Numbers DEF Pending

LEMMA FileLines ==
  ASSUME Base, pc # "exit", NEW f \in Int
  PROVE  FileText(f) \in Seq(Lines)
<1>1. CASE Merging /\ f \in Merged
  <2>1. range[1] \in Nat /\ range[2] \in Nat
    BY RangeFacts
  <2>2. PICK p \in 0 .. Prev - 1 : p = f - range[1]
    BY <1>1, <2>1 DEF Merged, Prev
  <2>3. FileText(f) = Pending(p)
    BY <1>1, <2>2 DEF FileText
  <2> QED BY <1>1, <2>3, PendingLines
<1>2. CASE ~(Merging /\ f \in Merged)
  BY <1>2, Numbers DEF FileText, Base, FilesRight
<1> QED BY <1>1, <1>2

LEMMA TextsFinite ==
  ASSUME Base, pc # "exit"
  PROVE  /\ Bounded(unread) /\ Bounded(input) /\ Bounded(FileTexts) /\ IsFiniteSet(DOMAIN Chunked)
         /\ DOMAIN FileTexts = 0 .. eargc + MaxTemp + 1
         /\ \A g \in 0 .. eargc + MaxTemp + 1 : FileTexts[g] = FileText(g - 1) /\ FileTexts[g] \in Seq(Lines)
<1>1. /\ unread \in [1 .. eargc -> Seq(Lines)] /\ input \in Seq(Seq(Lines)) /\ text \in Seq(Cells) /\ ibuf \in Seq(Nat)
      /\ eargc \in Nat /\ MaxTemp \in Nat
  BY RangeFacts DEF Base, SortTypes
<1>2. ASSUME NEW D, NEW s \in Seq(D) PROVE IsFiniteSet(DOMAIN s)
  <2>1. DOMAIN s = 1 .. Len(s) /\ Len(s) \in Nat
    BY LenProperties
  <2> QED BY <2>1, FS_Interval
<1>3. Bounded(unread)
  <2>1. IsFiniteSet(1 .. eargc)
    BY <1>1, FS_Interval
  <2> QED BY <1>1, <1>2, <2>1 DEF Bounded
<1>4. Bounded(input)
  <2>1. \A f \in DOMAIN input : input[f] \in Seq(Lines)
    BY <1>1, ElementOfSeq, LenProperties
  <2> QED BY <1>1, <1>2, <2>1 DEF Bounded
<1>5. /\ DOMAIN FileTexts = 0 .. eargc + MaxTemp + 1
      /\ \A g \in 0 .. eargc + MaxTemp + 1 : FileTexts[g] = FileText(g - 1) /\ FileTexts[g] \in Seq(Lines)
  <2>1. ASSUME NEW g \in 0 .. eargc + MaxTemp + 1 PROVE FileText(g - 1) \in Seq(Lines)
    <3>1. PICK f \in Int : f = g - 1
      BY <1>1
    <3>2. FileText(f) \in Seq(Lines)
      BY FileLines
    <3> QED BY <3>1, <3>2
  <2> QED BY <2>1 DEF FileTexts
<1>6. Bounded(FileTexts)
  <2>1. IsFiniteSet(0 .. eargc + MaxTemp + 1)
    BY <1>1, FS_Interval
  <2>2. \A g \in 0 .. eargc + MaxTemp + 1 : FileTexts[g] \in Seq(Lines)
    BY <1>5
  <2> QED BY <1>2, <1>5, <2>1, <2>2 DEF Bounded
<1>7. IsFiniteSet(DOMAIN Chunked)
  <2>1. CASE pc = "read"
    BY <1>1, <1>2, <2>1 DEF Chunked
  <2>2. CASE pc # "read" /\ SortPhase
    <3>1. Using \subseteq 1 .. Len(text)
      BY <2>2, Phases DEF Base, StreamsRight, SortPhase
    <3>2. IsFiniteSet(1 .. Len(text))
      BY <1>1, LenProperties, FS_Interval
    <3>3. IsFiniteSet(Using)
      BY <3>1, <3>2, FS_Subset
    <3> QED BY <2>2, <3>3 DEF Chunked
  <2>3. CASE pc # "read" /\ ~SortPhase
    <3>1. Chunked = << >> /\ << >> \in Seq(Lines)
      BY <2>3, Numbers DEF Chunked
    <3> QED BY <1>2, <3>1
  <2> QED BY <2>1, <2>2, <2>3
<1> QED BY <1>3, <1>4, <1>5, <1>6, <1>7

\* A line is there.
Has(x, s) == \E i \in DOMAIN s : s[i] = x
HasAny(x, T) == \E f \in DOMAIN T : Has(x, T[f])

LEMMA TotalPositive ==
  ASSUME NEW x, NEW un, NEW ch, NEW ft, Bounded(un), Bounded(ft), IsFiniteSet(DOMAIN ch)
  PROVE  Total(x, un, ch, ft) \in Nat /\ (Total(x, un, ch, ft) > 0 <=> HasAny(x, un) \/ Has(x, ch) \/ HasAny(x, ft))
<1> DEFINE a == Times(x, un)
           b == Count(x, ch)
           c == Times(x, ft)
<1>1. a \in Nat /\ c \in Nat
  BY PlacesFinite
<1>2. b \in Nat /\ (b > 0 <=> Has(x, ch))
  BY CountPositive DEF Has
<1>3. (a > 0 <=> HasAny(x, un)) /\ (c > 0 <=> HasAny(x, ft))
  BY TimesPositive DEF Has, HasAny
<1>4. Total(x, un, ch, ft) = a + b + c
  BY DEF Total
<1> HIDE DEF a, b, c
<1> QED BY <1>1, <1>2, <1>3, <1>4

\* The texts stay.
LEMMA LinesSame ==
  ASSUME LinesRight, UNCHANGED <<opt, input, unread, lost>>, Chunked' = Chunked, FileTexts' = FileTexts
  PROVE  LinesRight'
BY DEF LinesRight

\* Lines are moved.
LEMMA LinesMoved ==
  ASSUME LinesRight, UNCHANGED <<opt, input, lost>>,
         \A x \in Lines : Total(x, unread', Chunked', FileTexts') = Total(x, unread, Chunked, FileTexts)
  PROVE  LinesRight'
<1> DEFINE un == unread'
           ch == Chunked'
           ft == FileTexts'
<1>1. \A x \in Lines : Total(x, un, ch, ft) = Total(x, unread, Chunked, FileTexts)
  OBVIOUS
<1>2. LinesRight' <=> LinesKept(opt.u, lost, un, ch, ft, input)
  BY DEF LinesRight
<1> HIDE DEF un, ch, ft
<1> QED BY <1>1, <1>2 DEF LinesRight, LinesKept

\* With -u lines are dropped, but for one with the key.
LEMMA LinesDropped ==
  ASSUME LinesRight, opt.u, UNCHANGED <<opt, input>>, lost => lost',
         \A x \in Lines : Total(x, unread', Chunked', FileTexts') > 0 => Total(x, unread, Chunked, FileTexts) > 0,
         lost' \/ \A x \in Lines : Total(x, unread, Chunked, FileTexts) > 0 =>
                    \E y \in Lines : Key[y] = Key[x] /\ Total(y, unread', Chunked', FileTexts') > 0
  PROVE  LinesRight'
<1> DEFINE un == unread'
           ch == Chunked'
           ft == FileTexts'
           lo == lost'
<1>1. /\ \A x \in Lines : Total(x, un, ch, ft) > 0 => Total(x, unread, Chunked, FileTexts) > 0
      /\ lo \/ \A x \in Lines : Total(x, unread, Chunked, FileTexts) > 0 =>
                 \E y \in Lines : Key[y] = Key[x] /\ Total(y, un, ch, ft) > 0
      /\ lost => lo
  OBVIOUS
<1>2. LinesRight' <=> LinesKept(opt.u, lo, un, ch, ft, input)
  BY DEF LinesRight
<1> HIDE DEF un, ch, ft, lo
<1> QED BY <1>1, <1>2 DEF LinesRight, LinesKept

\* The texts are finite, also after a step.
Finite ==
  /\ Bounded(unread) /\ Bounded(input) /\ Bounded(FileTexts) /\ IsFiniteSet(DOMAIN Chunked)
  /\ DOMAIN FileTexts = 0 .. eargc + MaxTemp + 1
  /\ \A g \in 0 .. eargc + MaxTemp + 1 : FileTexts[g] = FileText(g - 1) /\ FileTexts[g] \in Seq(Lines)

LEMMA TextsFiniteNow == Base /\ pc # "exit" => Finite
BY TextsFinite DEF Finite

LEMMA TextsFiniteNext == (Base /\ pc # "exit" => Finite)'
BY TextsFiniteNow, PTL

\* A line is read into the chunk.
LEMMA LineComes ==
  ASSUME Base, Base', LinesRight, ReadLine
  PROVE  LinesRight'
<1> USE DEF setup, reading, qstate, streams, flags
<1> DEFINE s == unread[is]
           h == Head(s)
           t == Tail(s)
<1>1. /\ pc = "read" /\ pc' = "read" /\ s # << >> /\ unread' = [unread EXCEPT ![is] = t] /\ text' = Append(text, h)
      /\ UNCHANGED <<opt, input, lost, nfiles, range, eargc, disk, is>>
  BY DEF ReadLine
<1>2. unread \in [1 .. eargc -> Seq(Lines)] /\ is \in 1 .. eargc /\ eargc \in Nat /\ text \in Seq(Cells) /\ MaxTemp \in Nat
  BY Numbers DEF Base, SortTypes
<1>3. s \in Seq(Lines)
  BY <1>2
<1>4. h \in Lines /\ Added(Lines, h, t, s)
  BY <1>1, <1>3, HeadTailProperties, HeadFirst
<1>5. FileTexts' = FileTexts
  <2>1. ~Merging /\ ~Merging' /\ Live' = Live
    BY <1>1 DEF Merging, Live, SortPhase
  <2>2. \A f \in -1 .. eargc + MaxTemp : FileText(f)' = FileText(f)
    BY <1>1, <2>1 DEF FileText
  <2> QED BY <1>1, <1>2, <2>2, FileTextsSame
<1>6. Chunked = text /\ Chunked' = text'
  BY <1>1 DEF Chunked
<1>7. Bounded(unread) /\ Bounded(unread') /\ DOMAIN unread' = DOMAIN unread /\ unread'[is] = t
  <2>1. Bounded(unread')
    BY <1>1, TextsFiniteNext DEF Finite
  <2> QED BY <1>1, <1>2, <2>1, TextsFinite DEF Bounded
<1>8. \A g \in DOMAIN unread : g # is => unread'[g] = unread[g]
  BY <1>1, <1>2
<1> HIDE DEF s, h, t
<1>9. ASSUME NEW x \in Lines
      PROVE  Total(x, unread', Chunked', FileTexts') = Total(x, unread, Chunked, FileTexts)
  <2>1. Times(x, unread') + Count(x, s) = Times(x, unread) + Count(x, t)
    <3>1. Times(x, unread') + Count(x, unread[is]) = Times(x, unread) + Count(x, unread'[is])
      BY <1>2, <1>7, <1>8, TimesChanged
    <3> QED BY <1>7, <3>1 DEF s
  <2>2. Count(x, s) = Count(x, t) + (IF x = h THEN 1 ELSE 0) /\ Count(x, t) \in Nat
    BY <1>4, CountFirst
  <2>3. Count(x, Append(text, h)) = Count(x, text) + (IF x = h THEN 1 ELSE 0) /\ Count(x, text) \in Nat
    <3>1. h \in Cells
      BY <1>4, Numbers
    <3> QED BY <1>2, <3>1, CountAppend
  <2>4. Times(x, unread) \in Nat /\ Times(x, unread') \in Nat /\ Times(x, FileTexts) \in Nat
    BY <1>1, <1>7, TextsFinite, PlacesFinite
  <2> DEFINE a == Times(x, unread)
             a1 == Times(x, unread')
             b == Count(x, text)
             b1 == Count(x, text')
             c == Times(x, FileTexts)
             d == Count(x, s)
             e == Count(x, t)
             k == IF x = h THEN 1 ELSE 0
  <2>5. a \in Nat /\ a1 \in Nat /\ b \in Nat /\ c \in Nat /\ e \in Nat /\ k \in Nat
        /\ a1 + d = a + e /\ d = e + k /\ b1 = b + k
    BY <1>1, <2>1, <2>2, <2>3, <2>4
  <2>6. Total(x, unread, Chunked, FileTexts) = a + b + c /\ Total(x, unread', Chunked', FileTexts') = a1 + b1 + c
    BY <1>5, <1>6 DEF Total
  <2> HIDE DEF a, a1, b, b1, c, d, e, k
  <2> QED BY <2>5, <2>6
<1> QED BY <1>1, <1>9, LinesMoved

\* The file f gets the line y.
LEMMA FileAppended ==
  ASSUME Base, Base', pc # "exit", pc' # "exit", eargc' = eargc, NEW f \in -1 .. eargc + MaxTemp, NEW y \in Lines,
         FileText(f)' = Append(FileText(f), y),
         \A g \in -1 .. eargc + MaxTemp : g # f => FileText(g)' = FileText(g), NEW x
  PROVE  Times(x, FileTexts') = Times(x, FileTexts) + (IF x = y THEN 1 ELSE 0) /\ Times(x, FileTexts) \in Nat
<1> DEFINE M == eargc + MaxTemp
           T == FileTexts
           U == FileTexts'
           k == IF x = y THEN 1 ELSE 0
<1>1. M \in Nat
  BY RangeFacts
<1>2. /\ Bounded(T) /\ DOMAIN T = 0 .. M + 1 /\ \A g \in 0 .. M + 1 : T[g] = FileText(g - 1) /\ T[g] \in Seq(Lines)
  BY TextsFinite
<1>3. Bounded(U) /\ DOMAIN U = 0 .. M + 1 /\ \A g \in 0 .. M + 1 : U[g] = FileText(g - 1)'
  BY TextsFiniteNext DEF Finite
<1>4. f \in -1 .. M /\ \A g \in -1 .. M : g # f => FileText(g)' = FileText(g)
  OBVIOUS
<1> HIDE DEF M, T, U
<1>5. f + 1 \in 0 .. M + 1 /\ (f + 1) - 1 = f
  BY <1>1, <1>4
<1>6. U[f + 1] = Append(T[f + 1], y)
  <2>1. \A g : g - 1 = f => FileText(g - 1) = FileText(f) /\ FileText(g - 1)' = FileText(f)'
    OBVIOUS
  <2>2. T[f + 1] = FileText(f) /\ U[f + 1] = FileText(f)'
    BY <1>2, <1>3, <1>5, <2>1
  <2> QED BY <2>2
<1>7. ASSUME NEW g \in 0 .. M + 1, g # f + 1 PROVE U[g] = T[g]
  <2>1. PICK e \in -1 .. M : e = g - 1 /\ e # f
    BY <1>1, <1>4, <1>7
  <2>2. FileText(g - 1) = FileText(e) /\ FileText(g - 1)' = FileText(e)'
    BY <2>1
  <2> QED BY <1>2, <1>3, <1>4, <2>1, <2>2
<1>8. Times(x, U) + Count(x, T[f + 1]) = Times(x, T) + Count(x, U[f + 1])
  <2> DEFINE e == f + 1
  <2>1. e \in DOMAIN T /\ DOMAIN U = DOMAIN T /\ Bounded(T) /\ Bounded(U)
    BY <1>2, <1>3, <1>5
  <2>2. \A g \in DOMAIN T : g # e => U[g] = T[g]
    BY <1>2, <1>7
  <2> HIDE DEF e
  <2>3. Times(x, U) + Count(x, T[e]) = Times(x, T) + Count(x, U[e])
    BY <2>1, <2>2, TimesChanged
  <2> QED BY <2>3 DEF e
<1>9. Count(x, Append(T[f + 1], y)) = Count(x, T[f + 1]) + k /\ Count(x, T[f + 1]) \in Nat
  BY <1>2, <1>5, CountAppend
<1>10. Times(x, T) \in Nat /\ Times(x, U) \in Nat
  BY <1>2, <1>3, PlacesFinite
<1> DEFINE a == Times(x, T)
           b == Times(x, U)
           c == Count(x, T[f + 1])
<1>11. a \in Nat /\ b \in Nat /\ c \in Nat /\ k \in Nat /\ b + c = a + (c + k)
  BY <1>6, <1>8, <1>9, <1>10
<1>12. b = a + k
  <2> HIDE DEF a, b, c, k
  <2> QED BY <1>11
<1> QED BY <1>10, <1>12 DEF T, U

\* Texts that differ in two files.
Differ(T, U, e, g) ==
  /\ Bounded(T) /\ Bounded(U) /\ DOMAIN U = DOMAIN T /\ e \in DOMAIN T /\ g \in DOMAIN T /\ e # g
  /\ \A h \in DOMAIN T : h # e /\ h # g => U[h] = T[h]

LEMMA TwoChanged ==
  ASSUME NEW x, NEW T, NEW U, NEW e, NEW g, Differ(T, U, e, g)
  PROVE  /\ Times(x, U) + (Count(x, T[e]) + Count(x, T[g])) = Times(x, T) + (Count(x, U[e]) + Count(x, U[g]))
         /\ Times(x, T) \in Nat /\ Times(x, U) \in Nat
<1>0. /\ Bounded(T) /\ Bounded(U) /\ DOMAIN U = DOMAIN T /\ e \in DOMAIN T /\ g \in DOMAIN T /\ e # g
      /\ \A h \in DOMAIN T : h # e /\ h # g => U[h] = T[h]
  BY DEF Differ
<1> DEFINE V == [h \in DOMAIN T |-> IF h = e THEN U[h] ELSE T[h]]
<1>1. DOMAIN V = DOMAIN T /\ V[e] = U[e] /\ V[g] = T[g] /\ \A h \in DOMAIN T : h # e => V[h] = T[h]
  BY <1>0
<1>2. \A h \in DOMAIN T : h # g => U[h] = V[h]
  BY <1>0
<1>3. Bounded(V)
  BY <1>0 DEF Bounded
<1> HIDE DEF V
<1>4. Times(x, V) + Count(x, T[e]) = Times(x, T) + Count(x, V[e])
  BY <1>0, <1>1, <1>3, TimesChanged
<1>5. Times(x, U) + Count(x, V[g]) = Times(x, V) + Count(x, U[g])
  BY <1>0, <1>1, <1>2, <1>3, TimesChanged
<1>6. Times(x, T) \in Nat /\ Times(x, U) \in Nat /\ Times(x, V) \in Nat
  BY <1>0, <1>3, PlacesFinite
<1>7. Count(x, T[e]) \in Nat /\ Count(x, T[g]) \in Nat /\ Count(x, U[e]) \in Nat /\ Count(x, U[g]) \in Nat
  BY <1>0, RowCount
<1> DEFINE a == Times(x, T)
           b == Times(x, V)
           c == Times(x, U)
           te == Count(x, T[e])
           tg == Count(x, T[g])
           ue == Count(x, U[e])
           ug == Count(x, U[g])
<1>8. a \in Nat /\ b \in Nat /\ c \in Nat /\ te \in Nat /\ tg \in Nat /\ ue \in Nat /\ ug \in Nat
      /\ b + te = a + ue /\ c + tg = b + ug
  BY <1>1, <1>4, <1>5, <1>6, <1>7
<1>9. c + (te + tg) = a + (ue + ug)
  <2> HIDE DEF a, b, c, te, tg, ue, ug
  <2> QED BY <1>8
<1> QED BY <1>6, <1>9

\* A line goes from the head of one file to the end of another.
LEMMA LineGoes ==
  ASSUME NEW x, NEW y \in Lines, NEW T, NEW U, NEW e, NEW g, Differ(T, U, e, g),
         T[e] \in Seq(Lines), U[e] = Append(T[e], y), Added(Lines, y, U[g], T[g])
  PROVE  Times(x, U) = Times(x, T)
<1> DEFINE k == IF x = y THEN 1 ELSE 0
           a == Times(x, T)
           c == Times(x, U)
           te == Count(x, T[e])
           tg == Count(x, T[g])
           ue == Count(x, U[e])
           ug == Count(x, U[g])
<1>1. c + (te + tg) = a + (ue + ug) /\ a \in Nat /\ c \in Nat
  <2>1. /\ Times(x, U) + (Count(x, T[e]) + Count(x, T[g])) = Times(x, T) + (Count(x, U[e]) + Count(x, U[g]))
        /\ Times(x, T) \in Nat /\ Times(x, U) \in Nat
    BY TwoChanged
  <2> QED BY <2>1
<1>2. ue = te + k /\ te \in Nat
  BY CountAppend
<1>3. tg = ug + k /\ ug \in Nat
  BY CountFirst
<1>4. k \in Nat
  OBVIOUS
<1> HIDE DEF a, c, te, tg, ue, ug, k
<1>5. c = a
  BY <1>1, <1>2, <1>3, <1>4
<1> QED BY <1>5 DEF a, c

\* The chunk's smallest line is put on file.
LEMMA LineGoesOut ==
  ASSUME Base, Base', LinesRight, PutLine
  PROVE  LinesRight'
<1> USE DEF setup, reading, qstate, streams, flags
<1> DEFINE q == Last(ibuf)
           y == text[q]
<1>1. /\ pc = "put" /\ pc' = "put" /\ ibuf # << >> /\ ibuf' = Front(ibuf)
      /\ disk' = (IF y = NoLine THEN disk ELSE [disk EXCEPT ![os] = Append(@, y)])
      /\ UNCHANGED <<opt, input, unread, lost, text, nfiles, range, eargc, os>>
      /\ ~Merging /\ ~Merging' /\ SortPhase /\ SortPhase'
  BY DEF PutLine, Merging, SortPhase
<1>2. os \in Live /\ os \in Files(eargc) /\ q \in Using /\ q \in 1 .. Len(text) /\ y \in Cells
  BY <1>1, PutFacts
<1>3. Live' = Live
  BY <1>1 DEF Live, Output
<1>4. /\ ibuf \in Seq(Nat) /\ Distinct(ibuf) /\ disk \in [Files(eargc) -> Seq(Cells)] /\ eargc \in Nat /\ caller = "sort"
      /\ MaxTemp \in Nat
  BY <1>1, RangeFacts, Phases DEF Base, SortTypes, StreamsRight
<1>5. Using' = Using \ {q}
  BY <1>1, <1>4, FrontElements, UsingIs
<1>6. Chunked = [p \in Using |-> text[p]] /\ Chunked' = [p \in Using' |-> text[p]]
  BY <1>1 DEF Chunked
<1>7. Finite /\ Finite'
  BY <1>1, TextsFiniteNow, TextsFiniteNext
<1> HIDE DEF q, y
<1>8. ASSUME NEW x \in Lines
      PROVE  /\ Count(x, Chunked) = Count(x, Chunked') + (IF y = x THEN 1 ELSE 0)
             /\ Count(x, Chunked') \in Nat
  <2> DEFINE s == Chunked
             t == Chunked'
  <2>1. DOMAIN s = Using /\ DOMAIN t = DOMAIN s \ {q} /\ q \in DOMAIN s /\ s[q] = y
    BY <1>2, <1>5, <1>6 DEF y
  <2>2. \A p \in DOMAIN t : t[p] = s[p]
    BY <1>5, <1>6
  <2>3. IsFiniteSet(DOMAIN s)
    BY <1>7 DEF Finite
  <2> HIDE DEF s, t
  <2>4. Count(x, s) = Count(x, t) + (IF s[q] = x THEN 1 ELSE 0) /\ Count(x, t) \in Nat
    BY <2>1, <2>2, <2>3, CountLess
  <2> QED BY <2>1, <2>4 DEF s, t
<1>9. \A f \in -1 .. eargc + MaxTemp : f \in Files(eargc)
  BY <1>4 DEF Files, Stdout
<1>10. CASE y = NoLine
  <2>1. \A f \in -1 .. eargc + MaxTemp : FileText(f)' = FileText(f)
    BY <1>1, <1>3, <1>10 DEF FileText
  <2>2. FileTexts' = FileTexts
    BY <1>1, <1>4, <2>1, FileTextsSame
  <2>3. ASSUME NEW x \in Lines PROVE Count(x, Chunked') = Count(x, Chunked)
    BY <1>8, <1>10, Numbers
  <2>4. \A x \in Lines : Total(x, unread', Chunked', FileTexts') = Total(x, unread, Chunked, FileTexts)
    BY <1>1, <2>2, <2>3 DEF Total
  <2> QED BY <1>1, <2>4, LinesMoved
<1>11. CASE y # NoLine
  <2>1. y \in Lines
    BY <1>2, <1>11, Numbers
  <2>2. os \in -1 .. eargc + MaxTemp
    BY <1>2, <1>4 DEF Files, Stdout
  <2>3. \A f \in -1 .. eargc + MaxTemp : FileText(f) = (IF f \in Live THEN disk[f] ELSE << >>)
                                      /\ FileText(f)' = IF f \in Live THEN disk'[f] ELSE << >>
    BY <1>1, <1>3 DEF FileText
  <2>4. disk'[os] = Append(disk[os], y) /\ \A f \in -1 .. eargc + MaxTemp : f # os => disk'[f] = disk[f]
    BY <1>1, <1>2, <1>4, <1>9, <1>11
  <2>5. PICK f \in -1 .. eargc + MaxTemp : f = os
    BY <2>2
  <2>6. FileText(f)' = Append(FileText(f), y)
    BY <1>2, <2>3, <2>4, <2>5
  <2>7. \A g \in -1 .. eargc + MaxTemp : g # f => FileText(g)' = FileText(g)
    BY <2>3, <2>4, <2>5
  <2>8. ASSUME NEW x \in Lines
        PROVE  Total(x, unread', Chunked', FileTexts') = Total(x, unread, Chunked, FileTexts)
    <3> DEFINE k == IF x = y THEN 1 ELSE 0
               a == Times(x, unread)
               b == Count(x, Chunked)
               b1 == Count(x, Chunked')
               c == Times(x, FileTexts)
               c1 == Times(x, FileTexts')
    <3>1. PICK z \in Lines : z = y
      BY <2>1
    <3>2. FileText(f)' = Append(FileText(f), z)
      BY <2>6, <3>1
    <3>3. Times(x, FileTexts') = Times(x, FileTexts) + (IF x = z THEN 1 ELSE 0) /\ Times(x, FileTexts) \in Nat
      BY <1>1, <2>7, <3>2, FileAppended
    <3>4. c1 = c + k /\ c \in Nat /\ k \in Nat
      BY <3>1, <3>3
    <3>5. b = b1 + k /\ b1 \in Nat
      BY <1>8
    <3>6. a \in Nat
      BY <1>7, PlacesFinite DEF Finite
    <3>7. Total(x, unread, Chunked, FileTexts) = a + b + c /\ Total(x, unread', Chunked', FileTexts') = a + b1 + c1
      BY <1>1 DEF Total
    <3> HIDE DEF k, a, b, b1, c, c1
    <3> QED BY <3>4, <3>5, <3>6, <3>7
  <2> QED BY <1>1, <2>8, LinesMoved
<1> QED BY <1>10, <1>11

\* The line of the last stream is passed: written, or left out.
LinePassed ==
  /\ InLine /\ pc # "next" /\ pc' = "next" /\ Merging /\ Merging'
  /\ UNCHANGED <<opt, input, eargc, nfiles, range, os, unread, ibuf, rest>>
  /\ \A p \in 0 .. Prev - 1 : mem'[p] = mem[p]

LEMMA LinePassedBy ==
  ASSUME Base, ~opt.c, MergeLine \/ (NextLine /\ pc' = "next")
  PROVE  LinePassed
<1> USE DEF setup, reading, qstate, streams, flags
<1>1. CASE MergeLine
  BY <1>1, LineWritten DEF LinePassed
<1>2. CASE NextLine /\ pc' = "next"
  BY <1>2 DEF NextLine, LinePassed, InLine, Merging
<1> QED BY <1>1, <1>2

LEMMA PendingPassed ==
  ASSUME Base, LinePassed, NEW p \in 0 .. Prev - 1
  PROVE  /\ p # Last(ibuf) => Pending(p)' = Pending(p)
         /\ p = Last(ibuf) => /\ Pending(p) = <<mem[p]>> \o rest[p] /\ Pending(p)' = rest[p] /\ p \in Using
                              /\ Added(Lines, mem[p], Pending(p)', Pending(p)) /\ mem[p] \in Lines
                              /\ rest[p] \in Seq(Lines)
<1>1. /\ ibuf # << >> /\ ibuf \in Seq(0 .. N) /\ mem[Last(ibuf)] \in Lines /\ Last(ibuf) \in 0 .. N - 1
      /\ pc \in {"line", "check"} /\ pc' = "next" /\ UNCHANGED <<rest, ibuf>> /\ Distinct(ibuf)
      /\ mem'[p] = mem[p]
  BY LineFacts DEF LinePassed, InLine
<1>2. Using' = Using
  BY <1>1 DEF Using
<1>3. Last(ibuf) \in Using
  BY <1>1, FrontElements, UsingIs
<1>4. ASSUME p = Last(ibuf)
      PROVE  /\ Pending(p) = <<mem[p]>> \o rest[p] /\ Pending(p)' = rest[p] /\ p \in Using
             /\ Added(Lines, mem[p], Pending(p)', Pending(p)) /\ mem[p] \in Lines /\ rest[p] \in Seq(Lines)
  <2>1. mem[p] \in Lines /\ mem[p] # NoLine /\ rest[p] \in Seq(Lines)
    BY <1>1, <1>4, Numbers DEF Base, SortTypes
  <2>2. Pending(p) = <<mem[p]>> \o rest[p]
    BY <1>1, <1>3, <1>4, <2>1 DEF Pending
  <2>3. Pending(p)' = rest[p]
    BY <1>1, <1>2, <1>3, <1>4 DEF Pending
  <2>4. Added(Lines, mem[p], rest[p], <<mem[p]>> \o rest[p])
    BY <2>1, FirstAdded
  <2> QED BY <1>3, <1>4, <2>1, <2>2, <2>3, <2>4
<1>5. ASSUME p # Last(ibuf) PROVE Pending(p)' = Pending(p)
  BY <1>1, <1>2, <1>5 DEF Pending
<1> QED BY <1>4, <1>5

\* The file of the last stream.
LastFile == range[1] + Last(ibuf)
LEMMA FilesPassed ==
  ASSUME Base, LinePassed
  PROVE  /\ LastFile \in Merged /\ LastFile \in 0 .. eargc + MaxTemp /\ eargc' = eargc /\ pc # "exit" /\ pc' # "exit"
         /\ \A f \in Int : f = LastFile => Added(Lines, mem[Last(ibuf)], FileText(f)', FileText(f))
         /\ \A f \in Int : f \in Merged /\ f # LastFile => FileText(f)' = FileText(f)
         /\ \A f \in Int : f \notin Merged => FileText(f) = (IF f \in Live THEN disk[f] ELSE << >>)
                                          /\ FileText(f)' = (IF f \in Live THEN disk'[f] ELSE << >>)
         /\ Chunked' = Chunked
<1>1. /\ Merging /\ Merging' /\ UNCHANGED <<opt, input, eargc, nfiles, range, unread, os>> /\ InLine /\ pc' = "next"
      /\ pc # "exit" /\ pc' # "exit"
  BY DEF LinePassed, InLine
<1>2. ~SortPhase /\ ~SortPhase' /\ pc # "read" /\ pc' # "read"
  BY <1>1 DEF InLine, SortPhase
<1>3. Live' = Live
  BY <1>1, <1>2 DEF Live, Output
<1>4. /\ range[1] \in Nat /\ range[2] \in Nat /\ range[2] <= nfiles /\ nfiles \in Nat /\ nfiles <= eargc + MaxTemp
      /\ eargc \in Nat /\ MaxTemp \in Nat
  BY <1>1, RangeFacts
<1>5. Last(ibuf) \in 0 .. Prev - 1
  BY <1>1, LineFacts
<1>6. LastFile \in Merged /\ LastFile \in 0 .. eargc + MaxTemp
  <2> DEFINE q == Last(ibuf)
  <2>1. q \in 0 .. range[2] - range[1] - 1
    BY <1>5 DEF Prev
  <2> HIDE DEF q
  <2>2. range[1] + q \in range[1] .. range[2] - 1 /\ range[1] + q \in 0 .. eargc + MaxTemp
    BY <1>4, <2>1
  <2> QED BY <2>2 DEF LastFile, Merged, q
<1>7. ASSUME NEW f \in Int, f \in Merged
      PROVE  \E p \in 0 .. Prev - 1 : FileText(f) = Pending(p) /\ FileText(f)' = Pending(p)' /\ f = range[1] + p
  <2>1. PICK p \in 0 .. Prev - 1 : p = f - range[1] /\ f = range[1] + p
    BY <1>4, <1>7 DEF Merged, Prev
  <2>2. FileText(f) = Pending(p)
    BY <1>1, <1>7, <2>1 DEF FileText
  <2>3. \A r : r = f - range[1] => FileText(f)' = Pending(r)'
    BY <1>1, <1>7 DEF FileText, Merged
  <2> QED BY <2>1, <2>2, <2>3
<1>8. ASSUME NEW f \in Int, f = LastFile PROVE Added(Lines, mem[Last(ibuf)], FileText(f)', FileText(f))
  <2>1. PICK p \in 0 .. Prev - 1 : FileText(f) = Pending(p) /\ FileText(f)' = Pending(p)' /\ f = range[1] + p
    BY <1>6, <1>7, <1>8
  <2>2. p = Last(ibuf)
    BY <1>4, <1>5, <1>8, <2>1 DEF LastFile
  <2> QED BY <2>1, <2>2, PendingPassed
<1>9. ASSUME NEW f \in Int, f \in Merged, f # LastFile PROVE FileText(f)' = FileText(f)
  <2>1. PICK p \in 0 .. Prev - 1 : FileText(f) = Pending(p) /\ FileText(f)' = Pending(p)' /\ f = range[1] + p
    BY <1>7, <1>9
  <2>2. p # Last(ibuf)
    BY <1>9, <2>1 DEF LastFile
  <2> QED BY <2>1, <2>2, PendingPassed
<1>10. ASSUME NEW f \in Int, f \notin Merged
       PROVE  FileText(f) = (IF f \in Live THEN disk[f] ELSE << >>) /\ FileText(f)' = (IF f \in Live THEN disk'[f] ELSE << >>)
  BY <1>1, <1>3, <1>10 DEF FileText, Merged
<1>11. Chunked' = Chunked
  BY <1>2 DEF Chunked
<1> QED BY <1>1, <1>6, <1>8, <1>9, <1>10, <1>11

LEMMA LineMerged ==
  ASSUME Base, Base', LinesRight, MergeLine, ~opt.c, ~Doubled
  PROVE  LinesRight'
<1> DEFINE M == eargc + MaxTemp
           T == FileTexts
           U == FileTexts'
           y == mem[Last(ibuf)]
<1>1. LinePassed
  BY LinePassedBy
<1>2. /\ LastFile \in Merged /\ LastFile \in 0 .. M /\ eargc' = eargc /\ pc # "exit" /\ pc' # "exit"
      /\ \A f \in Int : f = LastFile => Added(Lines, y, FileText(f)', FileText(f))
      /\ \A f \in Int : f \in Merged /\ f # LastFile => FileText(f)' = FileText(f)
      /\ \A f \in Int : f \notin Merged => FileText(f) = (IF f \in Live THEN disk[f] ELSE << >>)
                                       /\ FileText(f)' = (IF f \in Live THEN disk'[f] ELSE << >>)
      /\ Chunked' = Chunked
  BY <1>1, FilesPassed
<1>3. /\ os \in Live /\ os \notin Merged /\ os \in Files(eargc) /\ disk[os] \in Seq(Lines) /\ y \in Lines
      /\ disk'[os] = Append(disk[os], y) /\ \A f \in Files(eargc) : f # os => disk'[f] = disk[f]
      /\ UNCHANGED <<opt, input, unread, lost>>
  BY LineWritten
<1>4. eargc \in Nat /\ MaxTemp \in Nat /\ M \in Nat
  BY <1>2, RangeFacts
<1>5. Bounded(T) /\ DOMAIN T = 0 .. M + 1 /\ \A g \in 0 .. M + 1 : T[g] = FileText(g - 1) /\ T[g] \in Seq(Lines)
  BY <1>2, TextsFinite
<1>6. Bounded(U) /\ DOMAIN U = 0 .. M + 1 /\ \A g \in 0 .. M + 1 : U[g] = FileText(g - 1)'
  BY <1>2, TextsFiniteNext DEF Finite
<1>7. os \in -1 .. M /\ \A f \in -1 .. M : f \in Files(eargc) /\ f \in Int
  BY <1>3, <1>4 DEF Files, Stdout
<1> HIDE DEF M, T, U, y
<1>8. PICK e \in 0 .. M + 1, g \in 0 .. M + 1 : e - 1 = os /\ g - 1 = LastFile /\ e # g
  <2>1. os + 1 \in 0 .. M + 1 /\ LastFile + 1 \in 0 .. M + 1 /\ (os + 1) - 1 = os /\ (LastFile + 1) - 1 = LastFile
    BY <1>2, <1>4, <1>7
  <2>2. os # LastFile
    BY <1>2, <1>3
  <2> QED BY <2>1, <2>2
<1>9. T[e] = disk[os] /\ U[e] = Append(T[e], y)
  <2>1. \A f \in Int : f = os => FileText(f) = disk[os] /\ FileText(f)' = disk'[os]
    BY <1>2, <1>3
  <2>2. e - 1 \in Int
    BY <1>8
  <2>3. \A f \in Int : f = e - 1 => T[e] = FileText(f) /\ U[e] = FileText(f)'
    BY <1>5, <1>6
  <2> QED BY <1>3, <1>8, <2>1, <2>2, <2>3
<1>10. Added(Lines, y, U[g], T[g])
  <2>1. \A f \in Int : f = g - 1 => T[g] = FileText(f) /\ U[g] = FileText(f)'
    BY <1>5, <1>6
  <2>2. g - 1 \in Int
    BY <1>8
  <2> QED BY <1>2, <1>8, <2>1, <2>2
<1>11. ASSUME NEW h \in 0 .. M + 1, h # e, h # g PROVE U[h] = T[h]
  <2>1. PICK f \in -1 .. M : f = h - 1 /\ f # os /\ f # LastFile
    BY <1>4, <1>8, <1>11
  <2>2. T[h] = FileText(f) /\ U[h] = FileText(f)'
    BY <1>5, <1>6, <2>1
  <2>3. FileText(f)' = FileText(f)
    BY <1>2, <1>3, <1>7, <2>1
  <2> QED BY <2>2, <2>3
<1>12. Differ(T, U, e, g)
  BY <1>5, <1>6, <1>8, <1>11 DEF Differ
<1>13. ASSUME NEW x \in Lines
       PROVE  Total(x, unread', Chunked', FileTexts') = Total(x, unread, Chunked, FileTexts)
  <2>1. T[e] \in Seq(Lines)
    BY <1>5
  <2>2. Times(x, U) = Times(x, T)
    BY <1>3, <1>9, <1>10, <1>12, <2>1, LineGoes
  <2> QED BY <1>2, <1>3, <2>2 DEF Total, T, U
<1> QED BY <1>3, <1>13, LinesMoved

\* Where a line is.
FileHas(x) == \E f \in -1 .. eargc + MaxTemp : Has(x, FileText(f))
There(x) == HasAny(x, unread) \/ Has(x, Chunked) \/ FileHas(x)
Counted == \A x \in Lines : Total(x, unread, Chunked, FileTexts) > 0 <=> There(x)

LEMMA CountedNow == Base /\ pc # "exit" => Counted
<1> SUFFICES ASSUME Base, pc # "exit", NEW x \in Lines
             PROVE  Total(x, unread, Chunked, FileTexts) > 0 <=> There(x)
  BY DEF Counted
<1> DEFINE M == eargc + MaxTemp
<1>1. M \in Nat
  BY RangeFacts
<1>2. Finite
  BY TextsFiniteNow
<1>3. DOMAIN FileTexts = 0 .. M + 1 /\ \A g \in 0 .. M + 1 : FileTexts[g] = FileText(g - 1)
  BY <1>2 DEF Finite
<1> HIDE DEF M
<1>4. ASSUME HasAny(x, FileTexts) PROVE \E f \in -1 .. M : Has(x, FileText(f))
  <2>1. PICK g \in 0 .. M + 1 : Has(x, FileTexts[g])
    BY <1>3, <1>4 DEF HasAny
  <2>2. PICK f \in -1 .. M : f = g - 1
    BY <1>1
  <2> QED BY <1>3, <2>1, <2>2
<1>5. ASSUME NEW f \in -1 .. M, Has(x, FileText(f)) PROVE HasAny(x, FileTexts)
  <2>1. PICK g \in 0 .. M + 1 : f = g - 1
    BY <1>1
  <2>2. Has(x, FileTexts[g])
    BY <1>3, <1>5, <2>1
  <2> QED BY <1>3, <2>2 DEF HasAny
<1>6. HasAny(x, FileTexts) <=> FileHas(x)
  BY <1>4, <1>5 DEF FileHas, M
<1> QED BY <1>2, <1>6, TotalPositive DEF There, Finite

LEMMA CountedNext == (Base /\ pc # "exit" => Counted)'
BY CountedNow, PTL

LEMMA TheresDropped ==
  ASSUME Base, Base', pc # "exit", pc' # "exit", LinesRight, opt.u, UNCHANGED <<opt, input>>, lost => lost',
         \A x \in Lines : There(x)' => There(x),
         lost' \/ \A x \in Lines : There(x) => \E y \in Lines : Key[y] = Key[x] /\ There(y)'
  PROVE  LinesRight'
<1>1. \A x \in Lines : Total(x, unread, Chunked, FileTexts) > 0 <=> There(x)
  BY CountedNow DEF Counted
<1>2. \A x \in Lines : Total(x, unread', Chunked', FileTexts') > 0 <=> There(x)'
  BY CountedNext DEF Counted
<1> QED BY <1>1, <1>2, LinesDropped

LEMMA HasAdded ==
  ASSUME NEW x, NEW y, NEW D, NEW s, NEW t, Added(D, y, s, t)
  PROVE  Has(x, t) <=> x = y \/ Has(x, s)
<1> DEFINE n == Len(s)
<1>1. n \in Nat /\ DOMAIN s = 1 .. n /\ DOMAIN t = 1 .. n + 1 /\ t[1] = y /\ \A i \in 1 .. n : t[i + 1] = s[i]
  BY LenProperties DEF Added
<1> HIDE DEF n
<1>2. ASSUME NEW i \in 1 .. n + 1, t[i] = x, x # y PROVE Has(x, s)
  <2>1. i # 1
    BY <1>1, <1>2
  <2>2. PICK j \in 1 .. n : i = j + 1
    BY <1>1, <2>1
  <2> QED BY <1>1, <1>2, <2>2 DEF Has
<1>3. ASSUME NEW i \in 1 .. n, s[i] = x PROVE Has(x, t)
  <2>1. i + 1 \in 1 .. n + 1 /\ t[i + 1] = x
    BY <1>1, <1>3
  <2> QED BY <1>1, <2>1 DEF Has
<1>4. Has(y, t)
  <2>1. 1 \in 1 .. n + 1
    BY <1>1
  <2> QED BY <1>1, <2>1 DEF Has
<1>5. Has(x, t) => \E i \in 1 .. n + 1 : t[i] = x
  BY <1>1 DEF Has
<1>6. Has(x, s) => \E i \in 1 .. n : s[i] = x
  BY <1>1 DEF Has
<1> QED BY <1>2, <1>3, <1>4, <1>5, <1>6

\* The last stream's line is left out.
LEMMA LineDropped ==
  ASSUME Base, Base', LinesRight, opt.u, LinePassed, \A f \in Live : disk'[f] = disk[f], lost => lost',
         lost' \/ \E y \in Lines : Key[y] = Key[mem[Last(ibuf)]] /\ There(y)'
  PROVE  LinesRight'
<1> DEFINE M == eargc + MaxTemp
           d == mem[Last(ibuf)]
<1>1. /\ LastFile \in Merged /\ LastFile \in 0 .. M /\ eargc' = eargc /\ pc # "exit" /\ pc' # "exit"
      /\ \A f \in Int : f = LastFile => Added(Lines, d, FileText(f)', FileText(f))
      /\ \A f \in Int : f \in Merged /\ f # LastFile => FileText(f)' = FileText(f)
      /\ \A f \in Int : f \notin Merged => FileText(f) = (IF f \in Live THEN disk[f] ELSE << >>)
                                       /\ FileText(f)' = (IF f \in Live THEN disk'[f] ELSE << >>)
      /\ Chunked' = Chunked
  BY FilesPassed
<1>2. M \in Nat /\ \A f \in -1 .. M : f \in Int
  BY <1>1, RangeFacts
<1>3. UNCHANGED <<opt, input, unread>>
  BY DEF LinePassed
<1> HIDE DEF M, d
<1>4. ASSUME NEW f \in -1 .. M, f # LastFile PROVE FileText(f)' = FileText(f)
  BY <1>1, <1>2, <1>4
<1>5. ASSUME NEW x, NEW f \in -1 .. M PROVE (Has(x, FileText(f)') => Has(x, FileText(f)))
                                     /\ (Has(x, FileText(f)) => x = d \/ Has(x, FileText(f)'))
  <2>1. CASE f = LastFile
    BY <1>1, <1>2, <2>1, HasAdded
  <2>2. CASE f # LastFile
    BY <1>4, <2>2
  <2> QED BY <2>1, <2>2
<1>6. ASSUME NEW x \in Lines PROVE There(x) <=> HasAny(x, unread) \/ Has(x, Chunked) \/ \E f \in -1 .. M : Has(x, FileText(f))
  BY DEF There, FileHas, M
<1>7. ASSUME NEW x \in Lines
      PROVE  There(x)' <=> HasAny(x, unread) \/ Has(x, Chunked) \/ \E f \in -1 .. M : Has(x, FileText(f)')
  <2>1. HasAny(x, unread)' <=> HasAny(x, unread)
    BY <1>3 DEF HasAny, Has
  <2>2. Has(x, Chunked)' <=> Has(x, Chunked)
    BY <1>1 DEF Has
  <2>3. FileHas(x)' <=> \E f \in -1 .. M : Has(x, FileText(f))'
    BY <1>1 DEF FileHas, M
  <2>4. \A f : Has(x, FileText(f))' <=> Has(x, FileText(f)')
    BY DEF Has
  <2> QED BY <2>1, <2>2, <2>3, <2>4 DEF There
<1>8. \A x \in Lines : There(x)' => There(x)
  BY <1>5, <1>6, <1>7
<1>9. \A x \in Lines : There(x) => x = d \/ There(x)'
  BY <1>5, <1>6, <1>7
<1>10. lost' \/ \A x \in Lines : There(x) => \E y \in Lines : Key[y] = Key[x] /\ There(y)'
  BY <1>9 DEF d
<1> QED BY <1>1, <1>3, <1>8, <1>10, TheresDropped

\* What is left of a stream in use begins with its line.
LEMMA PendingIs ==
  ASSUME Base, Merging, pc # "open", NEW p \in Using, mem[p] # NoLine, ~(pc = "next" /\ p = Last(ibuf))
  PROVE  /\ Pending(p) = <<mem[p]>> \o rest[p] /\ Added(Lines, mem[p], rest[p], Pending(p)) /\ mem[p] \in Lines
         /\ p \in 0 .. Prev - 1 /\ rest[p] \in Seq(Lines)
<1>1. p \in 0 .. Prev - 1 /\ Prev \in 0 .. N
  BY StreamFacts
<1>2. p \in 0 .. N - 1 /\ p \in 0 .. N
  BY <1>1, Numbers
<1>3. mem[p] \in Lines /\ rest[p] \in Seq(Lines)
  BY <1>2, Numbers DEF Base, SortTypes
<1>4. Pending(p) = <<mem[p]>> \o rest[p]
  BY DEF Pending
<1> QED BY <1>1, <1>3, <1>4, FirstAdded

LEMMA DoubledDropped ==
  ASSUME Base, Base', LinesRight, MergeLine, ~opt.c, Doubled
  PROVE  LinesRight'
<1>1. /\ LinePassed /\ UNCHANGED <<opt, lost>> /\ disk' = disk /\ opt.u /\ InLine /\ pc = "line" /\ Merging /\ pc # "exit"
      /\ Len(ibuf) > 1 /\ Compare(mem[Last(ibuf)], mem[ibuf[Len(ibuf) - 1]]) = 0
  BY LineWritten, LinePassedBy, Running DEF Doubled
<1> DEFINE n == Len(ibuf)
           k == n - 1
           p == ibuf[k]
           y == mem[p]
           d == mem[Last(ibuf)]
<1>2. ibuf \in Seq(0 .. N) /\ Distinct(ibuf) /\ ibuf # << >> /\ \A i \in 1 .. n : mem[ibuf[i]] \in Lines
  BY <1>1, LineFacts
<1>3. n \in Nat /\ DOMAIN ibuf = 1 .. n /\ Last(ibuf) = ibuf[n]
  BY <1>2, FrontLast
<1>4. k \in 1 .. n /\ n \in 1 .. n /\ k # n
  <2>1. n > 1 /\ n \in Nat
    BY <1>1, <1>3
  <2> HIDE DEF n
  <2> QED BY <2>1
<1>5. p \in Using /\ p # Last(ibuf) /\ y \in Lines /\ d \in Lines
  BY <1>2, <1>3, <1>4 DEF Using, Distinct
<1>6. Key[y] = Key[d]
  <2>1. Cmp(opt.u, d, y) = 0
    BY <1>1, CompareIs
  <2>2. opt.u = TRUE
    BY <1>1, OptFields DEF Base
  <2> HIDE DEF d, y
  <2>3. Cmp(TRUE, d, y) = 0
    BY <2>1, <2>2
  <2> QED BY <1>5, <2>3, CmpEqual
<1> HIDE DEF k, n, p, d
<1>7. p \in 0 .. Prev - 1 /\ Added(Lines, y, rest[p], Pending(p))
  BY <1>1, <1>5, Numbers, PendingIs
<1>8. Has(y, Pending(p))
  BY <1>7, HasAdded
<1>9. /\ range[1] \in Nat /\ range[2] \in Nat /\ range[2] <= nfiles /\ nfiles <= eargc + MaxTemp /\ nfiles \in Nat
      /\ eargc \in Nat /\ MaxTemp \in Nat /\ eargc' = eargc
  BY <1>1, RangeFacts DEF LinePassed
<1>10. PICK f \in 0 .. eargc + MaxTemp : f = range[1] + p /\ f \in Merged
  <2>1. range[1] + p \in range[1] .. range[2] - 1 /\ range[1] + p \in 0 .. eargc + MaxTemp
    BY <1>7, <1>9 DEF Prev
  <2> QED BY <2>1 DEF Merged
<1>11. f # LastFile
  <2>1. Last(ibuf) \in 0 .. Prev - 1
    BY <1>1, LineFacts
  <2> QED BY <1>5, <1>7, <1>9, <1>10, <2>1 DEF LastFile
<1>12. FileText(f) = Pending(p)
  <2>1. f - range[1] = p
    BY <1>7, <1>9, <1>10
  <2> QED BY <1>1, <1>10, <2>1 DEF FileText
<1>13. FileText(f)' = FileText(f)
  BY <1>1, <1>10, <1>11, FilesPassed
<1>14. f \in -1 .. eargc + MaxTemp
  BY <1>9
<1>15. PICK z \in Lines : z = y
  BY <1>5
<1>16. Has(z, FileText(f))'
  BY <1>8, <1>12, <1>13, <1>15 DEF Has
<1>17. There(z)'
  BY <1>9, <1>14, <1>16 DEF There, FileHas
<1> QED BY <1>1, <1>6, <1>15, <1>17, LineDropped DEF d

LEMMA EqualPassedOver ==
  ASSUME Base, Base', LinesRight, FlagsRight, NextLine, pc' = "next", ~opt.c
  PROVE  LinesRight'
<1> USE DEF setup, reading, qstate, streams, flags
<1> DEFINE d == mem[Last(ibuf)]
           y == mem[Prev]
<1>1. /\ pc = "check" /\ SameAsLast /\ UNCHANGED <<opt, disk, nfiles, range, os, eargc>>
      /\ lost' = (lost \/ (SameAsLast /\ ~fresh)) /\ InLine
  BY DEF NextLine, InLine
<1>2. LinePassed
  BY LinePassedBy
<1>3. muflg /\ y # NoLine /\ Compare(d, y) = 0 /\ opt.u
  BY <1>1 DEF SameAsLast, FlagsRight
<1>4. lost => lost'
  BY <1>1
<1>5. CASE ~fresh
  BY <1>1, <1>2, <1>3, <1>4, <1>5, LineDropped
<1>6. CASE fresh
  <2>1. disk[os] # << >> /\ y = Last(disk[os])
    BY <1>1, <1>6 DEF FlagsRight
  <2>2. Merging /\ Merging' /\ pc # "exit"
    BY <1>1, <1>2 DEF LinePassed
  <2>3. os \in Live /\ os \notin Merged
    BY <2>2, OutputLive, LiveApart
  <2>4. os \in Files(eargc) /\ disk[os] \in Seq(Lines) /\ eargc \in Nat /\ MaxTemp \in Nat
    BY <2>2, <2>3, LiveFiles, RangeFacts DEF Base, FilesRight
  <2>5. y \in Lines /\ Has(y, disk[os])
    <3>1. Len(disk[os]) \in Nat \ {0} /\ DOMAIN disk[os] = 1 .. Len(disk[os]) /\ Last(disk[os]) = disk[os][Len(disk[os])]
          /\ Last(disk[os]) \in Lines
      BY <2>1, <2>4, FrontLast
    <3>2. Len(disk[os]) \in DOMAIN disk[os]
      BY <3>1
    <3> QED BY <2>1, <3>1, <3>2 DEF Has
  <2>6. d \in Lines
    BY <1>1, LineFacts
  <2>7. Key[y] = Key[d]
    <3>1. Cmp(opt.u, d, y) = 0
      BY <1>3, CompareIs
    <3>2. opt.u = TRUE
      BY <1>3, OptFields DEF Base
    <3> HIDE DEF d, y
    <3>3. Cmp(TRUE, d, y) = 0
      BY <3>1, <3>2
    <3> QED BY <2>5, <2>6, <3>3, CmpEqual
  <2>8. PICK f \in -1 .. eargc + MaxTemp : f = os
    BY <2>4 DEF Files, Stdout
  <2>9. FileText(f)' = disk[os]
    <3>1. f \in Int /\ f \notin Merged /\ f \in Live
      BY <2>3, <2>4, <2>8
    <3>2. FileText(f)' = disk'[f]
      BY <1>2, <3>1, FilesPassed
    <3> QED BY <1>1, <2>8, <3>2
  <2>10. PICK z \in Lines : z = y
    BY <2>5
  <2>11. Has(z, FileText(f))'
    BY <2>5, <2>9, <2>10 DEF Has
  <2>12. There(z)'
    BY <1>1, <2>8, <2>11 DEF There, FileHas
  <2>13. \E z1 \in Lines : Key[z1] = Key[mem[Last(ibuf)]] /\ There(z1)'
    BY <2>7, <2>10, <2>12
  <2> QED BY <1>1, <1>2, <1>3, <1>4, <2>13, LineDropped
<1> QED BY <1>5, <1>6

\* qusort voids some of the equals.
LEMMA VoidedNothing ==
  ASSUME Base, QusortParted, Doubles = {}
  PROVE  text' = text /\ mem' = mem
<1>1. text \in Seq(Cells) /\ mem \in [0 .. N -> Cells]
  BY DEF Base, SortTypes
<1>2. text \in [1 .. Len(text) -> Cells]
  BY <1>1, LenProperties
<1>3. VoidedBy(text, Doubles) = text /\ VoidedBy(mem, Doubles) = mem
  BY <1>1, <1>2 DEF VoidedBy
<1> QED BY <1>3, PartedStep

LEMMA PartedQuiet ==
  ASSUME Base, QusortParted
  PROVE  /\ pc = "qusort" /\ pc' = "qusort" /\ Live' = Live /\ Using' = Using /\ (Merging' <=> Merging)
         /\ (SortPhase' <=> SortPhase) /\ Prev' = Prev /\ pc # "exit" /\ pc' # "exit" /\ Output' = Output
         /\ UNCHANGED <<opt, input, eargc, nfiles, range, disk, os, unread, ibuf, rest, lost, caller, fresh, muflg>>
<1> USE DEF setup, reading, qstate, streams, flags
<1>1. /\ pc = "qusort" /\ pc' = "qusort"
      /\ UNCHANGED <<opt, input, eargc, nfiles, range, disk, os, unread, ibuf, rest, lost, caller, fresh, muflg>>
  BY DEF QusortParted
<1> QED BY <1>1 DEF Live, Using, Merging, SortPhase, Prev, Output

\* A line that is voided leaves an equal one.
LEMMA PartedEquals ==
  ASSUME Base, QusortParted, opt.u, NEW p \in Doubles
  PROVE  \E q \in Using : /\ q \notin Doubles /\ Memory[p] \in Lines /\ Memory[q] \in Lines
                          /\ Key[Memory[q]] = Key[Memory[p]]
<1>1. PICK q \in Using \ Doubles : Memory[p] \in Lines /\ Memory[q] \in Lines /\ Cmp(opt.u, Memory[p], Memory[q]) = 0
  BY PartedStep
<1>2. opt.u = TRUE
  BY OptFields DEF Base
<1> DEFINE x == Memory[p]
           y == Memory[q]
           u == opt.u
<1>3. x \in Lines /\ y \in Lines /\ Cmp(u, x, y) = 0 /\ u = TRUE
  BY <1>1, <1>2
<1> HIDE DEF x, y, u
<1>4. Cmp(TRUE, x, y) = 0
  BY <1>3
<1>5. Key[x] = Key[y]
  BY <1>3, <1>4, CmpEqual
<1> QED BY <1>1, <1>5 DEF x, y

LEMMA ChunkParted ==
  ASSUME Base, Base', LinesRight, QusortParted, SortPhase
  PROVE  LinesRight'
<1>1. /\ pc = "qusort" /\ pc' = "qusort" /\ Live' = Live /\ Using' = Using /\ ~Merging' /\ ~Merging
      /\ SortPhase' /\ pc # "exit" /\ pc' # "exit" /\ caller = "sort"
      /\ UNCHANGED <<opt, input, eargc, nfiles, range, disk, unread, lost>>
  BY PartedQuiet, Phases
<1>2. eargc \in Nat /\ text \in Seq(Cells) /\ Using = 1 .. Len(text)
  BY <1>1 DEF Base, SortTypes, StreamsRight
<1>3. \A f \in -1 .. eargc + MaxTemp : FileText(f)' = FileText(f)
  BY <1>1 DEF FileText
<1>4. FileTexts' = FileTexts
  BY <1>1, <1>2, <1>3, FileTextsSame
<1>5. Chunked = [p \in Using |-> text[p]] /\ Chunked' = [p \in Using |-> text'[p]]
  BY <1>1 DEF Chunked
<1>6. CASE ~opt.u
  <2>1. Doubles = {}
    BY <1>6, PartedStep
  <2>2. text' = text
    BY <2>1, VoidedNothing
  <2> QED BY <1>1, <1>4, <1>5, <2>2, LinesSame
<1>7. CASE opt.u
  <2>1. text' = VoidedBy(text, Doubles) /\ Doubles \subseteq Using
    BY <1>1, PartedStep
  <2>2. DOMAIN text = Using
    BY <1>2, LenProperties
  <2>3. \A p \in Using : text'[p] = IF p \in Doubles THEN NoLine ELSE text[p]
    BY <2>1, <2>2 DEF VoidedBy
  <2>4. ASSUME NEW x \in Lines PROVE Has(x, Chunked) <=> \E p \in Using : text[p] = x
    BY <1>5 DEF Has
  <2>5. ASSUME NEW x \in Lines PROVE Has(x, Chunked') <=> \E p \in Using : text'[p] = x
    BY <1>5 DEF Has
  <2>6. ASSUME NEW x \in Lines
        PROVE  There(x)' <=> HasAny(x, unread) \/ Has(x, Chunked') \/ FileHas(x)
    <3>1. HasAny(x, unread)' <=> HasAny(x, unread)
      BY <1>1 DEF HasAny, Has
    <3>2. FileHas(x)' <=> FileHas(x)
      BY <1>1, <1>3 DEF FileHas, Has
    <3>3. Has(x, Chunked)' <=> Has(x, Chunked')
      BY DEF Has
    <3> QED BY <3>1, <3>2, <3>3 DEF There
  <2>7. ASSUME NEW x \in Lines, There(x)' PROVE There(x)
    <3>1. Has(x, Chunked') => Has(x, Chunked)
      BY <2>3, <2>4, <2>5, Numbers
    <3> QED BY <2>6, <2>7, <3>1 DEF There
  <2>8. ASSUME NEW x \in Lines, There(x) PROVE \E y \in Lines : Key[y] = Key[x] /\ There(y)'
    <3>1. CASE HasAny(x, unread) \/ FileHas(x)
      BY <2>6, <3>1
    <3>2. CASE Has(x, Chunked)
      <4>1. PICK p \in Using : text[p] = x
        BY <2>4, <3>2
      <4>2. CASE p \in Doubles
        <5>1. PICK q \in Using : q \notin Doubles /\ Memory[q] \in Lines /\ Key[Memory[q]] = Key[Memory[p]]
          BY <1>7, <4>2, PartedEquals
        <5>2. Memory = text
          BY <1>1 DEF Memory
        <5>3. text'[q] = text[q] /\ text[q] \in Lines /\ Key[text[q]] = Key[x]
          BY <2>3, <4>1, <5>1, <5>2
        <5>4. Has(text[q], Chunked')
          BY <2>5, <5>3
        <5>5. PICK z \in Lines : z = text[q]
          BY <5>3
        <5> QED BY <2>6, <5>3, <5>4, <5>5
      <4>3. CASE p \notin Doubles
        <5>1. Has(x, Chunked')
          BY <2>3, <2>5, <4>1, <4>3
        <5> QED BY <2>6, <5>1
      <4> QED BY <4>2, <4>3
    <3> QED BY <2>8, <3>1, <3>2 DEF There
  <2> QED BY <1>1, <1>7, <2>7, <2>8, TheresDropped
<1> QED BY <1>6, <1>7

LEMMA PendingParted ==
  ASSUME Base, QusortParted, Merging, NEW p \in 0 .. Prev - 1
  PROVE  /\ p \notin Doubles => Pending(p)' = Pending(p)
         /\ p \in Doubles => Added(Lines, mem[p], Pending(p)', Pending(p)) /\ mem[p] \in Lines /\ Pending(p)' \in Seq(Lines)
<1>1. pc = "qusort" /\ pc' = "qusort" /\ Using' = Using /\ rest' = rest /\ caller = "merge" /\ pc # "exit"
  BY PartedQuiet, Phases
<1>2. mem' = VoidedBy(mem, Doubles) /\ Doubles \subseteq Using
  BY <1>1, PartedStep
<1>3. mem \in [0 .. N -> Cells] /\ p \in 0 .. N
  <2>1. Prev \in 0 .. N /\ N \in Nat
    BY StreamFacts, Numbers
  <2>2. p \in 0 .. N
    BY <2>1
  <2> QED BY <2>2 DEF Base, SortTypes
<1>4. mem'[p] = IF p \in Doubles THEN NoLine ELSE mem[p]
  BY <1>2, <1>3 DEF VoidedBy
<1>5. ASSUME p \notin Doubles PROVE Pending(p)' = Pending(p)
  BY <1>1, <1>4, <1>5 DEF Pending
<1>6. ASSUME p \in Doubles
      PROVE  Added(Lines, mem[p], Pending(p)', Pending(p)) /\ mem[p] \in Lines /\ Pending(p)' \in Seq(Lines)
  <2>1. Pending(p)' = rest[p]
    BY <1>1, <1>2, <1>4, <1>6 DEF Pending
  <2>2. mem[p] \in Lines
    <3>1. Memory = mem
      BY <1>1 DEF Memory
    <3>2. Memory[p] \in Lines
      BY <1>6, PartedStep
    <3> QED BY <3>1, <3>2
  <2>3. Added(Lines, mem[p], rest[p], Pending(p)) /\ rest[p] \in Seq(Lines)
    BY <1>1, <1>2, <1>6, <2>2, Numbers, PendingIs
  <2> QED BY <2>1, <2>2, <2>3
<1> QED BY <1>5, <1>6

\* The text of a file that is merged.
LEMMA FilePending ==
  ASSUME Base, Merging, Merging', range' = range, NEW f \in Int
  PROVE  /\ f \in Merged => \E p \in 0 .. Prev - 1 : FileText(f) = Pending(p) /\ FileText(f)' = Pending(p)' /\ f = range[1] + p
         /\ \A p \in 0 .. Prev - 1 : f = range[1] + p => f \in Merged /\ FileText(f) = Pending(p) /\ FileText(f)' = Pending(p)'
<1>1. range[1] \in Nat /\ range[2] \in Nat
  BY StreamFacts
<1>2. ASSUME f \in Merged
      PROVE  \E p \in 0 .. Prev - 1 : FileText(f) = Pending(p) /\ FileText(f)' = Pending(p)' /\ f = range[1] + p
  <2>1. PICK p \in 0 .. Prev - 1 : p = f - range[1] /\ f = range[1] + p
    BY <1>1, <1>2 DEF Merged, Prev
  <2>2. FileText(f) = Pending(p)
    BY <1>2, <2>1 DEF FileText
  <2>3. \A r : r = f - range[1] => FileText(f)' = Pending(r)'
    BY <1>2 DEF FileText, Merged
  <2> QED BY <2>1, <2>2, <2>3
<1>3. ASSUME NEW p \in 0 .. Prev - 1, f = range[1] + p
      PROVE  f \in Merged /\ FileText(f) = Pending(p) /\ FileText(f)' = Pending(p)'
  <2>1. f \in Merged /\ p = f - range[1]
    BY <1>1, <1>3 DEF Merged, Prev
  <2>2. FileText(f) = Pending(p)
    BY <2>1 DEF FileText
  <2>3. \A r : r = f - range[1] => FileText(f)' = Pending(r)'
    BY <2>1 DEF FileText, Merged
  <2> QED BY <2>1, <2>2, <2>3
<1> QED BY <1>2, <1>3

\* Where a line is, in a merge.
LEMMA TheresMerging ==
  ASSUME Merging, Merging', ~SortPhase, ~SortPhase', pc # "read", pc' # "read", UNCHANGED <<unread, eargc>>, NEW x
  PROVE  /\ There(x) <=> HasAny(x, unread) \/ \E f \in -1 .. eargc + MaxTemp : Has(x, FileText(f))
         /\ There(x)' <=> HasAny(x, unread) \/ \E f \in -1 .. eargc + MaxTemp : Has(x, FileText(f)')
<1>1. Chunked = << >> /\ Chunked' = << >>
  BY DEF Chunked
<1>2. ~Has(x, << >>)
  BY DEF Has
<1>3. HasAny(x, unread)' <=> HasAny(x, unread)
  BY DEF HasAny, Has
<1>4. FileHas(x)' <=> \E f \in -1 .. eargc + MaxTemp : Has(x, FileText(f)')
  BY DEF FileHas, Has
<1>5. ~Has(x, Chunked) /\ ~Has(x, Chunked)'
  BY <1>1 DEF Has
<1> QED BY <1>3, <1>4, <1>5 DEF There, FileHas

LEMMA StreamsParted ==
  ASSUME Base, Base', LinesRight, QusortParted, Merging
  PROVE  LinesRight'
<1>1. /\ pc = "qusort" /\ pc' = "qusort" /\ Live' = Live /\ Using' = Using /\ Merging' /\ rest' = rest
      /\ pc # "exit" /\ pc' # "exit" /\ caller = "merge" /\ ~SortPhase /\ ~SortPhase' /\ Prev' = Prev
      /\ UNCHANGED <<opt, input, eargc, nfiles, range, disk, unread, lost>>
  BY PartedQuiet, Phases
<1>2. eargc \in Nat /\ MaxTemp \in Nat
  BY Numbers DEF Base, SortTypes
<1>3. ASSUME NEW f \in Int, f \notin Merged PROVE FileText(f)' = FileText(f)
  BY <1>1, <1>3 DEF FileText, Merged
<1>4. \A f \in -1 .. eargc + MaxTemp : f \in Int
  BY <1>2
<1>5. Memory = mem
  BY <1>1 DEF Memory
<1>6. CASE ~opt.u
  <2>1. mem' = mem
    BY <1>6, PartedStep, VoidedNothing
  <2>2. \A p : Pending(p)' = Pending(p)
    BY <1>1, <2>1, PendingQuiet
  <2>3. ASSUME NEW f \in Int PROVE FileText(f)' = FileText(f)
    BY <1>1, <1>3, <2>2, FilePending
  <2>4. FileTexts' = FileTexts /\ Chunked' = Chunked
    BY <1>1, <1>2, <1>4, <2>3, FileTextsSame DEF Chunked
  <2> QED BY <1>1, <2>4, LinesSame
<1>7. CASE opt.u
  <2>1. ASSUME NEW f \in Int
        PROVE  \/ FileText(f)' = FileText(f)
               \/ \E p \in Doubles : Added(Lines, mem[p], FileText(f)', FileText(f))
    <3>1. CASE f \notin Merged
      BY <1>3, <3>1
    <3>2. CASE f \in Merged
      <4>1. PICK p \in 0 .. Prev - 1 : FileText(f) = Pending(p) /\ FileText(f)' = Pending(p)'
        BY <1>1, <3>2, FilePending
      <4> QED BY <4>1, PendingParted
    <3> QED BY <3>1, <3>2
  <2>2. ASSUME NEW x \in Lines
        PROVE  /\ There(x) <=> HasAny(x, unread) \/ \E f \in -1 .. eargc + MaxTemp : Has(x, FileText(f))
               /\ There(x)' <=> HasAny(x, unread) \/ \E f \in -1 .. eargc + MaxTemp : Has(x, FileText(f)')
    BY <1>1, TheresMerging
  <2>3. ASSUME NEW x \in Lines, There(x)' PROVE There(x)
    <3>1. \A f \in Int : Has(x, FileText(f)') => Has(x, FileText(f))
      BY <2>1, HasAdded
    <3> QED BY <1>4, <2>2, <2>3, <3>1
  <2>4. ASSUME NEW x \in Lines, There(x) PROVE \E y \in Lines : Key[y] = Key[x] /\ There(y)'
    <3>1. CASE There(x)'
      BY <3>1
    <3>2. CASE ~There(x)'
      <4>1. PICK f \in -1 .. eargc + MaxTemp : Has(x, FileText(f)) /\ ~Has(x, FileText(f)')
        BY <2>2, <2>4, <3>2
      <4>2. PICK p \in Doubles : x = mem[p]
        BY <1>4, <2>1, <4>1, HasAdded
      <4>3. PICK q \in Using : q \notin Doubles /\ mem[q] \in Lines /\ Key[mem[q]] = Key[x]
        BY <1>5, <1>7, <4>2, PartedEquals
      <4>4. PICK z \in Lines : z = mem[q]
        BY <4>3
      <4>5. q \in 0 .. Prev - 1 /\ Added(Lines, z, rest[q], Pending(q))
        BY <1>1, <4>3, <4>4, Numbers, PendingIs
      <4>6. Pending(q)' = Pending(q)
        BY <4>3, <4>5, PendingParted
      <4>7. PICK g \in Int : g = range[1] + q /\ g \in -1 .. eargc + MaxTemp
        <5>1. range[1] \in Nat /\ range[2] \in Nat /\ range[2] <= nfiles /\ nfiles \in Nat /\ nfiles <= eargc + MaxTemp
          BY <1>1, RangeFacts
        <5> QED BY <1>2, <4>5, <5>1 DEF Prev
      <4>8. FileText(g)' = Pending(q)
        BY <1>1, <4>5, <4>6, <4>7, FilePending
      <4>9. Has(z, FileText(g)')
        BY <4>5, <4>8, HasAdded
      <4>10. There(z)'
        BY <2>2, <4>7, <4>9
      <4> QED BY <4>3, <4>4, <4>10
    <3> QED BY <3>1, <3>2
  <2> QED BY <1>1, <1>7, <2>3, <2>4, TheresDropped
<1> QED BY <1>6, <1>7

\* No step loses a line.
LEMMA LinesStay ==
  ASSUME Base, Base', ~opt.c, FlagsRight, LinesRight, SortNext, pc' # "exit", fault' # "silent"
  PROVE  LinesRight'
<1> USE DEF setup, reading, qstate, streams, flags
<1>0. pc # "exit"
  BY Running
<1>1. CASE ReadLine
  BY <1>1, LineComes
<1>2. CASE ReadOn \/ ReadAll \/ StoreChunk \/ PutAll
  BY <1>2, ReadTexts, LinesSame
<1>3. CASE PutLine
  BY <1>3, LineGoesOut
<1>4. CASE QusortBegin \/ QusortLoop \/ QusortReturn
  <2>1. SortPhase \/ Merging
    BY <1>0, <1>4, Phases DEF QusortBegin, QusortLoop, QusortReturn
  <2>2. CASE SortPhase
    BY <1>4, <2>2, ReadTexts, LinesSame
  <2>3. CASE Merging
    <3>1. StreamStep
      BY <1>4, <2>3 DEF StreamStep
    <3> QED BY <3>1, StreamTexts, StreamStepQuiet, LinesSame
  <2> QED BY <2>1, <2>2, <2>3
<1>5. CASE QusortParted
  <2>1. SortPhase \/ Merging
    BY <1>0, <1>5, Phases DEF QusortParted
  <2> QED BY <1>5, <2>1, ChunkParted, StreamsParted
<1>6. CASE PlanRun \/ PlanOutput
  BY <1>6, PlanTexts, LinesSame
<1>7. CASE OpenFile \/ OpenedAll \/ DropVoid \/ SortAgain \/ NoneDropped \/ StreamEnds \/ StreamReads
  <2>1. StreamStep
    BY <1>7 DEF StreamStep
  <2> QED BY <2>1, StreamTexts, StreamStepQuiet, LinesSame
<1>8. CASE MergeLine
  BY <1>8, LineMerged, DoubledDropped
<1>9. CASE NextLine
  <2>1. CASE pc' = "next"
    BY <1>9, <2>1, EqualPassedOver
  <2>2. CASE pc' # "next"
    <3>1. StreamStep
      BY <1>9, <2>2 DEF StreamStep, NextLine
    <3> QED BY <3>1, StreamTexts, StreamStepQuiet, LinesSame
  <2> QED BY <2>1, <2>2
<1>10. CASE MergeClose
  BY <1>10, CloseTexts, LinesSame
<1>11. ~StoreChunkFails /\ ~PutLineFails /\ ~PlanFails /\ ~PlanDone /\ ~MergeLineFails /\ ~Disordered
       /\ ~CreateFails /\ ~ReadFails /\ ~PutAllCuts /\ ~MergeCloseCuts
  BY Stopped, FaultKept
<1> QED BY <1>1, <1>2, <1>3, <1>4, <1>5, <1>6, <1>7, <1>8, <1>9, <1>10, <1>11 DEF SortNext

\* At the beginning all the lines are in the arguments.
LEMMA LinesBegin ==
  ASSUME SortInit, ~opt.c
  PROVE  LinesRight /\ FlagsRight
<1> DEFINE M == eargc + MaxTemp
<1>1. Base
  BY BaseBegins
<1>2. /\ input \in Seq(Seq(Lines)) /\ Len(input) = eargc /\ eargc \in Nat \ {0} /\ nfiles = eargc
      /\ \A f \in 0 .. eargc - 1 : disk[f] = input[f + 1]
      /\ unread = IF opt.m THEN [k \in 1 .. eargc |-> << >>] ELSE input
      /\ range = IF opt.m THEN <<0, 0>> ELSE <<eargc, eargc>>
      /\ pc = IF opt.m THEN "plan" ELSE "read"
      /\ text = << >>
  BY InitFacts DEF SortInit
<1>3. pc # "exit" /\ ~Merging /\ Chunked = << >>
  BY <1>2 DEF Merging, Chunked, SortPhase
<1>4. FlagsRight
  BY <1>2, <1>3 DEF FlagsRight, Merging
<1>5. DOMAIN input = 1 .. eargc /\ M \in Nat /\ MaxTemp \in Nat
  BY <1>2, Numbers, LenProperties
<1>6. DOMAIN FileTexts = 0 .. M + 1 /\ \A g \in 0 .. M + 1 : FileTexts[g] = FileText(g - 1)
  BY <1>1, <1>3, TextsFinite
<1>7. \A x : Count(x, Chunked) = 0
  BY <1>3, FS_EmptySet DEF Count
<1>8. \A x : Times(x, input) \in Nat
  BY <1>1, <1>3, TextsFinite, PlacesFinite
<1>9. ASSUME NEW x \in Lines PROVE Total(x, unread, Chunked, FileTexts) = Times(x, input)
  <2>1. CASE ~opt.m
    <3>1. Live = {}
      BY <1>2, <2>1, SpanFields DEF Live, SortPhase
    <3>2. \A g \in DOMAIN FileTexts : DOMAIN FileTexts[g] = {}
      BY <1>3, <1>6, <3>1 DEF FileText
    <3>3. Times(x, FileTexts) = 0
      BY <3>2, TimesNone
    <3> QED BY <1>2, <1>7, <1>8, <2>1, <3>3 DEF Total
  <2>2. CASE opt.m
    <3>1. \A g \in DOMAIN unread : DOMAIN unread[g] = {}
      BY <1>2, <2>2
    <3>2. Times(x, unread) = 0
      BY <3>1, TimesNone
    <3>3. range[2] = 0
      BY <1>2, <2>2
    <3>4. Live = 0 .. eargc - 1
      BY <1>2, <3>3 DEF Live
    <3>5. ASSUME NEW g \in 1 .. eargc PROVE g \in 0 .. M + 1 /\ FileTexts[g] = input[g]
      <4>1. g \in 0 .. M + 1 /\ g - 1 \in 0 .. eargc - 1 /\ (g - 1) + 1 = g
        BY <1>2, <1>5
      <4> HIDE DEF M
      <4>2. disk[g - 1] = input[g]
        BY <1>2, <4>1
      <4> QED BY <1>3, <1>6, <3>4, <4>1, <4>2 DEF FileText
    <3>6. ASSUME NEW g \in 0 .. M + 1, g \notin 1 .. eargc PROVE DOMAIN FileTexts[g] = {}
      <4>1. g - 1 \notin 0 .. eargc - 1
        BY <1>2, <3>6
      <4>2. FileTexts[g] = << >>
        BY <1>3, <1>6, <3>4, <4>1 DEF FileText
      <4> QED BY <4>2
    <3>7. Times(x, FileTexts) = Times(x, input)
      BY <1>5, <1>6, <3>5, <3>6, TimesSame
    <3> QED BY <1>7, <1>8, <3>2, <3>7 DEF Total
  <2> QED BY <2>1, <2>2
<1>10. LinesRight
  BY <1>9 DEF LinesRight, LinesKept
<1> QED BY <1>4, <1>10

-----------------------------------------------------------------------------
(***************************************************************************)
(* The order of the lines.                                                 *)
(***************************************************************************)
LEMMA PrecedesFacts ==
  ASSUME NEW st, NEW u \in BOOLEAN, NEW x \in Lines, NEW y \in Lines
  PROVE  /\ \A z \in Lines : Precedes(st, u, x, y) /\ Precedes(st, u, y, z) => Precedes(st, u, x, z)
         /\ Cmp(u, x, y) > 0 => Precedes(st, u, x, y)
         /\ Precedes(st, u, x, y) => Cmp(u, x, y) >= 0
         /\ ~st /\ Cmp(u, y, x) <= 0 => Precedes(st, u, x, y)
         /\ Cmp(u, y, x) < 0 => Precedes(st, u, x, y)
         /\ Cmp(u, x, y) \in Int /\ Cmp(u, x, y) = -Cmp(u, y, x) /\ Cmp(u, y, x) \in Int
<1>1. Cmp(u, x, y) \in Int /\ Cmp(u, x, y) = -Cmp(u, y, x) /\ Cmp(u, y, x) \in Int
  BY CmpOrder
<1>2. ASSUME NEW z \in Lines, Precedes(st, u, x, y), Precedes(st, u, y, z) PROVE Precedes(st, u, x, z)
  <2>1. Cmp(u, y, z) \in Int
    BY CmpOrder
  <2>2. CASE st
    <3>1. Cmp(u, x, y) > 0 /\ Cmp(u, y, z) > 0
      BY <1>2, <2>2 DEF Precedes
    <3>2. Cmp(u, y, z) >= 0
      BY <2>1, <3>1
    <3>3. Cmp(u, x, z) > 0
      BY <3>1, <3>2, CmpOrder
    <3> QED BY <2>2, <3>3 DEF Precedes
  <2>3. CASE ~st
    <3>1. Cmp(u, x, y) >= 0 /\ Cmp(u, y, z) >= 0
      BY <1>2, <2>3 DEF Precedes
    <3>2. Cmp(u, x, z) >= 0
      BY <3>1, CmpOrder
    <3> QED BY <2>3, <3>2 DEF Precedes
  <2> QED BY <2>2, <2>3
<1> QED BY <1>1, <1>2 DEF Precedes

LEMMA RisingTail ==
  ASSUME NEW st, NEW u \in BOOLEAN, NEW y, NEW s, NEW t, Added(Lines, y, s, t), Rising(st, u, t)
  PROVE  Rising(st, u, s) /\ (s # << >> => Precedes(st, u, y, s[1]) /\ s[1] \in Lines)
<1> DEFINE n == Len(s)
           B(i) == Precedes(st, u, t[i], t[i + 1])
<1>1. /\ s \in Seq(Lines) /\ Len(t) = n + 1 /\ t[1] = y /\ \A i \in 1 .. n : t[i + 1] = s[i]
      /\ n \in Nat
  BY LenProperties DEF Added
<1>2. \A i \in 1 .. Len(t) - 1 : B(i)
  BY DEF Rising, Asc, Uniq, Precedes
<1>3. \A i \in 1 .. n : B(i)
  BY <1>1, <1>2
<1>4. ASSUME NEW i \in 1 .. n - 1 PROVE Precedes(st, u, s[i], s[i + 1])
  <2>1. i + 1 \in 1 .. n /\ i \in 1 .. n /\ (i + 1) + 1 \in Int
    BY <1>1
  <2>2. t[i + 1] = s[i] /\ t[(i + 1) + 1] = s[i + 1] /\ B(i + 1)
    BY <1>1, <1>3, <2>1
  <2> QED BY <2>2
<1>5. Rising(st, u, s)
  BY <1>4 DEF Rising, Asc, Uniq, Precedes
<1>6. ASSUME s # << >> PROVE Precedes(st, u, y, s[1]) /\ s[1] \in Lines
  <2>1. n # 0 /\ 1 \in 1 .. n
    BY <1>1, <1>6, EmptySeq
  <2>2. t[1 + 1] = s[1] /\ B(1)
    BY <1>1, <1>3, <2>1
  <2> QED BY <1>1, <2>1, <2>2, ElementOfSeq
<1> QED BY <1>5, <1>6

LEMMA RisingAppend ==
  ASSUME NEW st, NEW u \in BOOLEAN, NEW s \in Seq(Lines), NEW y \in Lines, Rising(st, u, s),
         s # << >> => Precedes(st, u, Last(s), y)
  PROVE  Rising(st, u, Append(s, y)) /\ Append(s, y) # << >> /\ Last(Append(s, y)) = y
<1> DEFINE n == Len(s)
           t == Append(s, y)
<1>1. n \in Nat /\ t \in Seq(Lines) /\ Len(t) = n + 1 /\ t[n + 1] = y /\ \A i \in 1 .. n : t[i] = s[i]
  OBVIOUS
<1>2. ASSUME NEW i \in 1 .. n PROVE Precedes(st, u, t[i], t[i + 1])
  <2>1. CASE i = n
    <3>1. s # << >> /\ n \in 1 .. n
      BY <1>1, <2>1
    <3>2. Last(s) = s[n]
      BY DEF Last
    <3>3. t[n] = Last(s)
      BY <1>1, <3>1, <3>2
    <3> QED BY <1>1, <2>1, <3>1, <3>3
  <2>2. CASE i # n
    <3>1. i \in 1 .. n - 1 /\ i + 1 \in 1 .. n
      BY <1>1, <2>2
    <3>2. Precedes(st, u, s[i], s[i + 1])
      BY <3>1 DEF Rising, Asc, Uniq, Precedes
    <3> QED BY <1>1, <1>2, <3>1, <3>2
  <2> QED BY <2>1, <2>2
<1>3. Len(t) - 1 = n /\ t # << >>
  BY <1>1
<1> HIDE DEF t
<1>4. Rising(st, u, t)
  BY <1>2, <1>3 DEF Rising, Asc, Uniq, Precedes
<1>5. Last(t) = y
  BY <1>1 DEF Last
<1> QED BY <1>3, <1>4, <1>5 DEF t

LEMMA RisingEmpty == \A st, u : Rising(st, u, << >>)
BY DEF Rising, Asc, Uniq

LEMMA RisingWeaker ==
  ASSUME NEW st, NEW u \in BOOLEAN, NEW s \in Seq(Lines), Rising(st, u, s), NEW weaker, weaker => st
  PROVE  Rising(weaker, u, s)
<1> DEFINE n == Len(s)
<1>1. n \in Nat /\ \A i \in 1 .. n : s[i] \in Lines
  BY LenProperties, ElementOfSeq
<1>2. ASSUME NEW i \in 1 .. n - 1, Cmp(u, s[i], s[i + 1]) > 0 PROVE Cmp(u, s[i], s[i + 1]) >= 0
  <2>1. s[i] \in Lines /\ s[i + 1] \in Lines
    BY <1>1
  <2>2. Cmp(u, s[i], s[i + 1]) \in Int
    BY <2>1, CmpOrder
  <2> QED BY <1>2, <2>2
<1> QED BY <1>2 DEF Rising, Asc, Uniq

\* The files stay as they are.
LEMMA OrderQuiet ==
  ASSUME TextsRight, UNCHANGED <<opt, eargc, nfiles, range>>, Live' \subseteq Live,
         \A f \in Live : disk'[f] = disk[f], ~Merging', pc' # "next", pc' # "put", pc' \notin {"line", "check"}
  PROVE  TextsRight' /\ WrittenRight'
<1>1. ASSUME NEW f \in Live' PROVE Rising(Single(f)', opt'.u, disk'[f])
  <2>1. f \in Live /\ (Single(f)' <=> Single(f)) /\ disk'[f] = disk[f] /\ opt' = opt
    BY <1>1 DEF Single
  <2>2. Rising(Single(f), opt.u, disk[f])
    BY <2>1 DEF TextsRight
  <2> QED BY <2>1, <2>2 DEF Rising
<1>2. WrittenRight'
  BY DEF WrittenRight
<1> QED BY <1>1, <1>2 DEF TextsRight

\* sort() reads and sorts.
LEMMA OrderRead ==
  ASSUME Base, TextsRight, ReadLine \/ ReadOn \/ ReadAll \/ PutAll
                           \/ (SortPhase /\ (QusortBegin \/ QusortLoop \/ QusortParted \/ QusortReturn))
  PROVE  TextsRight' /\ WrittenRight'
<1> USE DEF setup, reading, qstate, streams, flags
<1>1. pc \in {"read", "put", "qusort"} /\ UNCHANGED <<opt, eargc, nfiles, range, disk, caller>> /\ SortPhase
  BY DEF ReadLine, ReadOn, ReadAll, PutAll, QusortBegin, QusortLoop, QusortParted, QusortReturn, SortPhase
<1>2. caller = "sort" /\ pc # "exit"
  BY <1>1, Phases
<1>3. pc' \in {"read", "qusort", "store"} \/ (pc = "put" /\ pc' = "plan")
  BY <1>1, <1>2 DEF ReadLine, ReadOn, ReadAll, Sort, PutAll, QusortBegin, QusortLoop, QusortParted, QusortReturn
<1>4. Live' \subseteq Live
  BY <1>1, <1>2, <1>3 DEF Live, SortPhase, Output
<1>5. ~Merging'
  BY <1>1, <1>2, <1>3 DEF Merging
<1> QED BY <1>1, <1>3, <1>4, <1>5, OrderQuiet

\* A run is begun.
LEMMA OrderStored ==
  ASSUME Base, TextsRight, StoreChunk
  PROVE  TextsRight' /\ WrittenRight'
<1> USE DEF setup, reading, qstate, streams, flags
<1>1. /\ pc = "store" /\ pc' = "put" /\ UNCHANGED <<opt, eargc, range, text, ibuf>> /\ SortPhase /\ SortPhase'
      /\ ~Merging' /\ pc # "exit"
  BY DEF StoreChunk, SortPhase, Merging
<1> DEFINE f == IF Direct THEN Output ELSE nfiles
<1>2. os' = f /\ disk' = [disk EXCEPT ![f] = << >>] /\ nfiles' = (IF Direct THEN nfiles ELSE nfiles + 1)
  BY DEF StoreChunk
<1>3. /\ eargc \in Nat /\ nfiles \in Nat /\ nfiles >= eargc /\ nfiles <= eargc + MaxTemp /\ Output \in {Stdout, 0}
      /\ Stdout = -1 /\ range[2] \in Nat /\ MaxTemp \in Nat
  BY <1>1, RangeFacts
<1>4. range[2] = eargc
  <2>1. range = <<eargc, eargc>>
    BY <1>1 DEF Base, RangeRight
  <2> QED BY <2>1
<1>5. ~Direct => NewfileWorks
  BY DEF StoreChunk
<1>6. f \in Files(eargc) /\ DOMAIN disk = Files(eargc)
  BY <1>3, <1>5, FileNames DEF Base, NewfileWorks, Files
<1>7. disk'[f] = << >> /\ \A g \in Files(eargc) : g # f => disk'[g] = disk[g]
  BY <1>2, <1>6
<1>8. WrittenRight'
  BY <1>1, <1>2, <1>7 DEF WrittenRight
<1>9. ASSUME NEW g \in Live', g # f
      PROVE  g \in Live /\ (Single(g)' <=> Single(g))
  <2>1. ~Direct
    <3>1. ASSUME Direct PROVE FALSE
      <4>1. nfiles = eargc
        BY <3>1 DEF Direct
      <4>2. ~(range'[2] < nfiles') /\ Output' = Output
        BY <1>1, <1>2, <1>3, <1>4, <3>1, <4>1 DEF Output
      <4>3. Live' = {Output'}
        BY <1>1, <4>2 DEF Live
      <4> QED BY <1>9, <3>1, <4>2, <4>3
    <3> QED BY <3>1
  <2>2. nfiles' = nfiles + 1 /\ f = nfiles
    BY <1>2, <2>1
  <2>3. g \in eargc .. nfiles /\ g # nfiles
    BY <1>1, <1>3, <1>4, <1>9, <2>2 DEF Live
  <2>4. g \in eargc .. nfiles - 1 /\ eargc < nfiles
    BY <1>3, <2>3
  <2>5. g \notin 0 .. eargc - 1
    BY <1>3, <2>4
  <2> QED BY <1>1, <1>4, <2>4, <2>5 DEF Live, Single
<1>10. ASSUME NEW g \in Live' PROVE Rising(Single(g)', opt'.u, disk'[g])
  <2>1. CASE g = f
    BY <1>7, <2>1, RisingEmpty
  <2>2. CASE g # f
    <3>1. g \in Live /\ (Single(g)' <=> Single(g)) /\ opt' = opt
      BY <1>1, <1>9, <2>2
    <3>2. g \in Files(eargc)
      BY <1>1, <3>1, LiveFiles
    <3>3. Rising(Single(g), opt.u, disk[g])
      BY <3>1 DEF TextsRight
    <3> QED BY <1>7, <2>2, <3>1, <3>2, <3>3 DEF Rising
  <2> QED BY <2>1, <2>2
<1> QED BY <1>1, <1>8, <1>10 DEF TextsRight

\* A line is added at the end of the file written.
LEMMA OrderWritten ==
  ASSUME Base, TextsRight, pc # "exit", UNCHANGED <<opt, eargc, nfiles, range>>, Live' = Live, os \in Live, NEW y \in Lines,
         disk'[os] = Append(disk[os], y), \A f \in Files(eargc) : f # os => disk'[f] = disk[f],
         disk[os] # << >> => Precedes(Single(os), opt.u, Last(disk[os]), y)
  PROVE  \A f \in Live' : Rising(Single(f)', opt'.u, disk'[f])
<1>1. disk[os] \in Seq(Lines) /\ opt.u \in BOOLEAN
  BY OptFields DEF Base, FilesRight
<1>2. ASSUME NEW f \in Live' PROVE Rising(Single(f)', opt'.u, disk'[f])
  <2>1. f \in Live /\ (Single(f)' <=> Single(f)) /\ opt' = opt
    BY DEF Single
  <2>2. f \in Files(eargc) /\ Rising(Single(f), opt.u, disk[f])
    BY <2>1, LiveFiles DEF TextsRight
  <2>3. CASE f = os
    <3>1. Rising(Single(os), opt.u, disk[os])
      BY DEF TextsRight
    <3>2. Rising(Single(os), opt.u, Append(disk[os], y))
      BY <1>1, <3>1, RisingAppend
    <3> QED BY <2>1, <2>3, <3>2 DEF Rising
  <2>4. CASE f # os
    BY <2>1, <2>2, <2>4 DEF Rising
  <2> QED BY <2>3, <2>4
<1> QED BY <1>2

LEMMA OrderPut ==
  ASSUME Base, TextsRight, WrittenRight, PutLine
  PROVE  TextsRight' /\ WrittenRight'
<1> USE DEF setup, reading, qstate, streams, flags
<1> DEFINE y == text[Last(ibuf)]
           n == Len(ibuf)
<1>1. /\ pc = "put" /\ pc' = "put" /\ pc # "exit" /\ ibuf # << >> /\ ibuf' = Front(ibuf) /\ ~Merging'
      /\ UNCHANGED <<opt, eargc, nfiles, range, text, os>>
      /\ disk' = IF y = NoLine THEN disk ELSE [disk EXCEPT ![os] = Append(@, y)]
  BY DEF PutLine, Merging
<1>2. os \in Live /\ os \in Files(eargc) /\ Last(ibuf) \in Using /\ y \in Cells /\ range[2] = eargc
  BY <1>1, PutFacts
<1>3. Live' = Live /\ disk[os] \in Seq(Lines) /\ opt.u \in BOOLEAN /\ DOMAIN disk = Files(eargc)
  <2>1. Live' = Live
    BY <1>1 DEF Live, SortPhase, Output
  <2> QED BY <1>1, <1>2, <2>1, OptFields, FileNames DEF Base, FilesRight
<1>4. ibuf \in Seq(Nat) /\ Distinct(ibuf) /\ Descending(opt.u, text, ibuf)
  BY <1>1 DEF Base, SortTypes, StreamsRight, PointersRight
<1>5. Using' = Using \ {Last(ibuf)}
  BY <1>1, <1>4, FrontElements, UsingIs
<1>6. ASSUME NEW p \in Using', text[p] # NoLine, y # NoLine
      PROVE  Precedes(opt.u, opt.u, y, text[p]) /\ text[p] \in Lines /\ y \in Lines
  <2>1. n \in Nat \ {0} /\ DOMAIN ibuf = 1 .. n /\ Last(ibuf) = ibuf[n]
    BY <1>1, <1>4, FrontLast
  <2>2. PICK k \in 1 .. n : p = ibuf[k] /\ k # n
    BY <1>5, <2>1 DEF Using
  <2> HIDE DEF n
  <2>3. n \in 1 .. n /\ k < n
    BY <2>1, <2>2
  <2>4. InOrder(opt.u, text[p], y)
    BY <1>4, <2>1, <2>2, <2>3 DEF Descending
  <2>5. text[p] \in Lines /\ y \in Lines
    <3>1. Using \subseteq 1 .. Len(text) /\ text \in Seq(Cells)
      BY <1>1, Phases DEF Base, StreamsRight, SortTypes, SortPhase
    <3>2. text[p] \in Cells
      BY <1>5, <3>1, ElementOfSeq
    <3> QED BY <1>2, <1>6, <3>2, Numbers
  <2> HIDE DEF y
  <2>6. Cmp(opt.u, text[p], y) < 0 \/ (~opt.u /\ Cmp(opt.u, text[p], y) = 0)
    BY <1>6, <2>4 DEF InOrder
  <2> QED BY <1>3, <2>5, <2>6, PrecedesFacts
<1>7. CASE y = NoLine
  <2>1. disk' = disk
    BY <1>1, <1>7
  <2>2. \A f \in Live' : Rising(Single(f)', opt'.u, disk'[f])
    BY <1>1, <1>3, <2>1 DEF TextsRight, Single, Rising
  <2>3. WrittenRight'
    BY <1>1, <1>5, <2>1 DEF WrittenRight, Precedes
  <2> QED BY <1>1, <2>2, <2>3 DEF TextsRight
<1>8. CASE y # NoLine
  <2>1. y \in Lines
    BY <1>2, <1>8, Numbers
  <2>2. disk'[os] = Append(disk[os], y) /\ \A f \in Files(eargc) : f # os => disk'[f] = disk[f]
    BY <1>1, <1>2, <1>3, <1>8
  <2>3. disk[os] # << >> => Precedes(Single(os), opt.u, Last(disk[os]), y)
    <3>1. ASSUME disk[os] # << >> PROVE Precedes(Single(os), opt.u, Last(disk[os]), y)
      <4>1. Precedes(opt.u, opt.u, Last(disk[os]), y)
        BY <1>1, <1>2, <1>8, <3>1 DEF WrittenRight
      <4>2. Last(disk[os]) \in Lines
        BY <1>3, <3>1, FrontLast
      <4>3. Cmp(opt.u, Last(disk[os]), y) > 0 \/ (~opt.u /\ Cmp(opt.u, Last(disk[os]), y) >= 0)
        BY <4>1 DEF Precedes
      <4> HIDE DEF y
      <4>4. Cmp(opt.u, Last(disk[os]), y) >= 0
        BY <1>3, <2>1, <4>2, <4>1, PrecedesFacts
      <4> QED BY <4>3, <4>4 DEF Precedes, Single
    <3> QED BY <3>1
  <2> HIDE DEF y
  <2>4. \A f \in Live' : Rising(Single(f)', opt'.u, disk'[f])
    BY <1>1, <1>2, <1>3, <2>1, <2>2, <2>3, OrderWritten
  <2>5. Last(disk'[os]) = y
    <3>1. Rising(FALSE, opt.u, << >>)
      BY RisingEmpty
    <3>2. Len(Append(disk[os], y)) = Len(disk[os]) + 1 /\ Append(disk[os], y)[Len(disk[os]) + 1] = y
      BY <1>3, <2>1
    <3> QED BY <2>2, <3>2 DEF Last
  <2>6. WrittenRight'
    BY <1>1, <1>6, <1>8, <2>5 DEF WrittenRight, Precedes
  <2> QED BY <1>1, <2>4, <2>6 DEF TextsRight
<1> QED BY <1>7, <1>8

\* A merge begins.
LEMMA OrderBegun ==
  ASSUME Base, ~opt.c, TextsRight, PlanRun \/ PlanOutput
  PROVE  TextsRight' /\ WrittenRight'
<1>1. PICK b \in Nat, f \in Int : MergeBegins(range[2], b, f)
  BY PlanBegins
<1>2. pc = "plan" /\ pc # "exit"
  BY <1>1 DEF MergeBegins
<1>3. PICK a \in Nat : a = range[2] /\ MergeBegins(a, b, f)
  BY <1>1, <1>2, RangeFacts
<1>4. /\ Prev' = b - a /\ Live = a .. nfiles - 1 /\ (\A g \in Live' : g = f \/ g \in Live)
      /\ disk'[f] = << >> /\ \A g \in Files(eargc) : g # f => disk'[g] = disk[g]
      /\ \A p \in 0 .. b - a - 1 : Pending(p)' = disk[a + p] /\ a + p \in a .. b - 1
      /\ \A g \in a .. b - 1 : g \in Live
  BY <1>3, BeginFacts
<1>5. /\ range[1] \in Nat /\ range[2] \in Nat /\ range[1] <= range[2] /\ eargc \in Nat /\ nfiles \in Nat /\ eargc >= 1
  BY <1>2, RangeFacts
<1>6. /\ pc' = "open" /\ UNCHANGED <<opt, eargc>> /\ range' = <<a, b>> /\ b <= nfiles
      /\ f # nfiles => b = nfiles /\ nfiles' = nfiles /\ f = Output
      /\ f = nfiles => nfiles' = nfiles + 1
  BY <1>3 DEF MergeBegins
<1>7. opt.u \in BOOLEAN /\ opt.m \in BOOLEAN
  BY OptFields DEF Base
<1>8. range'[2] = b /\ range'[1] = a
  BY <1>3, <1>6, SpanFields
<1>9. ASSUME NEW g \in Live', g # f PROVE g \in Live /\ (Single(g)' => Single(g))
  <2>1. g \in Live
    BY <1>4, <1>9
  <2>2. f = nfiles
    <3>1. ASSUME f # nfiles PROVE FALSE
      <4>1. ~(range'[2] < nfiles') /\ Output' = Output /\ f = Output
        BY <1>5, <1>6, <1>8, <3>1 DEF Output
      <4>2. g = f
        BY <1>9, <4>1 DEF Live
      <4> QED BY <1>9, <4>2
    <3> QED BY <3>1
  <2>3. range'[2] # nfiles'
    BY <1>3, <1>5, <1>6, <1>8, <2>2
  <2> QED BY <1>6, <2>1, <2>3 DEF Single
<1>10. \A g \in Live : g \in Files(eargc) /\ Rising(Single(g), opt.u, disk[g]) /\ disk[g] \in Seq(Lines)
  BY <1>2, LiveFiles DEF TextsRight, Base, FilesRight
<1>11. ASSUME NEW g \in Live' PROVE Rising(Single(g)', opt'.u, disk'[g])
  <2>1. CASE g = f
    BY <1>4, <2>1, RisingEmpty
  <2>2. CASE g # f
    <3>1. g \in Live /\ (Single(g)' => Single(g)) /\ disk'[g] = disk[g]
      BY <1>4, <1>9, <1>10, <2>2
    <3>2. Rising(Single(g)', opt.u, disk[g])
      BY <1>7, <1>10, <3>1, RisingWeaker
    <3> QED BY <1>6, <3>1, <3>2
  <2> QED BY <2>1, <2>2
<1>12. ASSUME NEW p \in 0 .. b - a - 1 PROVE Rising(Strictly', opt'.u, Pending(p)')
  <2>1. Pending(p)' = disk[a + p] /\ a + p \in a .. b - 1 /\ a + p \in Live
    BY <1>4
  <2>2. Strictly => Single(a + p)
    <3>1. ASSUME Strictly PROVE Single(a + p)
      <4>1. opt.u /\ range[1] >= eargc
        BY <1>2, <3>1 DEF Strictly, Base, RangeRight
      <4>2. a + p \notin 0 .. eargc - 1
        BY <1>3, <1>5, <2>1, <4>1
      <4> QED BY <4>1, <4>2 DEF Single
    <3> QED BY <3>1
  <2>3. Rising(Strictly, opt.u, disk[a + p])
    BY <1>7, <1>10, <2>1, <2>2, RisingWeaker
  <2> QED BY <1>6, <2>1, <2>3 DEF Strictly, Rising
<1>13. WrittenRight'
  BY <1>6 DEF WrittenRight
<1> QED BY <1>4, <1>6, <1>11, <1>12, <1>13 DEF TextsRight

\* The first line of a stream in use.
LEMMA FirstPending ==
  ASSUME Base, InLine, NEW p \in 0 .. Prev - 1
  PROVE  /\ Pending(p) \in Seq(Lines)
         /\ pc # "next" \/ p # Last(ibuf) =>
              /\ Pending(p) # << >> <=> p \in Using
              /\ p \in Using => Pending(p)[1] = mem[p] /\ mem[p] \in Lines
<1>1. Merging /\ pc # "open"
  BY LineFacts DEF InLine
<1>2. Pending(p) \in Seq(Lines)
  BY <1>1, PendingLines
<1>3. ASSUME p \notin Using PROVE Pending(p) = << >>
  BY <1>1, <1>3 DEF Pending
<1>4. ASSUME p \in Using, pc # "next" \/ p # Last(ibuf)
      PROVE  Pending(p) # << >> /\ Pending(p)[1] = mem[p] /\ mem[p] \in Lines
  <2>1. mem[p] # NoLine
    BY <1>4 DEF Base, StreamsRight, InLine
  <2>2. Added(Lines, mem[p], rest[p], Pending(p)) /\ mem[p] \in Lines
    BY <1>1, <1>4, <2>1, PendingIs
  <2>3. Len(Pending(p)) = Len(rest[p]) + 1 /\ Len(rest[p]) \in Nat /\ Pending(p)[1] = mem[p]
    BY <2>2, LenProperties DEF Added
  <2>4. Pending(p) # << >>
    BY <2>3
  <2> QED BY <2>2, <2>3, <2>4
<1> QED BY <1>2, <1>3, <1>4

\* The streams move on, and nothing is taken from them.
LEMMA OrderStream ==
  ASSUME Base, Base', ~opt.c, FlagsRight, TextsRight, WrittenRight, StreamStep
  PROVE  TextsRight' /\ WrittenRight'
<1> USE DEF setup, reading, qstate, streams, flags
<1>1. /\ Merging /\ Merging' /\ pc # "exit" /\ UNCHANGED <<opt, eargc, nfiles, range, disk, os, fresh>> /\ Live' = Live /\ Prev' = Prev
  BY StreamStepQuiet
<1>2. \A p \in 0 .. Prev - 1 : Pending(p)' = Pending(p)
  BY PendingKept
<1>3. pc' # "next" /\ pc' # "put"
  BY <1>1, Phases DEF StreamStep, OpenFile, OpenedAll, Sort, DropVoid, SortAgain, NoneDropped, StreamEnds, StreamReads,
        QusortBegin, QusortLoop, QusortReturn, Merging
<1>4. \A f \in Live' : Rising(Single(f)', opt'.u, disk'[f])
  BY <1>1 DEF TextsRight, Single, Rising
<1>5. \A p \in 0 .. Prev - 1 : Rising(Strictly', opt'.u, Pending(p)')
  BY <1>1, <1>2 DEF TextsRight, Strictly, Rising
<1>6. ASSUME pc' \in {"line", "check"} PROVE InLine \/ disk[os] = << >>
  <2>1. pc \in {"line", "next", "check"} \/ Early
    <3>1. pc # "close"
      BY <1>6 DEF StreamStep, OpenFile, OpenedAll, Sort, DropVoid, SortAgain, NoneDropped, StreamEnds, StreamReads,
        QusortBegin, QusortLoop, QusortReturn, NextLine
    <3> QED BY <1>1, <3>1 DEF Early
  <2> QED BY <2>1 DEF InLine, Early, FlagsRight
<1>7. ASSUME pc' \in {"line", "check"}, disk'[os'] # << >>, NEW p \in 0 .. Prev - 1, Pending(p)' # << >>
      PROVE  Precedes(Strictly', opt'.u, Last(disk'[os']), Pending(p)'[1])
  <2>1. InLine /\ disk[os] # << >>
    BY <1>1, <1>6, <1>7
  <2>2. Pending(p) # << >> /\ Pending(p)' = Pending(p)
    BY <1>2, <1>7
  <2>3. Precedes(Strictly, opt.u, Last(disk[os]), Pending(p)[1])
    BY <2>1, <2>2 DEF WrittenRight, Before, InLine
  <2> QED BY <1>1, <2>2, <2>3 DEF Strictly, Precedes
<1>8. ASSUME pc' = "line", opt.u, disk[os] # << >> PROVE Cmp(opt.u, Last(disk[os]), mem'[Last(ibuf')]) > 0
  <2> DEFINE z == Last(disk[os])
             x == mem[Last(ibuf)]
  <2>1. InLine
    BY <1>6, <1>8
  <2>2. NextLine /\ pc = "check" /\ mem' = mem /\ ibuf' = ibuf /\ ~SameAsLast
    <3>1. NextLine
      BY <1>8, <2>1 DEF StreamStep, OpenFile, OpenedAll, Sort, DropVoid, SortAgain, NoneDropped, StreamEnds, StreamReads,
        QusortBegin, QusortLoop, QusortReturn, InLine
    <3> QED BY <1>8, <3>1 DEF NextLine
  <2>3. Last(ibuf) \in 0 .. Prev - 1 /\ x \in Lines /\ Last(ibuf) \in Using
    BY <2>1, LineFacts, StreamFacts
  <2>4. Pending(Last(ibuf)) # << >> /\ Pending(Last(ibuf))[1] = x
    BY <2>1, <2>2, <2>3, FirstPending
  <2>5. Precedes(Strictly, opt.u, z, x)
    BY <1>8, <2>2, <2>3, <2>4 DEF WrittenRight, Before
  <2>6. z \in Lines
    <3>1. disk[os] \in Seq(Lines)
      BY <1>1, OutputLive DEF Base, FilesRight
    <3> QED BY <1>8, <3>1, FrontLast
  <2>7. opt.u \in BOOLEAN
    BY OptFields DEF Base
  <2>8. CASE ~opt.m
    BY <1>8, <2>2, <2>5, <2>8 DEF Strictly, Precedes
  <2>9. CASE opt.m
    <3>1. muflg /\ fresh /\ mem[Prev] = z
      BY <1>8, <2>2, <2>9 DEF FlagsRight
    <3>2. Compare(x, z) # 0
      BY <2>2, <2>6, <3>1, Numbers DEF SameAsLast
    <3> HIDE DEF x, z
    <3>3. Cmp(opt.u, x, z) # 0
      BY <3>2, CompareIs
    <3>4. x \in Lines /\ z \in Lines /\ Precedes(Strictly, opt.u, z, x)
      BY <2>3, <2>5, <2>6
    <3>7. Cmp(opt.u, z, x) = -Cmp(opt.u, x, z) /\ Cmp(opt.u, x, z) \in Int /\ Cmp(opt.u, z, x) \in Int
      BY <2>7, <3>4, CmpOrder
    <3>8. Cmp(opt.u, z, x) > 0 \/ Cmp(opt.u, z, x) >= 0
      BY <3>4 DEF Precedes
    <3>6. Cmp(opt.u, z, x) >= 0
      BY <3>7, <3>8
    <3>5. Cmp(opt.u, z, x) > 0
      BY <3>3, <3>6, <3>7
    <3> QED BY <2>2, <3>5 DEF x, z
  <2> QED BY <2>8, <2>9
<1>9. WrittenRight'
  BY <1>1, <1>3, <1>7, <1>8 DEF WrittenRight, Before
<1> QED BY <1>1, <1>3, <1>4, <1>5, <1>9 DEF TextsRight

\* qusort voids lines of the streams.
LEMMA OrderParted ==
  ASSUME Base, TextsRight, QusortParted, Merging
  PROVE  TextsRight' /\ WrittenRight'
<1>1. /\ pc' = "qusort" /\ pc # "exit" /\ Merging' /\ UNCHANGED <<opt, eargc, nfiles, range, disk>> /\ Live' = Live /\ Prev' = Prev
  BY PartedQuiet
<1>2. \A f \in Live' : Rising(Single(f)', opt'.u, disk'[f])
  BY <1>1 DEF TextsRight, Single, Rising
<1>3. opt.u \in BOOLEAN
  BY OptFields DEF Base
<1>4. ASSUME NEW p \in 0 .. Prev - 1 PROVE Rising(Strictly', opt'.u, Pending(p)')
  <2>1. Rising(Strictly, opt.u, Pending(p))
    BY DEF TextsRight
  <2>2. Rising(Strictly, opt.u, Pending(p)')
    BY <1>3, <2>1, PendingParted, RisingTail
  <2> QED BY <1>1, <2>2 DEF Strictly, Rising
<1>5. WrittenRight'
  BY <1>1 DEF WrittenRight
<1> QED BY <1>1, <1>2, <1>4, <1>5 DEF TextsRight

\* A merge ends.
LEMMA OrderClosed ==
  ASSUME Base, TextsRight, MergeClose
  PROVE  TextsRight' /\ WrittenRight'
<1> USE DEF setup, reading, qstate, streams, flags
<1>1. pc' = "plan" /\ UNCHANGED <<opt, eargc, nfiles, range>>
  BY DEF MergeClose
<1>2. Live' = Live /\ \A f \in Live : disk'[f] = disk[f]
  BY CloseTexts
<1>3. ~Merging'
  BY <1>1 DEF Merging
<1> QED BY <1>1, <1>2, <1>3, OrderQuiet

LEMMA PrecedesOn ==
  ASSUME NEW st, NEW u \in BOOLEAN, NEW x \in Lines, NEW y \in Lines, NEW z \in Lines,
         Precedes(st, u, x, y), Precedes(st, u, y, z)
  PROVE  Precedes(st, u, x, z)
BY PrecedesFacts

\* The line of the last pointer is passed: what is left of the streams.
LEMMA PassedStreams ==
  ASSUME Base, LinePassed, TextsRight
  PROVE  /\ Prev' = Prev /\ \A p \in 0 .. Prev - 1 : Rising(Strictly', opt'.u, Pending(p)')
         /\ Rising(Strictly', opt'.u, <<mem'[Last(ibuf')]>> \o rest'[Last(ibuf')])
<1>1. /\ InLine /\ pc # "next" /\ pc' = "next" /\ Merging /\ opt' = opt /\ ibuf' = ibuf /\ rest' = rest
      /\ Prev' = Prev /\ \A p \in 0 .. Prev - 1 : mem'[p] = mem[p]
  BY DEF LinePassed, Prev
<1>2. opt.u \in BOOLEAN /\ Last(ibuf) \in 0 .. Prev - 1
  BY <1>1, OptFields, LineFacts DEF Base
<1>3. ASSUME NEW p \in 0 .. Prev - 1 PROVE Rising(Strictly', opt'.u, Pending(p)')
  <2>1. Rising(Strictly, opt.u, Pending(p))
    BY <1>1 DEF TextsRight
  <2>2. Pending(p)' = Pending(p) \/ Added(Lines, mem[p], Pending(p)', Pending(p))
    BY PendingPassed
  <2>3. Rising(Strictly, opt.u, Pending(p)')
    BY <1>2, <2>1, <2>2, RisingTail
  <2> QED BY <1>1, <2>3 DEF Strictly, Rising
<1>4. Rising(Strictly', opt'.u, <<mem'[Last(ibuf')]>> \o rest'[Last(ibuf')])
  <2>1. PICK q \in 0 .. Prev - 1 : q = Last(ibuf)
    BY <1>2
  <2>2. Rising(Strictly, opt.u, Pending(q)) /\ Pending(q) = <<mem[q]>> \o rest[q]
    BY <1>1, <2>1, PendingPassed DEF TextsRight
  <2>3. mem'[Last(ibuf')] = mem[q] /\ rest'[Last(ibuf')] = rest[q]
    BY <1>1, <2>1
  <2> QED BY <1>1, <2>2, <2>3 DEF Strictly, Rising
<1> QED BY <1>1, <1>3, <1>4

\* What comes before the line passed, or is that line, comes before what is left.
LEMMA PassedFollow ==
  ASSUME Base, LinePassed, TextsRight, NEW z \in Lines,
         z = mem[Last(ibuf)] \/ Precedes(Strictly, opt.u, z, mem[Last(ibuf)]),
         \A p \in Using : p # Last(ibuf) => Precedes(Strictly, opt.u, z, mem[p])
  PROVE  \A p \in 0 .. Prev - 1 : Pending(p)' # << >> => Precedes(Strictly', opt'.u, z, Pending(p)'[1])
<1>1. InLine /\ pc # "next" /\ Merging /\ opt' = opt
  BY DEF LinePassed
<1>2. opt.u \in BOOLEAN /\ Last(ibuf) \in 0 .. Prev - 1 /\ mem[Last(ibuf)] \in Lines
  BY <1>1, OptFields, LineFacts DEF Base
<1>3. ASSUME NEW p \in 0 .. Prev - 1, Pending(p)' # << >> PROVE Precedes(Strictly, opt.u, z, Pending(p)'[1])
  <2>1. CASE p # Last(ibuf)
    <3>1. Pending(p)' = Pending(p)
      BY <2>1, PendingPassed
    <3>2. p \in Using /\ Pending(p)[1] = mem[p]
      BY <1>1, <1>3, <3>1, FirstPending
    <3> QED BY <2>1, <3>1, <3>2
  <2>2. CASE p = Last(ibuf)
    <3>1. Added(Lines, mem[p], Pending(p)', Pending(p)) /\ mem[p] \in Lines
      BY <2>2, PendingPassed
    <3>2. Rising(Strictly, opt.u, Pending(p))
      BY <1>1 DEF TextsRight
    <3>3. PICK s \in Seq(Lines) : s = Pending(p)'
      BY <3>1 DEF Added
    <3>4. s # << >> => Precedes(Strictly, opt.u, mem[p], s[1]) /\ s[1] \in Lines
      BY <1>2, <3>1, <3>2, <3>3, RisingTail
    <3>5. Precedes(Strictly, opt.u, mem[p], s[1]) /\ s[1] \in Lines
      BY <1>3, <3>3, <3>4
    <3>6. CASE z = mem[p]
      BY <3>3, <3>5, <3>6
    <3>7. CASE Precedes(Strictly, opt.u, z, mem[p])
      BY <1>2, <3>1, <3>3, <3>5, <3>7, PrecedesOn
    <3> QED BY <2>2, <3>6, <3>7
  <2> QED BY <2>1, <2>2
<1> QED BY <1>1, <1>3 DEF Strictly, Precedes

\* What has been written comes before the lines in use.
LEMMA WrittenBefore ==
  ASSUME Base, WrittenRight, InLine, pc # "next", disk[os] # << >>
  PROVE  Last(disk[os]) \in Lines /\ \A p \in Using : Precedes(Strictly, opt.u, Last(disk[os]), mem[p])
<1>1. Merging /\ pc # "exit"
  BY LineFacts DEF InLine
<1>2. disk[os] \in Seq(Lines)
  BY <1>1, OutputLive DEF Base, FilesRight
<1>3. ASSUME NEW p \in Using PROVE Precedes(Strictly, opt.u, Last(disk[os]), mem[p])
  <2>1. p \in 0 .. Prev - 1
    BY <1>1, StreamFacts
  <2>2. Pending(p) # << >> /\ Pending(p)[1] = mem[p]
    BY <2>1, FirstPending
  <2> QED BY <2>1, <2>2 DEF WrittenRight, Before, InLine
<1> QED BY <1>2, <1>3, FrontLast

\* The smallest line comes before the other ones.
LEMMA SmallestFirst ==
  ASSUME Base, FlagsRight, pc = "line", ~Doubled, NEW p \in Using, p # Last(ibuf)
  PROVE  Precedes(Strictly, opt.u, mem[Last(ibuf)], mem[p])
<1> DEFINE n == Len(ibuf)
           x == mem[Last(ibuf)]
           y == mem[p]
           next == mem[ibuf[n - 1]]
           u == opt.u
<1>1. /\ ibuf # << >> /\ ibuf \in Seq(0 .. N) /\ x \in Lines /\ \A k \in 1 .. n : mem[ibuf[k]] \in Lines
      /\ \A k, l \in 1 .. n : k < l => Cmp(u, mem[ibuf[k]], mem[ibuf[l]]) <= 0
  BY LineFacts DEF InLine
<1>2. n \in Nat \ {0} /\ DOMAIN ibuf = 1 .. n /\ Last(ibuf) = ibuf[n]
  BY <1>1, FrontLast
<1>3. u \in BOOLEAN /\ (opt.u <=> u)
  BY OptFields DEF Base
<1>4. ASSUME Strictly PROVE n <= 1 \/ Cmp(u, x, next) # 0
  <2>1. muflg => n = 1
    BY <1>4 DEF Strictly, FlagsRight
  <2>2. ~muflg /\ n > 1 => Compare(x, next) # 0
    BY <1>4 DEF Strictly, Doubled
  <2> HIDE DEF n, x, next
  <2> QED BY <1>2, <2>1, <2>2, CompareIs
<1>5. PICK k \in 1 .. n : p = ibuf[k] /\ k # n
  BY <1>2 DEF Using
<1> HIDE DEF n, u
<1>6. k \in 1 .. n - 1 /\ n \in 1 .. n /\ n - 1 \in 1 .. n /\ n > 1 /\ k < n /\ n - 1 < n
  BY <1>2, <1>5
<1>7. y \in Lines /\ next \in Lines /\ Cmp(u, y, x) <= 0 /\ Cmp(u, next, x) <= 0
  BY <1>1, <1>2, <1>5, <1>6
<1>8. k # n - 1 => Cmp(u, y, next) <= 0
  BY <1>1, <1>5, <1>6
<1>9. k = n - 1 => y = next
  BY <1>5
<1> HIDE DEF x, y, next
<1>10. Cmp(u, x, y) = -Cmp(u, y, x) /\ Cmp(u, x, next) = -Cmp(u, next, x) /\ Cmp(u, next, y) = -Cmp(u, y, next)
       /\ Cmp(u, y, x) \in Int /\ Cmp(u, next, x) \in Int /\ Cmp(u, y, next) \in Int
       /\ Cmp(u, x, y) \in Int /\ Cmp(u, x, next) \in Int /\ Cmp(u, next, y) \in Int
  BY <1>1, <1>3, <1>7, CmpOrder
<1>11. CASE ~Strictly
  <2>1. Cmp(u, x, y) >= 0
    BY <1>7, <1>10
  <2> QED BY <1>11, <2>1 DEF Precedes, x, y, u
<1>12. CASE Strictly
  <2>1. Cmp(u, x, next) > 0
    BY <1>4, <1>6, <1>7, <1>10, <1>12
  <2>2. CASE k = n - 1
    BY <1>9, <1>12, <2>1, <2>2 DEF Precedes, x, y, u
  <2>3. CASE k # n - 1
    <3>1. Cmp(u, next, y) >= 0
      BY <1>8, <1>10, <2>3
    <3>2. Cmp(u, x, y) > 0
      BY <1>1, <1>3, <1>7, <2>1, <3>1, CmpOrder
    <3> QED BY <1>12, <3>2 DEF Precedes, x, y, u
  <2> QED BY <2>2, <2>3
<1> QED BY <1>11, <1>12

LEMMA OrderMerged ==
  ASSUME Base, ~opt.c, FlagsRight, TextsRight, WrittenRight, MergeLine
  PROVE  TextsRight' /\ WrittenRight'
<1> DEFINE x == mem[Last(ibuf)]
           z == Last(disk[os])
<1>1. /\ LinePassed /\ pc = "line" /\ pc' = "next" /\ Merging /\ Merging' /\ InLine /\ pc # "exit"
      /\ UNCHANGED <<opt, input, eargc, nfiles, range, os, ibuf, muflg>> /\ Live' = Live
      /\ os \in Live /\ os \in Files(eargc) /\ disk[os] \in Seq(Lines) /\ x \in Lines
      /\ Doubled => disk' = disk
      /\ ~Doubled => disk'[os] = Append(disk[os], x)
      /\ \A f \in Files(eargc) : f # os => disk'[f] = disk[f]
  BY LineWritten, LinePassedBy, Running
<1>2. /\ Prev' = Prev /\ \A p \in 0 .. Prev - 1 : Rising(Strictly', opt'.u, Pending(p)')
      /\ Rising(Strictly', opt'.u, <<mem'[Last(ibuf')]>> \o rest'[Last(ibuf')])
  BY <1>1, PassedStreams
<1>3. disk[os] # << >> => z \in Lines /\ \A p \in Using : Precedes(Strictly, opt.u, z, mem[p])
  BY <1>1, WrittenBefore
<1>4. Last(ibuf) \in Using /\ opt.u \in BOOLEAN
  BY <1>1, StreamFacts, LineFacts, OptFields DEF Base
<1>5. CASE Doubled
  <2>1. disk' = disk
    BY <1>1, <1>5
  <2>2. \A f \in Live' : Rising(Single(f)', opt'.u, disk'[f])
    BY <1>1, <2>1 DEF TextsRight, Single, Rising
  <2>3. ASSUME disk[os] # << >>
        PROVE  \A p \in 0 .. Prev - 1 : Pending(p)' # << >> => Precedes(Strictly', opt'.u, z, Pending(p)'[1])
    BY <1>1, <1>3, <1>4, <2>3, PassedFollow
  <2>4. WrittenRight'
    BY <1>1, <1>2, <2>1, <2>3 DEF WrittenRight, Before
  <2> QED BY <1>1, <1>2, <2>2, <2>4 DEF TextsRight
<1>6. CASE ~Doubled
  <2>1. disk'[os] = Append(disk[os], x)
    BY <1>1, <1>6
  <2>2. ASSUME disk[os] # << >> PROVE Precedes(Single(os), opt.u, z, x)
    <3>1. CASE opt.u
      <4>1. Cmp(opt.u, z, x) > 0
        BY <1>1, <2>2, <3>1 DEF WrittenRight
      <4> QED BY <1>1, <1>3, <1>4, <2>2, <4>1, PrecedesFacts
    <3>2. CASE ~opt.u
      <4>1. Precedes(Strictly, opt.u, z, x)
        BY <1>3, <1>4, <2>2
      <4> QED BY <3>2, <4>1 DEF Precedes, Strictly, Single
    <3> QED BY <3>1, <3>2
  <2>3. \A f \in Live' : Rising(Single(f)', opt'.u, disk'[f])
    BY <1>1, <2>1, <2>2, OrderWritten
  <2>4. \A p \in Using : p # Last(ibuf) => Precedes(Strictly, opt.u, x, mem[p])
    BY <1>1, <1>6, SmallestFirst
  <2>5. \A p \in 0 .. Prev - 1 : Pending(p)' # << >> => Precedes(Strictly', opt'.u, x, Pending(p)'[1])
    BY <1>1, <2>4, PassedFollow
  <2>6. Last(disk'[os']) = x
    <3> HIDE DEF x
    <3>1. Len(Append(disk[os], x)) = Len(disk[os]) + 1 /\ Append(disk[os], x)[Len(disk[os]) + 1] = x
      BY <1>1
    <3> QED BY <1>1, <2>1, <3>1 DEF Last
  <2>7. WrittenRight'
    BY <1>1, <1>2, <2>5, <2>6 DEF WrittenRight, Before
  <2> QED BY <1>1, <1>2, <2>3, <2>7 DEF TextsRight
<1> QED BY <1>5, <1>6

LEMMA OrderPassedOver ==
  ASSUME Base, ~opt.c, TextsRight, WrittenRight, NextLine, pc' = "next"
  PROVE  TextsRight' /\ WrittenRight'
<1> USE DEF setup, reading, qstate, streams, flags
<1> DEFINE z == Last(disk[os])
<1>1. /\ pc = "check" /\ InLine /\ UNCHANGED <<opt, disk, nfiles, range, os, eargc, caller>> /\ LinePassed
  BY LinePassedBy DEF NextLine, InLine
<1>2. Merging /\ Merging' /\ Live' = Live
  BY <1>1 DEF LinePassed, Live, SortPhase, Output, InLine
<1>3. /\ Prev' = Prev /\ \A p \in 0 .. Prev - 1 : Rising(Strictly', opt'.u, Pending(p)')
      /\ Rising(Strictly', opt'.u, <<mem'[Last(ibuf')]>> \o rest'[Last(ibuf')])
  BY <1>1, PassedStreams
<1>4. disk[os] # << >> => z \in Lines /\ \A p \in Using : Precedes(Strictly, opt.u, z, mem[p])
  BY <1>1, WrittenBefore
<1>5. Last(ibuf) \in Using
  BY <1>1, <1>2, StreamFacts, LineFacts
<1>6. \A f \in Live' : Rising(Single(f)', opt'.u, disk'[f])
  BY <1>1, <1>2 DEF TextsRight, Single, Rising
<1>7. ASSUME disk[os] # << >>
      PROVE  \A p \in 0 .. Prev - 1 : Pending(p)' # << >> => Precedes(Strictly', opt'.u, z, Pending(p)'[1])
  BY <1>1, <1>4, <1>5, <1>7, PassedFollow
<1>8. WrittenRight'
  BY <1>1, <1>3, <1>7 DEF WrittenRight, Before
<1> QED BY <1>2, <1>3, <1>6, <1>8 DEF TextsRight

\* Every step keeps the order.
LEMMA OrderKept ==
  ASSUME Base, Base', ~opt.c, FlagsRight, TextsRight, WrittenRight, SortNext, pc' # "exit", fault' # "silent"
  PROVE  TextsRight' /\ WrittenRight'
<1>0. pc # "exit"
  BY Running
<1>1. CASE ReadLine \/ ReadOn \/ ReadAll \/ PutAll
  BY <1>1, OrderRead
<1>2. CASE StoreChunk
  BY <1>2, OrderStored
<1>3. CASE PutLine
  BY <1>3, OrderPut
<1>4. CASE QusortBegin \/ QusortLoop \/ QusortParted \/ QusortReturn
  <2>1. SortPhase \/ Merging
    BY <1>0, <1>4, Phases DEF QusortBegin, QusortLoop, QusortParted, QusortReturn
  <2>2. CASE SortPhase
    BY <1>4, <2>2, OrderRead
  <2>3. CASE Merging
    <3>1. StreamStep \/ QusortParted
      BY <1>4, <2>3 DEF StreamStep
    <3> QED BY <2>3, <3>1, OrderStream, OrderParted
  <2> QED BY <2>1, <2>2, <2>3
<1>5. CASE PlanRun \/ PlanOutput
  BY <1>5, OrderBegun
<1>6. CASE OpenFile \/ OpenedAll \/ DropVoid \/ SortAgain \/ NoneDropped \/ StreamEnds \/ StreamReads
  <2>1. StreamStep
    BY <1>6 DEF StreamStep
  <2> QED BY <2>1, OrderStream
<1>7. CASE MergeLine
  BY <1>7, OrderMerged
<1>8. CASE NextLine
  <2>1. CASE pc' = "next"
    BY <1>8, <2>1, OrderPassedOver
  <2>2. CASE pc' # "next"
    <3>1. StreamStep
      BY <1>8, <2>2 DEF StreamStep, NextLine
    <3> QED BY <3>1, OrderStream
  <2> QED BY <2>1, <2>2
<1>9. CASE MergeClose
  BY <1>9, OrderClosed
<1>10. ~StoreChunkFails /\ ~PutLineFails /\ ~PlanFails /\ ~PlanDone /\ ~MergeLineFails /\ ~Disordered
       /\ ~CreateFails /\ ~ReadFails /\ ~PutAllCuts /\ ~MergeCloseCuts
  BY Stopped, FaultKept
<1> QED BY <1>1, <1>2, <1>3, <1>4, <1>5, <1>6, <1>7, <1>8, <1>9, <1>10 DEF SortNext

LEMMA OrderBegins ==
  ASSUME SortInit, Applies
  PROVE  TextsRight /\ WrittenRight
<1>1. /\ input \in Seq(Seq(Lines)) /\ Len(input) = eargc /\ eargc \in Nat \ {0} /\ nfiles = eargc
      /\ \A f \in 0 .. eargc - 1 : disk[f] = input[f + 1]
      /\ range = IF opt.m THEN <<0, 0>> ELSE <<eargc, eargc>>
      /\ pc = IF opt.m THEN "plan" ELSE "read"
  BY InitFacts DEF SortInit, Applies
<1>2. ~Merging /\ pc \notin {"next", "put", "line", "check"}
  BY <1>1 DEF Merging
<1>3. WrittenRight
  BY <1>2 DEF WrittenRight
<1>4. ASSUME NEW f \in Live PROVE Rising(Single(f), opt.u, disk[f])
  <2>1. CASE ~opt.m
    <3>1. Live = {}
      BY <1>1, <2>1, SpanFields DEF Live, SortPhase
    <3> QED BY <1>4, <3>1
  <2>2. CASE opt.m
    <3>1. range[2] = 0
      BY <1>1, <2>2
    <3>2. f \in 0 .. eargc - 1
      BY <1>1, <1>4, <3>1 DEF Live
    <3>3. ~Single(f)
      BY <1>1, <3>1, <3>2 DEF Single
    <3>4. f + 1 \in DOMAIN input /\ disk[f] = input[f + 1]
      <4>1. DOMAIN input = 1 .. eargc
        BY <1>1, LenProperties
      <4> QED BY <1>1, <3>2, <4>1
    <3>5. Asc(opt.u, disk[f])
      BY <2>2, <3>4 DEF Applies
    <3> QED BY <3>3, <3>5 DEF Rising
  <2> QED BY <2>1, <2>2
<1> QED BY <1>2, <1>3, <1>4 DEF TextsRight

-----------------------------------------------------------------------------
(***************************************************************************)
(* The end.                                                                *)
(***************************************************************************)
LEMMA WithinTimes ==
  ASSUME NEW T, Bounded(T), NEW x \in Lines
  PROVE  x \in Within(T) <=> Times(x, T) > 0
<1>1. IsFiniteSet(Places(x, T)) /\ Times(x, T) \in Nat
  BY PlacesFinite
<1>2. Times(x, T) = 0 <=> Places(x, T) = {}
  BY <1>1, FS_EmptySet DEF Times
<1> QED BY <1>1, <1>2 DEF Within

\* One text.
LEMMA TimesAlone ==
  ASSUME NEW s \in Seq(Lines), NEW x
  PROVE  Times(x, <<s>>) = Count(x, s) /\ Count(x, s) \in Nat /\ Bounded(<<s>>)
<1>1. DOMAIN <<s>> = {1} /\ <<s>>[1] = s
  OBVIOUS
<1>2. IsFiniteSet(DOMAIN s)
  <2>1. DOMAIN s = 1 .. Len(s) /\ Len(s) \in Nat
    BY LenProperties
  <2> QED BY <2>1, FS_Interval
<1>3. Bounded(<<s>>)
  <2>1. IsFiniteSet({1})
    BY FS_Singleton
  <2>2. \A f \in DOMAIN <<s>> : <<s>>[f] = s
    BY <1>1
  <2> QED BY <1>1, <1>2, <2>1, <2>2 DEF Bounded
<1>4. Times(x, <<s>>) = Count(x, <<s>>[1])
  BY <1>1, <1>3, TimesOne
<1>5. Count(x, s) \in Nat
  BY <1>2, CountPositive
<1> QED BY <1>1, <1>3, <1>4, <1>5

\* When all is merged, the output has all the lines.
LEMMA AllWritten ==
  ASSUME Base, PlanDone, ~opt.c
  PROVE  /\ opt.o \in Live /\ Single(opt.o) = opt.u /\ disk[opt.o] \in Seq(Lines) /\ disk'[opt.o] = disk[opt.o]
         /\ \A x \in Lines : Total(x, unread, Chunked, FileTexts) = Times(x, <<disk[opt.o]>>)
<1> DEFINE o == opt.o
           M == eargc + MaxTemp
<1>1. pc = "plan" /\ range[2] = nfiles /\ pc # "exit" /\ Term(0)
  BY DEF PlanDone
<1>2. ~SortPhase /\ ~Merging /\ Chunked = << >>
  BY <1>1 DEF SortPhase, Merging, Chunked
<1>3. eargc \in Nat /\ eargc >= 1 /\ nfiles \in Nat /\ range[2] \in Nat /\ MaxTemp \in Nat /\ o \in {Stdout, 0} /\ Stdout = -1
  BY <1>1, RangeFacts, OptFields DEF Base
<1>4. Live = {o}
  BY <1>1, <1>2, <1>3 DEF Live, Output
<1>5. o \in Files(eargc) /\ disk[o] \in Seq(Lines) /\ opt.u \in BOOLEAN
  BY <1>1, <1>4, LiveFiles, OptFields DEF Base, FilesRight
<1>6. Single(o) = opt.u
  BY <1>1, <1>5 DEF Single
<1>7. disk'[o] = disk[o]
  <2>1. o \notin eargc .. nfiles - 1
    BY <1>3
  <2>2. o \in DOMAIN disk
    BY <1>5, FileNames DEF Base
  <2> QED BY <1>1, <2>1, <2>2 DEF Term
<1>8. \A g \in DOMAIN unread : DOMAIN unread[g] = {}
  <2>1. DOMAIN unread = 1 .. eargc
    BY DEF Base, SortTypes
  <2>2. \A k \in 1 .. eargc : unread[k] = << >>
    BY <1>1, <1>2 DEF Base, RangeRight
  <2> QED BY <2>1, <2>2
<1>9. Bounded(FileTexts) /\ DOMAIN FileTexts = 0 .. M + 1 /\ \A g \in 0 .. M + 1 : FileTexts[g] = FileText(g - 1)
  BY <1>1, TextsFinite
<1>10. PICK e \in 0 .. M + 1 : e = o + 1 /\ e - 1 = o
  BY <1>3
<1> HIDE DEF M
<1>11. FileTexts[e] = disk[o]
  <2>1. FileText(o) = disk[o]
    BY <1>2, <1>4 DEF FileText
  <2>2. FileTexts[e] = FileText(e - 1)
    BY <1>9
  <2> QED BY <1>10, <2>1, <2>2
<1>12. ASSUME NEW g \in DOMAIN FileTexts, g # e PROVE DOMAIN FileTexts[g] = {}
  <2>1. PICK f \in Int : f = g - 1 /\ f # o
    BY <1>3, <1>9, <1>10, <1>12
  <2>2. FileText(f) = << >>
    BY <1>2, <1>4, <2>1 DEF FileText
  <2>3. FileTexts[g] = << >>
    BY <1>9, <2>1, <2>2
  <2> QED BY <2>3
<1>13. ASSUME NEW x \in Lines PROVE Total(x, unread, Chunked, FileTexts) = Times(x, <<disk[o]>>)
  <2>1. Times(x, unread) = 0
    BY <1>8, TimesNone
  <2>2. Count(x, Chunked) = 0
    BY <1>2, FS_EmptySet DEF Count
  <2>3. Times(x, FileTexts) = Count(x, disk[o])
    <3> DEFINE T == FileTexts
    <3>1. Bounded(T) /\ e \in DOMAIN T /\ \A g \in DOMAIN T : g # e => DOMAIN T[g] = {}
      BY <1>9, <1>10, <1>12
    <3>2. T[e] = disk[o]
      BY <1>11
    <3> HIDE DEF T, o
    <3>3. Times(x, T) = Count(x, T[e])
      BY <3>1, TimesOne
    <3> QED BY <3>2, <3>3 DEF T
  <2>4. Times(x, <<disk[o]>>) = Count(x, disk[o]) /\ Count(x, disk[o]) \in Nat
    BY <1>5, TimesAlone
  <2> QED BY <2>1, <2>2, <2>3, <2>4 DEF Total
<1> QED BY <1>4, <1>5, <1>6, <1>7, <1>13

LEMMA SortedAtEnd ==
  ASSUME Base, PlanDone, ~opt.c, LinesRight, TextsRight
  PROVE  SortedOutput'
<1> USE DEF setup, reading, qstate, streams, flags
<1> DEFINE out == disk[opt.o]
<1>1. /\ opt.o \in Live /\ Single(opt.o) = opt.u /\ out \in Seq(Lines) /\ disk'[opt.o] = out
      /\ \A x \in Lines : Total(x, unread, Chunked, FileTexts) = Times(x, <<out>>)
  BY AllWritten
<1>2. UNCHANGED <<opt, input, lost>>
  BY DEF PlanDone
<1>3. opt.u \in BOOLEAN /\ Bounded(<<out>>) /\ Bounded(input)
  <2>1. pc # "exit"
    BY DEF PlanDone
  <2> QED BY <1>1, <2>1, OptFields, TimesAlone, TextsFinite DEF Base
<1>4. Rising(opt.u, opt.u, out)
  BY <1>1 DEF TextsRight
<1>5. ASSUME NEW x \in Lines
      PROVE  /\ Times(x, <<out>>) \in Nat /\ Times(x, input) \in Nat
             /\ x \in Within(<<out>>) <=> Times(x, <<out>>) > 0
             /\ x \in Within(input) <=> Times(x, input) > 0
  BY <1>3, PlacesFinite, WithinTimes
<1> HIDE DEF out
<1>6. CASE ~opt.u
  <2>1. Asc(opt.u, out)
    BY <1>4, <1>6 DEF Rising
  <2>3. \A x \in Lines : Times(x, <<out>>) = Times(x, input)
    BY <1>1, <1>6 DEF LinesRight, LinesKept
  <2>4. \A i \in 1 .. Len(out) - 1 : (Compare(out[i], out[i + 1]) >= 0)
    BY <2>1, CompareIs DEF Asc
  <2>5. Ascending(out)
    BY <2>4 DEF Ascending
  <2> QED BY <1>1, <1>2, <1>6, <2>3, <2>5 DEF SortedOutput, Ascending, Compare, Times, Places
<1>7. CASE opt.u
  <2>1. Uniq(opt.u, out)
    BY <1>4, <1>7 DEF Rising
  <2>2. \A i \in 1 .. Len(out) - 1 : (Compare(out[i], out[i + 1]) > 0)
    BY <2>1, CompareIs DEF Uniq
  <2>3. Unique(out)
    BY <2>2 DEF Unique
  <2>4. Within(<<out>>) \subseteq Lines /\ Within(input) \subseteq Lines
    BY DEF Within
  <2>5. \A x \in Lines : Times(x, <<out>>) > 0 => Times(x, input) > 0
    BY <1>1, <1>7 DEF LinesRight, LinesKept
  <2>6. Within(<<out>>) \subseteq Within(input)
    BY <1>5, <2>4, <2>5
  <2>7. ASSUME ~lost PROVE {Key[x] : x \in Within(<<out>>)} = {Key[x] : x \in Within(input)}
    <3>1. \A x \in Lines : Times(x, input) > 0 => \E y \in Lines : Key[y] = Key[x] /\ Times(y, <<out>>) > 0
      BY <1>1, <1>7, <2>7 DEF LinesRight, LinesKept
    <3>2. \A x \in Within(input) : \E y \in Within(<<out>>) : Key[y] = Key[x]
      BY <1>5, <2>4, <3>1
    <3> QED BY <2>6, <3>2
  <2>8. ASSUME NEW s, s = out PROVE Unique(s)'
    BY <1>2, <2>2, <2>8 DEF Unique, Compare
  <2>9. disk'[opt'.o] = out /\ opt'.u /\ input' = input /\ (lost' <=> lost)
    BY <1>1, <1>2, <1>7
  <2> QED BY <2>6, <2>7, <2>8, <2>9 DEF SortedOutput
<1> QED BY <1>6, <1>7

\* Only the last plan ends without an error.
LEMMA SortedKept ==
  ASSUME Base, SortNext, pc # "exit",
         fault # "silent" => (~opt.c => LinesRight) /\ (Applies => TextsRight)
  PROVE  SortedOutput'
<1> USE DEF setup, reading, qstate, streams, flags
<1>1. opt' = opt /\ input' = input
  BY OptStays
<1>2. CASE pc' # "exit"
  BY <1>2 DEF SortedOutput
<1>3. CASE pc' = "exit"
  <2>1. PlanDone \/ error' = 1
    BY <1>3, Exits DEF StoreChunkFails, PutLineFails, PlanFails, MergeLineFails, Disordered,
                       CreateFails, ReadFails, Fail, Term
  <2>2. CASE error' = 1
    BY <2>2 DEF SortedOutput
  <2>3. CASE PlanDone
    <3>3. CASE fault = "silent"
      BY <2>3, <3>3 DEF PlanDone, SortedOutput
    <3>1. CASE Applies /\ fault # "silent"
      BY <2>3, <3>1, SortedAtEnd DEF Applies
    <3>2. CASE ~Applies
      <4>1. opt.c \/ ~(opt.m => \A f \in DOMAIN input : Asc(opt.u, input[f]))
        BY <3>2 DEF Applies
      <4>2. \A f : Ascending(input[f])' => Asc(opt.u, input[f])
        BY <1>1, CompareIs DEF Ascending, Asc, Compare, Cmp
      <4> QED BY <1>1, <4>1, <4>2 DEF SortedOutput
    <3> QED BY <3>1, <3>2, <3>3
  <2> QED BY <2>1, <2>2, <2>3
<1> QED BY <1>2, <1>3

\* What holds of the lines until sort ends, or a write is lost.
OrderInv ==
  /\ pc # "exit" /\ fault # "silent" =>
                    /\ ~opt.c => FlagsRight /\ LinesRight
                    /\ Applies => TextsRight /\ WrittenRight
  /\ SortedOutput

LEMMA OrderUnchanged ==
  ASSUME OrderInv, UNCHANGED sortvars
  PROVE  OrderInv'
<1> USE DEF sortvars, setup, reading, qstate, streams, flags
<1>1. /\ UNCHANGED <<opt, foreign, eargc, input, disk, nfiles, unread, is, text, mem, rest, opened, ibuf>>
      /\ UNCHANGED <<caller, segs, part, muflg, range, fresh, lost, fault, os, pc, error>>
  OBVIOUS
<1>2. /\ (SortPhase' <=> SortPhase) /\ (Merging' <=> Merging) /\ Prev' = Prev /\ Using' = Using /\ Merged' = Merged
      /\ (Strictly' <=> Strictly)
  BY <1>1 DEF SortPhase, Merging, Prev, Using, Merged, Strictly
<1>3. Live' = Live
  BY <1>1, <1>2 DEF Live, Output
<1>4. \A p : Pending(p)' = Pending(p)
  BY <1>1, <1>2 DEF Pending
<1>5. Chunked' = Chunked
  BY <1>1, <1>2 DEF Chunked
<1>6. \A f : FileText(f)' = FileText(f)
  <2>1. TAKE f
  <2>2. \A r : r = f - range[1] => Pending(r)' = Pending(r)
    BY <1>4
  <2>3. \A r : r = f - range[1] => FileText(f) = (IF Merging /\ f \in Merged THEN Pending(r) ELSE IF f \in Live THEN disk[f] ELSE << >>)
    BY DEF FileText
  <2>4. \A r : r = f - range[1] => FileText(f)' = (IF Merging /\ f \in Merged THEN Pending(r)' ELSE IF f \in Live THEN disk[f] ELSE << >>)
    BY <1>1, <1>2, <1>3 DEF FileText
  <2> QED BY <2>2, <2>3, <2>4
<1>7. FileTexts' = FileTexts
  BY <1>1, <1>6 DEF FileTexts
<1>8. ASSUME LinesRight PROVE LinesRight'
  BY <1>1, <1>5, <1>7, <1>8, LinesSame
<1>9. FlagsRight' <=> FlagsRight
  BY <1>1, <1>2 DEF FlagsRight
<1>10. ASSUME TextsRight PROVE TextsRight'
  <2>1. \A f \in Live' : Rising(Single(f)', opt'.u, disk'[f])
    BY <1>1, <1>3, <1>10 DEF TextsRight, Single, Rising
  <2>2. Merging => \A p \in 0 .. Prev - 1 : Rising(Strictly', opt'.u, Pending(p)')
    BY <1>1, <1>2, <1>4, <1>10 DEF TextsRight, Rising
  <2>3. pc = "next" => Rising(Strictly', opt'.u, <<mem'[Last(ibuf')]>> \o rest'[Last(ibuf')])
    BY <1>1, <1>2, <1>10 DEF TextsRight, Rising
  <2> QED BY <1>1, <1>2, <2>1, <2>2, <2>3 DEF TextsRight
<1>11. ASSUME WrittenRight PROVE WrittenRight'
  BY <1>1, <1>2, <1>4, <1>11 DEF WrittenRight, Before, Precedes
<1>12. Applies' <=> Applies
  BY <1>1 DEF Applies
<1>13. SortedOutput' <=> SortedOutput
  BY <1>1 DEF SortedOutput, Ascending, Unique, Compare
<1> QED BY <1>1, <1>8, <1>9, <1>10, <1>11, <1>12, <1>13 DEF OrderInv

LEMMA OrderHolds ==
  ASSUME Base, Base', OrderInv, SortNext
  PROVE  OrderInv'
<1>1. pc # "exit" /\ opt' = opt /\ input' = input
  BY Running, OptStays
<1>2. SortedOutput'
  BY <1>1, SortedKept DEF OrderInv
<1>5. pc' # "exit" /\ fault' # "silent" => fault # "silent"
  BY FaultKept
<1>3. ASSUME pc' # "exit", fault' # "silent", ~opt'.c PROVE FlagsRight' /\ LinesRight'
  BY <1>1, <1>3, <1>5, FlagsKept, LinesStay DEF OrderInv
<1>4. ASSUME pc' # "exit", fault' # "silent", Applies' PROVE TextsRight' /\ WrittenRight'
  <2>1. Applies /\ ~opt.c
    BY <1>1, <1>4 DEF Applies
  <2> QED BY <1>1, <1>4, <1>5, <2>1, OrderKept DEF OrderInv
<1> QED BY <1>2, <1>3, <1>4 DEF OrderInv

LEMMA OrderAlways == SortSpec => []OrderInv
<1>1. SortInit => OrderInv
  <2>1. ASSUME SortInit PROVE OrderInv
    <3>1. pc # "exit"
      BY <2>1 DEF SortInit
    <3>2. SortedOutput
      BY <3>1 DEF SortedOutput
    <3> QED BY <2>1, <3>2, LinesBegin, OrderBegins DEF OrderInv
  <2> QED BY <2>1
<1>2. Base /\ Base' /\ OrderInv /\ [SortNext]_sortvars => OrderInv'
  BY OrderHolds, OrderUnchanged
<1> QED BY <1>1, <1>2, BaseHolds, PTL DEF SortSpec

\* While sort runs, and until a write is lost that it does not notice, no line is lost and
\* none comes from nowhere: those in the arguments, in memory and in the files to be merged
\* and the output are those of the input; with -u they are among them and, unless a line
\* was compared with what a buffer held before, have each key.
THEOREM NoLineLost == SortSpec => [](pc # "exit" /\ fault # "silent" /\ ~opt.c => LinesRight)
<1>1. OrderInv => (pc # "exit" /\ fault # "silent" /\ ~opt.c => LinesRight)
  BY DEF OrderInv
<1> QED BY <1>1, OrderAlways, PTL

\* What sort writes is its input sorted: all its lines in order, or with -u one of each
\* key, through all the runs and merges, unless the last buffer of a file was lost where
\* nobody asks; no temporary file is left; and -c tells what is sorted.
THEOREM SortsRight == SortSpec => []SortSafe
<1>1. OrderInv => SortedOutput
  BY DEF OrderInv
<1>2. SortedOutput /\ NoTempLeft /\ CheckIsRight => SortSafe
  BY DEF SortSafe
<1> QED BY <1>1, <1>2, OrderAlways, TempsRemoved, CheckTells, PTL
=============================================================================
