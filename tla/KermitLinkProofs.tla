--------------------------- MODULE KermitLinkProofs ---------------------------
(***************************************************************************)
(* The safety of a transfer (KermitLink), for any files, faults, time-outs *)
(* and keys: proofs of the invariants of KermitLink.                       *)
(*                                                                         *)
(* The inductive invariant, LinkInv, distinguishes three relations of the  *)
(* two ends.  Together: both are at the same packet number; Behind: the    *)
(* receiver has taken the packet and the sender has not seen its answer;   *)
(* Ahead: the sender has taken an answer for what it is not (a NAK of the  *)
(* next number, or the acknowledgement of data for one of the end of file  *)
(* it sent under the same number when its user interrupted it) and runs    *)
(* ahead of a receiver whose files no longer change.                       *)
(*                                                                         *)
(* It is stated with parameters: s and r stand for the two ends, d for the *)
(* disk, k for skipped, q for the queue to the receiver and p for the one  *)
(* to the sender, so that a step can be followed change by change.         *)
(***************************************************************************)
EXTENDS KermitLinkTypes

Plain == ~Interrupted

On(e) == e.state \notin {"A", "C"}

Own == {x \in Packets : x.type \in {"S", "F", "D", "Z", "B"}}
OwnAt(n) == {x \in Own : x.num = n}
AckAt(n) == {x \in Packets : x.type = "Y" /\ x.num = n}
NakAt(n) == {x \in Packets : x.type = "N" /\ x.num = n}

\* How far number n is ahead of number m.
Distance(m, n) == IF n >= m THEN n - m ELSE n + PKTMOD - m

KeptBelow(d, n) == \A f \in Files : f < n => d[f].status = "kept"
AbsentFrom(d, n) ==
  \A f \in Files : f >= n => d[f].status = "absent" /\ d[f].chunks = << >>
\* The receiver has the files before the n-th and no other.
Reached(d, n) == KeptBelow(d, n) /\ AbsentFrom(d, n)
AllKept(d) == \A f \in Files : d[f].status = "kept"
Got(r, d) == Len(d[r.file].chunks)

SndOK(s) ==
  /\ s.state \in {"S", "F"} => s.chunk = 0
  /\ s.state = "S" => s.pktnum = 0 /\ s.file = 1
  /\ s.chunk <= FileLen[s.file]
  /\ Plain => /\ s.cxzflg = None
              /\ s.state = "Z" => s.chunk = FileLen[s.file]
              /\ s.state = "B" => s.file = Len(FileLen)

RcvOK(r, d) ==
  /\ r.state = "D" => r.file \in Files /\ d[r.file].status = "open"
  /\ r.state # "A" => \A f \in Files : d[f].status = "open" => r.state = "D" /\ f = r.file
  /\ Plain => r.cxzflg = None

DiskOK(r, d) ==
  /\ \A f \in Files : \A i \in DOMAIN d[f].chunks : d[f].chunks[i] = <<f, i>>
  /\ Plain => \A f \in Files : d[f].status = "kept" => Len(d[f].chunks) = FileLen[f]
  /\ Plain /\ r.state = "R" => AbsentFrom(d, 1)
  /\ Plain /\ r.state = "D" => KeptBelow(d, r.file) /\ AbsentFrom(d, r.file + 1)
  /\ Plain /\ r.state = "C" => AllKept(d)

PlainAcks(p) == Plain => \A x \in Elements(p) : x.type = "Y" => x.flag = None

\* The packets of the number that the receiver expects.
Fresh(r, q) == {x \in Elements(q) : x \in Own /\ x.num = r.pktnum}

-----------------------------------------------------------------------------
(***************************************************************************)
(* Together.                                                               *)
(***************************************************************************)

TogetherOut(s, r, q) ==
  On(r) => /\ \A x \in Elements(q) : x \in Own => x.num \in {Before(s.pktnum), s.pktnum}
           /\ Sorted(q, OwnAt(Before(s.pktnum)), OwnAt(s.pktnum))

TogetherBack(s, r, p) ==
  On(s) => \A x \in Elements(p) :
    /\ x.type = "Y" =>
         \/ x.num = Before(r.pktnum)
         \/ /\ x.num = r.pktnum
            /\ \/ r.state = "C"
               \/ Interrupted /\ r.state \in {"D", "A"} /\ s.state = "F"
    /\ x.type = "N" => x.num = r.pktnum

AtInit(s, r, q) ==
  /\ r.pktnum = 0 /\ s.state \in {"S", "A"}
  /\ \A x \in Elements(q) : x \in Own => x.type = "S" /\ x.num = 0

AtFile(s, r, d, q) ==
  /\ s.state \in {"F", "B", "A"}
  /\ Plain /\ s.state = "F" => Reached(d, s.file)
  /\ Plain /\ s.state = "B" => AllKept(d)
  /\ \A x \in Fresh(r, q) :
       \/ /\ x.type = "F" /\ x.item = <<s.file, 0>> /\ s.state \in {"F", "A"}
          /\ Plain => Reached(d, s.file)
       \/ /\ x.type = "B" /\ s.state \in {"B", "A"}
          /\ Plain => AllKept(d)

\* In a file, both at the same chunk of it.
AtData(s, r, d, q) ==
  /\ s.state \in {"D", "Z", "A"} /\ r.file = s.file
  /\ \A x \in Fresh(r, q) :
       \/ /\ x.type = "D" /\ (s.state \in {"D", "A"} \/ Interrupted)
          /\ r.cxzflg = None => x.item = <<r.file, Got(r, d) + 1>>
          /\ Plain => Got(r, d) < FileLen[r.file]
       \/ /\ x.type = "Z" /\ s.state \in {"Z", "A"}
          /\ Plain => Got(r, d) = FileLen[r.file]
  /\ s.state = "D" /\ s.cxzflg = None /\ r.cxzflg = None => s.chunk = Got(r, d) + 1
  /\ s.state = "Z" /\ Plain => Got(r, d) = FileLen[r.file]

\* In a file of which the receiver took data for the end: it waits for the end
\* while the sender goes on.
Crossed(s, r, q) ==
  /\ Interrupted /\ s.state \in {"F", "B", "A"}
  /\ \A x \in Fresh(r, q) :
       x.type \in {"F", "B"} /\ (s.state = x.type \/ s.state = "A")

Together(s, r, d, q, p) ==
  /\ s.pktnum = r.pktnum
  /\ TogetherOut(s, r, q) /\ TogetherBack(s, r, p)
  /\ r.state = "R" => AtInit(s, r, q)
  /\ r.state = "F" => AtFile(s, r, d, q)
  /\ r.state = "D" => AtData(s, r, d, q) \/ Crossed(s, r, q)
  /\ r.state = "C" => s.state \in {"B", "A"}

-----------------------------------------------------------------------------
(***************************************************************************)
(* Behind.                                                                 *)
(***************************************************************************)

BehindOut(s, r, q) == On(r) => \A x \in Elements(q) : x \in Own => x.num = s.pktnum

\* Answers to the sender's present packet come after those to the previous one.
BehindBack(s, r, p) ==
  On(s) =>
    /\ \A x \in Elements(p) : /\ x.type = "Y" => x.num \in {Before(s.pktnum), s.pktnum}
                              /\ x.type = "N" => x.num \in {s.pktnum, r.pktnum}
    /\ Sorted(p, AckAt(Before(s.pktnum)) \cup NakAt(s.pktnum),
                 AckAt(s.pktnum) \cup NakAt(r.pktnum))

BehindFile(s, d) ==
  /\ s.state \in {"S", "Z", "A"}
  /\ Plain /\ s.state = "S" => Reached(d, s.file)
  /\ Plain /\ s.state = "Z" => Reached(d, s.file + 1)

BehindData(s, r, d) ==
  /\ s.state \in {"F", "D", "Z", "A"}
  /\ s.state \in {"F", "D"} =>
       /\ r.file = s.file
       /\ s.cxzflg = None /\ r.cxzflg = None => Got(r, d) = s.chunk
  /\ s.state = "F" => Got(r, d) = 0
  /\ s.state = "Z" => Interrupted

Behind(s, r, d, q, p) ==
  /\ r.pktnum = After(s.pktnum)
  /\ r.state \in {"F", "D", "A"} /\ s.state \in {"S", "F", "D", "Z", "A"}
  /\ BehindOut(s, r, q) /\ BehindBack(s, r, p)
  /\ r.state = "F" => BehindFile(s, d)
  /\ r.state = "D" => BehindData(s, r, d)

-----------------------------------------------------------------------------
(***************************************************************************)
(* Ahead.                                                                  *)
(***************************************************************************)

AheadOut(s, r, q) ==
  On(r) => \A x \in Elements(q) : x \in Own =>
    /\ \/ Distance(r.pktnum, x.num) \in 1 .. Distance(r.pktnum, s.pktnum)
       \/ x.num = Before(r.pktnum)
       \/ x.num = r.pktnum /\ r.state = "D" /\ x.type \in {"F", "B"}
    /\ s.state = "B" /\ x.num = s.pktnum => x.type = "B"

AheadBack(s, r, p) ==
  On(s) => \A x \in Elements(p) :
    /\ x.type = "Y" =>
         \/ x.num = Before(r.pktnum)
         \/ /\ Distance(r.pktnum, x.num) <= r.oldtry
            /\ Distance(r.pktnum, x.num) <= Distance(r.pktnum, s.pktnum)
            /\ s.state = "B" => Distance(r.pktnum, x.num) < Distance(r.pktnum, s.pktnum)
    /\ x.type = "N" => x.num = r.pktnum

Ahead(s, r, k, q, p) ==
  /\ Distance(r.pktnum, s.pktnum) \in 1 .. r.oldtry + 1
  /\ r.state \in {"F", "D", "A"} /\ s.state \in {"F", "D", "Z", "B", "A"}
  /\ k \/ Interrupted
  /\ AheadOut(s, r, q) /\ AheadBack(s, r, p)

\* The inductive invariant.
Link(s, r, d, k, q, p) ==
  /\ SndOK(s) /\ RcvOK(r, d) /\ DiskOK(r, d) /\ PlainAcks(p)
  /\ s.state = "C" => r.state = "C"
  /\ s.state # "C" => Together(s, r, d, q, p) \/ Behind(s, r, d, q, p) \/ Ahead(s, r, k, q, p)

LinkInv == Link(snd, rcv, disk, skipped, line["rcv"], line["snd"])

-----------------------------------------------------------------------------
(***************************************************************************)
(* Distances, and queues that lose packets or grow.                        *)
(***************************************************************************)

LEMMA Distances ==
  ASSUME NEW m \in Numbers, NEW n \in Numbers
  PROVE  /\ Distance(m, n) \in 0 .. PKTMOD - 1
         /\ Distance(m, n) = 0 <=> n = m
         /\ Distance(m, n) = PKTMOD - 1 <=> n = Before(m)
         /\ n # Before(m) => Distance(m, After(n)) = Distance(m, n) + 1
         /\ \A o \in Numbers : Distance(m, o) = Distance(m, n) => o = n
<1>1. After(n) = IF n = PKTMOD - 1 THEN 0 ELSE n + 1
  BY NextNumber
<1> QED BY <1>1, LinkAssumption DEF LinkAssumption, Numbers, Distance, Before

\* The tries of a packet are too few for the numbers to come round.
LEMMA Room ==
  ASSUME NEW r \in RcvType
  PROVE  r.oldtry \in Nat /\ r.oldtry + 2 < PKTMOD /\ PKTMOD \in Nat
BY LinkAssumption DEF LinkAssumption, RcvType, MostTries

LEMMA ElementsType == ASSUME NEW q \in Seq(Packets) PROVE Elements(q) \subseteq Packets
BY DEF Elements

LEMMA GrownLess == ASSUME NEW q, NEW r, NEW p, Grown(r, q, p) PROVE LessBy(r, q, 0, p)
BY 0 # 1 DEF Grown, LessBy

\* Of the packets of a kind, queue q2 has none that queue q has not, nor in
\* another order.
Within(q2, q, Kind) ==
  /\ \A x \in Elements(q2) : x \in Kind => x \in Elements(q)
  /\ \A Low, High : Low \cup High \subseteq Kind /\ Sorted(q, Low, High) => Sorted(q2, Low, High)

Answers == {x \in Packets : x.type \in {"Y", "N"}}

LEMMA LessWithin ==
  ASSUME NEW q, NEW q2, NEW n, NEW x, LessBy(q2, q, n, x)
  PROVE  /\ x \notin Own => Within(q2, q, Own)
         /\ x \notin Answers => Within(q2, q, Answers)
<1>1. Damaged \notin Own /\ Damaged \notin Answers
  BY PlainPackets DEF Own, Answers
<1>2. ASSUME NEW Kind, x \notin Kind, Damaged \notin Kind
      PROVE  Within(q2, q, Kind)
  <2>1. \A y \in Elements(q2) : y \in Kind => y \in Elements(q)
    BY <1>2 DEF LessBy
  <2>2. ASSUME NEW Low, NEW High, Low \cup High \subseteq Kind, Sorted(q, Low, High)
        PROVE  Sorted(q2, Low, High)
    <3>1. {Damaged, x} \cap (Low \cup High) = {}
      BY <1>2, <2>2
    <3> QED BY <2>2, <3>1 DEF LessBy
  <2> QED BY <2>1, <2>2 DEF Within
<1> QED BY <1>1, <1>2

\* What is behind a packet that was taken.
LEMMA TakenBehind ==
  ASSUME NEW q, NEW q2, NEW x, LessBy(q2, q, 1, x), q # << >>,
         NEW Low, NEW High, {Damaged, x} \cap (Low \cup High) = {},
         Sorted(q, Low, High), Head(q) \in High
  PROVE  Elements(q2) \cap Low = {}
BY DEF LessBy

\* A queue that has not changed.
LEMMA WithinSame == ASSUME NEW q PROVE \A Kind : Within(q, q, Kind)
BY DEF Within

LEMMA OwnSets ==
  ASSUME NEW n
  PROVE  OwnAt(n) \subseteq Own /\ AckAt(n) \subseteq Answers /\ NakAt(n) \subseteq Answers
BY DEF Own, OwnAt, AckAt, NakAt, Answers

LEMMA NoEcho ==
  /\ \A x : x.type \notin {"Y", "N"} => x \notin Answers
  /\ \A x : x.type \notin {"S", "F", "D", "Z", "B"} => x \notin Own
BY DEF Answers, Own

\* The invariant survives what the line loses.
LEMMA Shrink ==
  ASSUME NEW s, NEW r, NEW d, NEW k, NEW q, NEW p, Link(s, r, d, k, q, p),
         NEW q2, Within(q2, q, Own),
         NEW p2 \in Seq(Packets), Within(p2, p, Answers)
  PROVE  Link(s, r, d, k, q2, p2)
<1>1. \A x \in Elements(q2) : x \in Own => x \in Elements(q)
  BY DEF Within
<1>2. \A x \in Elements(p2) : x.type \in {"Y", "N"} => x \in Elements(p)
  BY ElementsType DEF Within, Answers
<1>3. Fresh(r, q2) \subseteq Fresh(r, q)
  BY <1>1 DEF Fresh
<1>4. PlainAcks(p) => PlainAcks(p2)
  BY <1>2 DEF PlainAcks
<1>5. Together(s, r, d, q, p) => Together(s, r, d, q2, p2)
  <2>1. TogetherOut(s, r, q) => TogetherOut(s, r, q2)
    <3>1. Sorted(q, OwnAt(Before(s.pktnum)), OwnAt(s.pktnum)) =>
          Sorted(q2, OwnAt(Before(s.pktnum)), OwnAt(s.pktnum))
      BY OwnSets DEF Within
    <3> QED BY <1>1, <3>1 DEF TogetherOut
  <2>2. TogetherBack(s, r, p) => TogetherBack(s, r, p2)
    BY <1>2 DEF TogetherBack
  <2>3. AtInit(s, r, q) => AtInit(s, r, q2)
    BY <1>1 DEF AtInit
  <2>4. AtFile(s, r, d, q) => AtFile(s, r, d, q2)
    BY <1>3, Zenon DEF AtFile
  <2>5. AtData(s, r, d, q) => AtData(s, r, d, q2)
    BY <1>3, Zenon DEF AtData
  <2>6. Crossed(s, r, q) => Crossed(s, r, q2)
    BY <1>3, Zenon DEF Crossed
  <2> QED BY <2>1, <2>2, <2>3, <2>4, <2>5, <2>6, Zenon DEF Together
<1>6. Behind(s, r, d, q, p) => Behind(s, r, d, q2, p2)
  <2>1. BehindOut(s, r, q) => BehindOut(s, r, q2)
    BY <1>1 DEF BehindOut
  <2>2. BehindBack(s, r, p) => BehindBack(s, r, p2)
    <3> DEFINE Low == AckAt(Before(s.pktnum)) \cup NakAt(s.pktnum)
               High == AckAt(s.pktnum) \cup NakAt(r.pktnum)
    <3>1. Low \cup High \subseteq Answers
      BY OwnSets
    <3> HIDE DEF Low, High
    <3>2. Sorted(p, Low, High) => Sorted(p2, Low, High)
      BY <3>1 DEF Within
    <3> QED BY <1>2, <3>2 DEF BehindBack, Low, High
  <2> QED BY <2>1, <2>2, Zenon DEF Behind
<1>7. Ahead(s, r, k, q, p) => Ahead(s, r, k, q2, p2)
  <2>1. AheadOut(s, r, q) => AheadOut(s, r, q2)
    BY <1>1, Zenon DEF AheadOut
  <2>2. AheadBack(s, r, p) => AheadBack(s, r, p2)
    BY <1>2 DEF AheadBack
  <2> QED BY <2>1, <2>2, Zenon DEF Ahead
<1> QED BY <1>4, <1>5, <1>6, <1>7, Zenon DEF Link
-----------------------------------------------------------------------------
(***************************************************************************)
(* Changes of one end.                                                     *)
(***************************************************************************)

\* The sender stops.
LEMMA SStops ==
  ASSUME NEW s \in SndType, NEW r, NEW d, NEW k, NEW q, NEW p,
         Link(s, r, d, k, q, p), s.state # "C",
         NEW t, t.state = "A", t.pktnum = s.pktnum, t.file = s.file, t.chunk = s.chunk,
         t.cxzflg = s.cxzflg
  PROVE  Link(t, r, d, k, q, p)
<1>1. SndOK(t) /\ ~On(t) /\ t.state # "C"
  BY DEF Link, SndOK, On
<1>2. CASE Together(s, r, d, q, p)
  <2>1. TogetherOut(t, r, q) /\ TogetherBack(t, r, p)
    BY <1>1, <1>2, Zenon DEF Together, TogetherOut, TogetherBack
  <2>2. AtInit(s, r, q) => AtInit(t, r, q)
    BY DEF AtInit
  <2>3. AtFile(s, r, d, q) => AtFile(t, r, d, q)
    BY DEF AtFile
  <2>4. AtData(s, r, d, q) => AtData(t, r, d, q)
    BY DEF AtData
  <2>5. Crossed(s, r, q) => Crossed(t, r, q)
    BY DEF Crossed
  <2>6. Together(t, r, d, q, p)
    BY <1>2, <2>1, <2>2, <2>3, <2>4, <2>5 DEF Together
  <2> QED BY <1>1, <2>6 DEF Link
<1>3. CASE Behind(s, r, d, q, p)
  <2>1. Behind(t, r, d, q, p)
    BY <1>1, <1>3 DEF Behind, BehindOut, BehindBack, BehindFile, BehindData
  <2> QED BY <1>1, <2>1 DEF Link
<1>4. CASE Ahead(s, r, k, q, p)
  <2>1. Ahead(t, r, k, q, p)
    BY <1>1, <1>4 DEF Ahead, AheadOut, AheadBack
  <2> QED BY <1>1, <2>1 DEF Link
<1> QED BY <1>2, <1>3, <1>4 DEF Link

\* The receiver stops.
LEMMA RStops ==
  ASSUME NEW s, NEW r \in RcvType, NEW d, NEW k, NEW q, NEW p,
         Link(s, r, d, k, q, p), On(r),
         NEW t, t.state = "A", t.pktnum = r.pktnum, t.oldtry = r.oldtry, t.cxzflg = r.cxzflg
  PROVE  Link(s, t, d, k, q, p)
<1>1. RcvOK(t, d) /\ DiskOK(t, d) /\ ~On(t) /\ s.state # "C"
  BY DEF Link, RcvOK, DiskOK, On
<1>2. CASE Together(s, r, d, q, p)
  <2>1. TogetherOut(s, t, q) /\ TogetherBack(s, t, p)
    BY <1>1, <1>2 DEF Together, TogetherOut, TogetherBack, On
  <2>2. Together(s, t, d, q, p)
    BY <1>2, <2>1 DEF Together
  <2> QED BY <1>1, <2>2 DEF Link
<1>3. CASE Behind(s, r, d, q, p)
  <2>1. Behind(s, t, d, q, p)
    BY <1>1, <1>3 DEF Behind, BehindOut, BehindBack
  <2> QED BY <1>1, <2>1 DEF Link
<1>4. CASE Ahead(s, r, k, q, p)
  <2>1. Ahead(s, t, k, q, p)
    BY <1>1, <1>4 DEF Ahead, AheadOut, AheadBack
  <2> QED BY <1>1, <2>1 DEF Link
<1> QED BY <1>1, <1>2, <1>3, <1>4 DEF Link

\* The sender tries or waits (its packet stays the same), and its flag may be
\* set by its user or cleared before a file header.
LEMMA SChanges ==
  ASSUME NEW s \in SndType, NEW r, NEW d, NEW k, NEW q, NEW p, Link(s, r, d, k, q, p),
         NEW t, t.state = s.state, t.pktnum = s.pktnum, t.file = s.file, t.chunk = s.chunk,
         \/ t.cxzflg = s.cxzflg
         \/ t.cxzflg = None /\ s.state = "F"
         \/ t.cxzflg # None /\ Interrupted
  PROVE  Link(t, r, d, k, q, p)
<1>1. SndOK(t) /\ (On(t) <=> On(s))
  BY DEF Link, SndOK, On, Plain
<1>2. CASE Together(s, r, d, q, p)
  <2>1. TogetherOut(t, r, q) /\ TogetherBack(t, r, p)
    BY <1>1, <1>2 DEF Together, TogetherOut, TogetherBack
  <2>2. AtInit(s, r, q) => AtInit(t, r, q)
    BY DEF AtInit
  <2>3. AtFile(s, r, d, q) => AtFile(t, r, d, q)
    BY DEF AtFile
  <2>4. AtData(s, r, d, q) => AtData(t, r, d, q)
    BY DEF AtData
  <2>5. Crossed(s, r, q) => Crossed(t, r, q)
    BY DEF Crossed
  <2>6. Together(t, r, d, q, p)
    BY <1>2, <2>1, <2>2, <2>3, <2>4, <2>5 DEF Together
  <2> QED BY <1>1, <2>6 DEF Link
<1>3. CASE Behind(s, r, d, q, p)
  <2>1. BehindOut(t, r, q) /\ BehindBack(t, r, p)
    BY <1>1, <1>3 DEF Behind, BehindOut, BehindBack
  <2>2. BehindFile(s, d) => BehindFile(t, d)
    BY DEF BehindFile
  <2>3. BehindData(s, r, d) => BehindData(t, r, d)
    BY DEF BehindData, Link, SndOK
  <2>4. Behind(t, r, d, q, p)
    BY <1>3, <2>1, <2>2, <2>3 DEF Behind
  <2> QED BY <1>1, <2>4 DEF Link
<1>4. CASE Ahead(s, r, k, q, p)
  <2>1. Ahead(t, r, k, q, p)
    BY <1>1, <1>4 DEF Ahead, AheadOut, AheadBack
  <2> QED BY <1>1, <2>1 DEF Link
<1> QED BY <1>1, <1>2, <1>3, <1>4 DEF Link

\* The receiver tries, waits, counts a try of the previous packet, or is
\* interrupted by its user.
LEMMA RChanges ==
  ASSUME NEW s \in SndType, NEW r \in RcvType, NEW d, NEW k, NEW q,
         NEW p \in Seq(Packets), Link(s, r, d, k, q, p),
         NEW t, t.state = r.state, t.pktnum = r.pktnum, t.file = r.file,
         t.oldtry \in {r.oldtry, r.oldtry + 1},
         t.cxzflg = r.cxzflg \/ (t.cxzflg # None /\ Interrupted)
  PROVE  /\ Link(s, t, d, k, q, p)
         /\ Together(s, r, d, q, p) => Together(s, t, d, q, p)
         /\ Ahead(s, r, k, q, p) => Ahead(s, t, k, q, p)
<1>1. RcvOK(t, d) /\ DiskOK(t, d) /\ (On(t) <=> On(r)) /\ Fresh(t, q) = Fresh(r, q)
      /\ Got(t, d) = Got(r, d)
  BY DEF Link, RcvOK, DiskOK, On, Plain, Fresh, Got
<1>2. ASSUME Together(s, r, d, q, p) PROVE Together(s, t, d, q, p)
  <2>1. TogetherOut(s, t, q) /\ TogetherBack(s, t, p)
    BY <1>1, <1>2 DEF Together, TogetherOut, TogetherBack
  <2>2. AtInit(s, r, q) => AtInit(s, t, q)
    BY DEF AtInit
  <2>3. AtFile(s, r, d, q) => AtFile(s, t, d, q)
    BY <1>1, Zenon DEF AtFile
  <2>4. AtData(s, r, d, q) => AtData(s, t, d, q)
    BY <1>1 DEF AtData
  <2>5. Crossed(s, r, q) => Crossed(s, t, q)
    BY <1>1, Zenon DEF Crossed
  <2> QED BY <1>2, <2>1, <2>2, <2>3, <2>4, <2>5 DEF Together
<1>3. ASSUME Behind(s, r, d, q, p) PROVE Behind(s, t, d, q, p)
  <2>1. BehindOut(s, t, q) /\ BehindBack(s, t, p)
    BY <1>1, <1>3 DEF Behind, BehindOut, BehindBack
  <2>2. BehindData(s, r, d) => BehindData(s, t, d)
    BY <1>1 DEF BehindData
  <2> QED BY <1>3, <2>1, <2>2 DEF Behind
<1>4. ASSUME Ahead(s, r, k, q, p) PROVE Ahead(s, t, k, q, p)
  <2>1. /\ r.oldtry \in Nat /\ r.pktnum \in Numbers /\ s.pktnum \in Numbers
        /\ \A x \in Elements(p) : x.num \in Numbers
    BY Room, ElementsType DEF RcvType, SndType, Numbers, Packets
  <2>2. /\ Distance(r.pktnum, s.pktnum) \in Nat
        /\ \A x \in Elements(p) : Distance(r.pktnum, x.num) \in Int
    BY <2>1, Distances
  <2>3. Distance(t.pktnum, s.pktnum) \in 1 .. t.oldtry + 1
    BY <1>4, <2>1, <2>2 DEF Ahead
  <2>4. AheadOut(s, t, q)
    BY <1>1, <1>4 DEF Ahead, AheadOut
  <2>5. AheadBack(s, t, p)
    BY <1>4, <2>1, <2>2 DEF Ahead, AheadBack
  <2> QED BY <1>4, <2>3, <2>4, <2>5 DEF Ahead
<1> QED BY <1>1, <1>2, <1>3, <1>4 DEF Link
-----------------------------------------------------------------------------
(***************************************************************************)
(* Packets put on the line.                                                *)
(***************************************************************************)

\* x is the packet a sender in state s sends (SReady, SPacket).
PacketOf(s, x) ==
  /\ x \in Packets /\ x.type = s.state /\ x.num = s.pktnum
  /\ s.state \in {"S", "F", "D", "Z", "B"}
  /\ s.state = "F" => x.item = <<s.file, 0>>
  /\ s.state = "D" => x.item = <<s.file, s.chunk>> /\ s.cxzflg = None

LEMMA SSends ==
  ASSUME NEW s \in SndType, NEW r \in RcvType, NEW d \in [Files -> FileType], NEW k, NEW q \in Seq(Packets), NEW p,
         Link(s, r, d, k, q, p),
         NEW x, PacketOf(s, x), NEW q2, Grown(q2, q, x)
  PROVE  Link(s, r, d, k, q2, p)
<1>1. /\ s.pktnum \in Numbers /\ r.pktnum \in Numbers
      /\ \A y \in Elements(q2) : y \in Elements(q) \/ y = x
      /\ s.state \notin {"C", "A"} /\ x \in Own
  BY DEF SndType, RcvType, Numbers, Grown, PacketOf, Own
<1>2. \A y \in Fresh(r, q2) : y \in Fresh(r, q) \/ (y = x /\ x.num = r.pktnum)
  BY <1>1 DEF Fresh
<1>3. CASE Together(s, r, d, q, p)
  <2>1. TogetherOut(s, r, q2)
    <3>1. x \notin OwnAt(Before(s.pktnum))
      BY <1>1, PrevNumber DEF OwnAt, PacketOf
    <3>2. Sorted(q, OwnAt(Before(s.pktnum)), OwnAt(s.pktnum)) =>
          Sorted(q2, OwnAt(Before(s.pktnum)), OwnAt(s.pktnum))
      BY <3>1 DEF Grown
    <3> QED BY <1>1, <1>3, <3>2 DEF Together, TogetherOut, PacketOf
  <2>2. AtInit(s, r, q) => AtInit(s, r, q2)
    BY <1>1, <1>3 DEF AtInit, PacketOf, Together
  <2>3. AtFile(s, r, d, q) => AtFile(s, r, d, q2)
    <3> SUFFICES ASSUME AtFile(s, r, d, q), NEW y \in Fresh(r, q2)
                 PROVE  \/ /\ y.type = "F" /\ y.item = <<s.file, 0>> /\ s.state \in {"F", "A"}
                           /\ Plain => Reached(d, s.file)
                        \/ /\ y.type = "B" /\ s.state \in {"B", "A"}
                           /\ Plain => AllKept(d)
      BY Zenon DEF AtFile
    <3> QED BY <1>1, <1>2 DEF AtFile, PacketOf
  <2>4. AtData(s, r, d, q) => AtData(s, r, d, q2)
    <3> SUFFICES ASSUME AtData(s, r, d, q), NEW y \in Fresh(r, q2)
                 PROVE  \/ /\ y.type = "D" /\ (s.state \in {"D", "A"} \/ Interrupted)
                           /\ r.cxzflg = None => y.item = <<r.file, Got(r, d) + 1>>
                           /\ Plain => Got(r, d) < FileLen[r.file]
                        \/ /\ y.type = "Z" /\ s.state \in {"Z", "A"}
                           /\ Plain => Got(r, d) = FileLen[r.file]
      BY Zenon DEF AtData
    <3>1. Plain => s.cxzflg = None /\ r.cxzflg = None /\ s.chunk <= FileLen[s.file]
      BY Zenon DEF Link, SndOK, RcvOK
    <3>2. Plain /\ s.state = "D" => Got(r, d) < FileLen[r.file]
      <4>1. s.chunk \in Nat /\ FileLen[s.file] \in Nat
        BY FilesFact DEF SndType
      <4>2. Plain /\ s.state = "D" => s.chunk = Got(r, d) + 1 /\ r.file = s.file
        BY <3>1 DEF AtData
      <4>3. Plain /\ s.state = "D" => Got(r, d) \in Nat
        <5>1. d[s.file] \in FileType
          BY DEF SndType
        <5> QED BY <4>2, <5>1 DEF Got, FileType
      <4> QED BY <3>1, <4>1, <4>2, <4>3
    <3> QED BY <1>1, <1>2, <3>2 DEF AtData, PacketOf
  <2>5. Crossed(s, r, q) => Crossed(s, r, q2)
    BY <1>1, <1>2 DEF Crossed, PacketOf
  <2>6. Together(s, r, d, q2, p)
    BY <1>3, <2>1, <2>2, <2>3, <2>4, <2>5, Zenon DEF Together
  <2> QED BY <2>6, Zenon DEF Link
<1>4. CASE Behind(s, r, d, q, p)
  <2>1. Behind(s, r, d, q2, p)
    BY <1>1, <1>4 DEF Behind, BehindOut, PacketOf
  <2> QED BY <2>1, Zenon DEF Link
<1>5. CASE Ahead(s, r, k, q, p)
  <2>1. Distance(r.pktnum, s.pktnum) \in 1 .. Distance(r.pktnum, s.pktnum)
    BY <1>1, <1>5, Room DEF Ahead
  <2>2. AheadOut(s, r, q2)
    BY <1>1, <1>5, <2>1, Zenon DEF Ahead, AheadOut, PacketOf
  <2>3. Ahead(s, r, k, q2, p)
    BY <1>5, <2>2, Zenon DEF Ahead
  <2> QED BY <2>3, Zenon DEF Link
<1> QED BY <1>1, <1>3, <1>4, <1>5, Zenon DEF Link

\* The receiver sends a NAK of the number it expects.
LEMMA RNaks ==
  ASSUME NEW s \in SndType, NEW r \in RcvType, NEW d, NEW k, NEW q, NEW p,
         Link(s, r, d, k, q, p),
         NEW x \in Packets, x.type = "N", x.num = r.pktnum, NEW p2, Grown(p2, p, x)
  PROVE  Link(s, r, d, k, q, p2)
<1>1. /\ s.pktnum \in Numbers /\ r.pktnum \in Numbers
      /\ \A y \in Elements(p2) : y \in Elements(p) \/ y = x
  BY DEF SndType, RcvType, Numbers, Grown
<1>2. PlainAcks(p2)
  BY <1>1 DEF Link, PlainAcks
<1>3. CASE Together(s, r, d, q, p)
  <2>1. TogetherBack(s, r, p2)
    BY <1>1, <1>3 DEF Together, TogetherBack
  <2> QED BY <1>2, <1>3, <2>1, Zenon DEF Link, Together
<1>4. CASE Behind(s, r, d, q, p)
  <2>1. BehindBack(s, r, p2)
    <3> DEFINE Low == AckAt(Before(s.pktnum)) \cup NakAt(s.pktnum)
               High == AckAt(s.pktnum) \cup NakAt(r.pktnum)
    <3>1. x \notin Low
      BY <1>1, <1>4, PrevNumber DEF AckAt, NakAt, Behind
    <3> HIDE DEF Low, High
    <3>2. Sorted(p, Low, High) => Sorted(p2, Low, High)
      BY <3>1 DEF Grown
    <3> QED BY <1>1, <1>4, <3>2 DEF Behind, BehindBack, Low, High
  <2> QED BY <1>2, <1>4, <2>1, Zenon DEF Link, Behind
<1>5. CASE Ahead(s, r, k, q, p)
  <2>1. AheadBack(s, r, p2)
    BY <1>1, <1>5 DEF Ahead, AheadBack
  <2> QED BY <1>2, <1>5, <2>1, Zenon DEF Link, Ahead
<1> QED BY <1>2, <1>3, <1>4, <1>5, Zenon DEF Link
\* The receiver takes the packet it expects and acknowledges it: the sender is
\* behind.
LEMMA RAccepts ==
  ASSUME NEW s \in SndType, NEW r \in RcvType, NEW d, NEW e,
         NEW q \in Seq(Packets), NEW p \in Seq(Packets), Together(s, r, d, q, p),
         r.state \in {"R", "F", "D"}, s.state \in {"S", "F", "D", "Z", "A"},
         ~(r.state = "D" /\ s.state = "F"),
         q # << >>, Head(q) \in Own, Head(q).num = r.pktnum,
         NEW q2, NEW z, z \notin Own, LessBy(q2, q, 1, z),
         NEW t, t.pktnum = After(r.pktnum), t.state \in {"F", "D"},
         t.state = "F" => BehindFile(s, e), t.state = "D" => BehindData(s, t, e),
         NEW x \in Packets, x.type = "Y", x.num = r.pktnum, NEW p2, Grown(p2, p, x)
  PROVE  Behind(s, t, e, q2, p2)
<1>1. /\ s.pktnum \in Numbers /\ r.pktnum \in Numbers /\ s.pktnum = r.pktnum
      /\ \A y \in Elements(p2) : y \in Elements(p) \/ y = x
      /\ Before(r.pktnum) # r.pktnum /\ After(r.pktnum) # r.pktnum
      /\ Before(r.pktnum) # After(r.pktnum)
  BY PrevNumber DEF SndType, RcvType, Numbers, Grown, Together
<1>2. BehindOut(s, t, q2)
  <2>1. Sorted(q, OwnAt(Before(s.pktnum)), OwnAt(s.pktnum)) /\ Head(q) \in OwnAt(s.pktnum)
    BY <1>1 DEF Together, TogetherOut, On, OwnAt
  <2>2. {Damaged, z} \cap (OwnAt(Before(s.pktnum)) \cup OwnAt(s.pktnum)) = {}
    BY PlainPackets DEF OwnAt, Own
  <2>3. Elements(q2) \cap OwnAt(Before(s.pktnum)) = {}
    BY <2>1, <2>2, TakenBehind
  <2>4. \A y \in Elements(q2) : y \in Own => y \in Elements(q)
    BY LessWithin DEF Within
  <2>5. \A y \in Elements(q) : y \in Own => y.num \in {Before(s.pktnum), s.pktnum}
    BY DEF Together, TogetherOut, On
  <2> QED BY <2>3, <2>4, <2>5 DEF BehindOut, OwnAt
<1>3. BehindBack(s, t, p2)
  <2> DEFINE Low == AckAt(Before(s.pktnum)) \cup NakAt(s.pktnum)
             High == AckAt(s.pktnum) \cup NakAt(t.pktnum)
  <2> SUFFICES ASSUME On(s) PROVE BehindBack(s, t, p2)
    BY Zenon DEF BehindBack
  <2>1. \A y \in Elements(p) : /\ y.type = "Y" => y.num = Before(s.pktnum)
                               /\ y.type = "N" => y.num = s.pktnum
    BY <1>1 DEF Together, TogetherBack
  <2>2. \A y \in Elements(p) : y \notin High
    BY <1>1, <2>1 DEF AckAt, NakAt
  <2>3. x \notin Low
    BY <1>1 DEF AckAt, NakAt
  <2>4. Sorted(p, Low, High)
    BY <2>2 DEF Sorted, Elements
  <2>5. Sorted(p2, Low, High)
    BY <2>3, <2>4 DEF Grown
  <2>6. \A y \in Elements(p2) : /\ y.type = "Y" => y.num \in {Before(s.pktnum), s.pktnum}
                                /\ y.type = "N" => y.num \in {s.pktnum, t.pktnum}
    BY <1>1, <2>1
  <2> QED BY <2>5, <2>6 DEF BehindBack
<1> QED BY <1>1, <1>2, <1>3 DEF Behind

\* What the receiver knows of a packet that carries the number it expects.
LEMMA Expecting ==
  ASSUME NEW s \in SndType, NEW r \in RcvType, NEW d, NEW k, NEW q, NEW p,
         Link(s, r, d, k, q, p), r.state \in {"F", "D"},
         NEW x \in Elements(q), x \in Own, x.num = r.pktnum,
         r.state = "D" => x.type \in {"D", "Z"}
  PROVE  Together(s, r, d, q, p) /\ x \in Fresh(r, q)
<1>1. /\ s.pktnum \in Numbers /\ r.pktnum \in Numbers /\ s.state # "C" /\ On(r)
      /\ x \in Fresh(r, q)
  BY DEF SndType, RcvType, Numbers, Link, On, Fresh
<1>2. ~Behind(s, r, d, q, p)
  BY <1>1, PrevNumber DEF Behind, BehindOut
<1>3. ~Ahead(s, r, k, q, p)
  <2>1. ASSUME Ahead(s, r, k, q, p) PROVE FALSE
    <3>1. \/ Distance(r.pktnum, x.num) \in 1 .. Distance(r.pktnum, s.pktnum)
          \/ x.num = Before(r.pktnum)
      BY <1>1, <2>1 DEF Ahead, AheadOut
    <3>2. Distance(r.pktnum, r.pktnum) = 0 /\ Before(r.pktnum) # r.pktnum
          /\ Distance(r.pktnum, s.pktnum) \in Int
      BY <1>1, Distances, PrevNumber
    <3> QED BY <3>1, <3>2
  <2> QED BY <2>1
<1> QED BY <1>1, <1>2, <1>3 DEF Link

\* rinit.
LEMMA RTakesInit ==
  ASSUME NEW s \in SndType, NEW r \in RcvType, NEW d, NEW k,
         NEW q \in Seq(Packets), NEW p \in Seq(Packets), Link(s, r, d, k, q, p),
         r.state = "R", q # << >>, Head(q).type = "S",
         NEW q2, NEW z, z \notin Own, LessBy(q2, q, 1, z),
         NEW t, t.pktnum = After(Head(q).num), t.state = "F", t.cxzflg = r.cxzflg,
         NEW x \in Packets, x.type = "Y", x.num = Head(q).num, x.flag = None,
         NEW p2, Grown(p2, p, x)
  PROVE  Link(s, t, d, k, q2, p2)
<1>1. Head(q) \in Elements(q) /\ Head(q) \in Own
  BY HeadIn DEF Own
<1>2. Together(s, r, d, q, p) /\ AtInit(s, r, q)
  BY DEF Link, Together, Behind, Ahead
<1>3. Head(q).num = r.pktnum /\ s.state \in {"S", "A"}
  BY <1>1, <1>2 DEF AtInit
<1>4. BehindFile(s, d)
  <2>1. s.state = "S" => s.file = 1
    BY DEF Link, SndOK
  <2>2. Plain => Reached(d, 1)
    <3>1. KeptBelow(d, 1)
      BY FilesFact DEF KeptBelow
    <3> QED BY <3>1 DEF Link, DiskOK, Reached
  <2> QED BY <1>3, <2>1, <2>2 DEF BehindFile
<1>5. Behind(s, t, d, q2, p2)
  BY <1>1, <1>2, <1>3, <1>4, RAccepts
<1>6. PlainAcks(p2)
  BY DEF Link, PlainAcks, Grown
<1>7. RcvOK(t, d) /\ DiskOK(t, d)
  BY DEF Link, RcvOK, DiskOK
<1>8. s.state # "C" /\ SndOK(s)
  BY <1>3 DEF Link
<1> QED BY <1>5, <1>6, <1>7, <1>8, Zenon DEF Link

\* rfile opens a file.
LEMMA RTakesFile ==
  ASSUME NEW s \in SndType, NEW r \in RcvType, NEW d \in [Files -> FileType], NEW k,
         NEW q \in Seq(Packets), NEW p \in Seq(Packets), Link(s, r, d, k, q, p),
         r.state = "F", q # << >>, Head(q).type = "F", Head(q).num = r.pktnum,
         NEW q2, NEW z, z \notin Own, LessBy(q2, q, 1, z),
         NEW t, t.pktnum = After(r.pktnum), t.state = "D", t.cxzflg = r.cxzflg,
         t.file = Head(q).item[1],
         NEW e, \A f \in Files : /\ e[f].status = IF f = t.file THEN "open" ELSE d[f].status
                                /\ e[f].chunks = IF f = t.file THEN << >> ELSE d[f].chunks,
         NEW x \in Packets, x.type = "Y", x.num = r.pktnum, x.flag = None,
         NEW p2, Grown(p2, p, x)
  PROVE  Link(s, t, e, k, q2, p2)
<1>1. Head(q) \in Elements(q) /\ Head(q) \in Own
  BY HeadIn DEF Own
<1>2. Together(s, r, d, q, p) /\ Head(q) \in Fresh(r, q)
  BY <1>1, Expecting
<1>3. /\ Head(q).item = <<s.file, 0>> /\ s.state \in {"F", "A"}
      /\ Plain => Reached(d, s.file)
  BY <1>2 DEF Together, AtFile
<1>4. t.file = s.file /\ t.file \in Files
  BY <1>3 DEF SndType
<1>5. /\ e[t.file].status = "open" /\ e[t.file].chunks = << >>
      /\ \A f \in Files : f # t.file => e[f].status = d[f].status /\ e[f].chunks = d[f].chunks
  BY <1>4
<1>6. BehindData(s, t, e)
  <2>1. Got(t, e) = 0
    BY <1>5 DEF Got
  <2>2. s.state = "F" => s.chunk = 0
    BY DEF Link, SndOK
  <2> QED BY <1>3, <1>4, <2>1, <2>2 DEF BehindData
<1>7. Behind(s, t, e, q2, p2)
  BY <1>1, <1>2, <1>3, <1>6, RAccepts
<1>8. PlainAcks(p2)
  BY DEF Link, PlainAcks, Grown
<1>9. RcvOK(t, e)
  BY <1>4, <1>5 DEF Link, RcvOK
<1>10. DiskOK(t, e)
  <2>1. \A f \in Files : \A i \in DOMAIN e[f].chunks : e[f].chunks[i] = <<f, i>>
    BY <1>5 DEF Link, DiskOK
  <2>2. Plain => \A f \in Files : e[f].status = "kept" => Len(e[f].chunks) = FileLen[f]
    BY <1>5 DEF Link, DiskOK
  <2>3. Plain => KeptBelow(e, t.file) /\ AbsentFrom(e, t.file + 1)
    <3>1. \A f \in Files : /\ f < t.file => f # t.file
                           /\ f >= t.file + 1 => f # t.file /\ f >= t.file
      BY <1>4, FilesFact
    <3> QED BY <1>3, <1>4, <1>5, <3>1 DEF KeptBelow, AbsentFrom, Reached
  <2> QED BY <2>1, <2>2, <2>3 DEF DiskOK
<1>11. s.state # "C" /\ SndOK(s)
  BY <1>3 DEF Link
<1> QED BY <1>7, <1>8, <1>9, <1>10, <1>11, Zenon DEF Link
\* rfile sees the end of the transmission.
LEMMA RTakesBreak ==
  ASSUME NEW s \in SndType, NEW r \in RcvType, NEW d, NEW k,
         NEW q \in Seq(Packets), NEW p, Link(s, r, d, k, q, p),
         r.state = "F", q # << >>, Head(q).type = "B", Head(q).num = r.pktnum,
         NEW t, t.pktnum = r.pktnum, t.state = "C", t.cxzflg = r.cxzflg,
         NEW x \in Packets, x.type = "Y", x.num = r.pktnum, x.flag = None,
         NEW p2, Grown(p2, p, x)
  PROVE  Link(s, t, d, k, q, p2)
<1>1. Head(q) \in Elements(q) /\ Head(q) \in Own
  BY HeadIn DEF Own
<1>2. Together(s, r, d, q, p) /\ Head(q) \in Fresh(r, q)
  BY <1>1, Expecting
<1>3. s.state \in {"B", "A"} /\ (Plain => AllKept(d))
  BY <1>2 DEF Together, AtFile
<1>4. RcvOK(t, d) /\ DiskOK(t, d) /\ PlainAcks(p2)
  BY <1>3 DEF Link, RcvOK, DiskOK, PlainAcks, Grown
<1>5. TogetherBack(s, t, p2)
  BY <1>2 DEF Together, TogetherBack, Grown
<1>6. TogetherOut(s, t, q)
  BY DEF TogetherOut, On
<1>7. Together(s, t, d, q, p2)
  BY <1>2, <1>3, <1>5, <1>6 DEF Together
<1> QED BY <1>3, <1>4, <1>7 DEF Link

\* rdata writes a chunk, or answers with the flag of an interruption.
LEMMA RTakesData ==
  ASSUME NEW s \in SndType, NEW r \in RcvType, NEW d \in [Files -> FileType], NEW k,
         NEW q \in Seq(Packets), NEW p \in Seq(Packets), Link(s, r, d, k, q, p),
         r.state = "D", q # << >>, Head(q).type = "D", Head(q).num = r.pktnum,
         NEW q2, NEW z, z \notin Own, LessBy(q2, q, 1, z),
         NEW t, t.pktnum = After(r.pktnum), t.state = "D", t.cxzflg = r.cxzflg, t.file = r.file,
         NEW e, \A f \in Files :
                  /\ e[f].status = d[f].status
                  /\ e[f].chunks = IF f = r.file /\ r.cxzflg = None
                                   THEN Append(d[f].chunks, Head(q).item) ELSE d[f].chunks,
         NEW x \in Packets, x.type = "Y", x.num = r.pktnum, x.flag = r.cxzflg,
         NEW p2, Grown(p2, p, x)
  PROVE  Link(s, t, e, k, q2, p2)
<1>1. Head(q) \in Elements(q) /\ Head(q) \in Own
  BY HeadIn DEF Own
<1>2. Together(s, r, d, q, p) /\ Head(q) \in Fresh(r, q)
  BY <1>1, Expecting
<1>3. AtData(s, r, d, q)
  BY <1>2 DEF Together, Crossed
<1>4. /\ s.state \in {"D", "Z", "A"} /\ r.file = s.file /\ r.file \in Files
      /\ s.state \in {"D", "A"} \/ Interrupted
      /\ r.cxzflg = None => Head(q).item = <<r.file, Got(r, d) + 1>>
      /\ d[r.file].status = "open"
  BY <1>2, <1>3 DEF AtData, SndType, Link, RcvOK
<1>5. /\ \A f \in Files : f # r.file => e[f].status = d[f].status /\ e[f].chunks = d[f].chunks
      /\ e[r.file].status = "open"
      /\ e[r.file].chunks = IF r.cxzflg = None THEN Append(d[r.file].chunks, Head(q).item)
                                               ELSE d[r.file].chunks
      /\ d[r.file].chunks \in Seq(Chunks)
  BY <1>4 DEF FileType
<1>6. /\ r.cxzflg = None => Got(t, e) = Got(r, d) + 1
      /\ \A i \in DOMAIN e[r.file].chunks : e[r.file].chunks[i] = <<r.file, i>>
  <2>1. \A i \in DOMAIN d[r.file].chunks : d[r.file].chunks[i] = <<r.file, i>>
    BY <1>4 DEF Link, DiskOK
  <2>2. CASE r.cxzflg = None
    <3> DEFINE c == d[r.file].chunks
               h == Head(q).item
    <3>1. c \in Seq(Chunks) /\ e[r.file].chunks = Append(c, h) /\ h = <<r.file, Len(c) + 1>>
      BY <1>4, <1>5, <2>2 DEF Got
    <3>2. h \in Chunks
      BY <1>1 DEF Own, Packets
    <3>3. \A i \in DOMAIN c : c[i] = <<r.file, i>>
      BY <2>1
    <3> HIDE DEF c, h
    <3>4. Len(Append(c, h)) = Len(c) + 1
      BY <3>1, <3>2
    <3>5. \A i \in DOMAIN Append(c, h) : Append(c, h)[i] = <<r.file, i>>
      BY <3>1, <3>2, <3>3
    <3> QED BY <3>1, <3>4, <3>5 DEF Got, c
  <2>3. CASE r.cxzflg # None
    BY <1>5, <2>1, <2>3
  <2> QED BY <2>2, <2>3
<1>7. BehindData(s, t, e)
  <2>1. s.state = "D" => s.file = t.file
    BY <1>4
  <2>2. s.state = "D" /\ s.cxzflg = None /\ t.cxzflg = None => Got(t, e) = s.chunk
    BY <1>3, <1>6 DEF AtData
  <2> QED BY <1>4, <2>1, <2>2 DEF BehindData
<1>8. Behind(s, t, e, q2, p2)
  BY <1>1, <1>2, <1>4, <1>7, RAccepts
<1>9. PlainAcks(p2)
  <2>1. Plain => r.cxzflg = None
    BY DEF Link, RcvOK
  <2> QED BY <2>1 DEF Link, PlainAcks, Grown
<1>10. RcvOK(t, e)
  BY <1>4, <1>5 DEF Link, RcvOK
<1>11. DiskOK(t, e)
  <2>1. \A f \in Files : \A i \in DOMAIN e[f].chunks : e[f].chunks[i] = <<f, i>>
    BY <1>5, <1>6 DEF Link, DiskOK
  <2>2. Plain => \A f \in Files : e[f].status = "kept" => Len(e[f].chunks) = FileLen[f]
    BY <1>5 DEF Link, DiskOK
  <2>3. Plain => KeptBelow(e, t.file) /\ AbsentFrom(e, t.file + 1)
    <3>1. \A f \in Files : f < r.file \/ f >= r.file + 1 => f # r.file
      BY <1>4, FilesFact
    <3>2. t.file = r.file
      OBVIOUS
    <3> QED BY <1>5, <3>1, <3>2 DEF KeptBelow, AbsentFrom, Link, DiskOK
  <2> QED BY <2>1, <2>2, <2>3 DEF DiskOK
<1>12. s.state # "C" /\ SndOK(s)
  BY <1>4 DEF Link
<1> QED BY <1>8, <1>9, <1>10, <1>11, <1>12, Zenon DEF Link

\* rdata ends the file, or deletes it.
LEMMA RTakesEof ==
  ASSUME NEW s \in SndType, NEW r \in RcvType, NEW d \in [Files -> FileType], NEW k,
         NEW q \in Seq(Packets), NEW p \in Seq(Packets), Link(s, r, d, k, q, p),
         r.state = "D", q # << >>, Head(q).type = "Z", Head(q).num = r.pktnum,
         NEW q2, NEW z, z \notin Own, LessBy(q2, q, 1, z),
         NEW t, t.pktnum = After(r.pktnum), t.state = "F", t.cxzflg \in {r.cxzflg, None},
         NEW e, \A f \in Files :
                  /\ e[f].status = IF f # r.file THEN d[f].status
                                   ELSE IF r.cxzflg = None THEN "kept" ELSE "deleted"
                  /\ e[f].chunks = IF f # r.file \/ r.cxzflg = None THEN d[f].chunks ELSE << >>,
         NEW x \in Packets, x.type = "Y", x.num = r.pktnum, x.flag = None,
         NEW p2, Grown(p2, p, x)
  PROVE  Link(s, t, e, k, q2, p2)
<1>1. Head(q) \in Elements(q) /\ Head(q) \in Own
  BY HeadIn DEF Own
<1>2. Together(s, r, d, q, p) /\ Head(q) \in Fresh(r, q)
  BY <1>1, Expecting
<1>3. AtData(s, r, d, q)
  BY <1>2 DEF Together, Crossed
<1>4. /\ s.state \in {"Z", "A"} /\ r.file = s.file /\ r.file \in Files
      /\ Plain => Got(r, d) = FileLen[r.file] /\ r.cxzflg = None
      /\ Plain => KeptBelow(d, r.file) /\ AbsentFrom(d, r.file + 1)
      /\ \A f \in Files : d[f].status = "open" => f = r.file
  BY <1>2, <1>3 DEF AtData, SndType, Link, RcvOK, DiskOK
<1>5. /\ \A f \in Files : f # r.file => e[f].status = d[f].status /\ e[f].chunks = d[f].chunks
      /\ r.cxzflg = None => e[r.file].status = "kept" /\ e[r.file].chunks = d[r.file].chunks
      /\ r.cxzflg # None => e[r.file].status = "deleted" /\ e[r.file].chunks = << >>
  BY <1>4
<1>6. BehindFile(s, e)
  <2>1. \A f \in Files : f < s.file + 1 => f = s.file \/ f < s.file
    BY <1>4, FilesFact
  <2>2. Plain => KeptBelow(e, s.file + 1)
    BY <1>4, <1>5, <2>1, FilesFact DEF KeptBelow
  <2>3. Plain => AbsentFrom(e, s.file + 1)
    <3>1. \A f \in Files : f >= s.file + 1 => f # s.file
      BY <1>4, FilesFact
    <3> QED BY <1>4, <1>5, <3>1 DEF AbsentFrom
  <2> QED BY <1>4, <2>2, <2>3 DEF BehindFile, Reached
<1>7. Behind(s, t, e, q2, p2)
  BY <1>1, <1>2, <1>4, <1>6, RAccepts
<1>8. PlainAcks(p2)
  BY DEF Link, PlainAcks, Grown
<1>9. RcvOK(t, e)
  BY <1>4, <1>5 DEF Link, RcvOK
<1>10. DiskOK(t, e)
  <2>1. \A f \in Files : \A i \in DOMAIN e[f].chunks : e[f].chunks[i] = <<f, i>>
    BY <1>4, <1>5 DEF Link, DiskOK
  <2>2. Plain => \A f \in Files : e[f].status = "kept" => Len(e[f].chunks) = FileLen[f]
    BY <1>4, <1>5 DEF Link, DiskOK, Got
  <2> QED BY <2>1, <2>2 DEF DiskOK
<1>11. s.state # "C" /\ SndOK(s)
  BY <1>4 DEF Link
<1> QED BY <1>7, <1>8, <1>9, <1>10, <1>11, Zenon DEF Link
\* The receiver acknowledges a packet of the previous state again - or, ahead of
\* it by a NAK taken for an acknowledgement, one it will never write.
LEMMA RAcksAgain ==
  ASSUME NEW s \in SndType, NEW r \in RcvType, NEW d, NEW k,
         NEW q \in Seq(Packets), NEW p \in Seq(Packets), Link(s, r, d, k, q, p),
         NEW h \in Elements(q),
         \/ r.state = "F" /\ h.type \in {"S", "Z"}
         \/ r.state = "D" /\ h.type = "F"
         \/ r.state = "D" /\ h.type = "D" /\ h.num # r.pktnum,
         h.num # Before(r.pktnum),
         NEW t, t.state = r.state, t.pktnum = r.pktnum, t.file = r.file,
         t.oldtry = r.oldtry + 1, t.cxzflg = r.cxzflg,
         NEW x \in Packets, x.type = "Y", x.num = h.num, x.flag = None,
         NEW p2, Grown(p2, p, x)
  PROVE  Link(s, t, d, k, q, p2)
<1>1. Link(s, t, d, k, q, p)
  BY RChanges
<1>2. /\ h \in Own /\ h.num \in Numbers /\ r.pktnum \in Numbers /\ s.pktnum \in Numbers
      /\ On(r) /\ On(t) /\ s.state # "C"
      /\ \A y \in Elements(p2) : y \in Elements(p) \/ y = x
  BY ElementsType DEF Own, Packets, Numbers, RcvType, SndType, On, Grown, Link
<1>3. PlainAcks(p2)
  BY <1>2 DEF Link, PlainAcks
<1>4. CASE Together(s, r, d, q, p)
  <2>1. h.num = r.pktnum /\ h \in Fresh(r, q)
    BY <1>2, <1>4 DEF Together, TogetherOut, Fresh
  <2>2. r.state = "D" /\ h.type = "F"
    BY <1>4, <2>1 DEF Together, AtFile
  <2>3. s.state \in {"F", "A"} /\ Interrupted
    BY <1>4, <2>1, <2>2 DEF Together, AtData, Crossed
  <2>4. Together(s, t, d, q, p)
    BY <1>4, RChanges
  <2>5. TogetherBack(s, t, p2)
    BY <1>2, <2>1, <2>2, <2>3, <2>4 DEF Together, TogetherBack, On
  <2>6. Together(s, t, d, q, p2)
    BY <2>4, <2>5, Zenon DEF Together
  <2> QED BY <1>1, <1>3, <2>6, Zenon DEF Link
<1>5. CASE Behind(s, r, d, q, p)
  <2>1. h.num = s.pktnum /\ r.pktnum = After(s.pktnum)
    BY <1>2, <1>5 DEF Behind, BehindOut
  <2> QED BY <1>2, <2>1, PrevNumber
<1>6. CASE Ahead(s, r, k, q, p)
  <2>1. /\ Distance(r.pktnum, h.num) \in Nat /\ Distance(r.pktnum, s.pktnum) \in Nat
        /\ r.oldtry \in Nat
        /\ Distance(r.pktnum, h.num) = 0 <=> h.num = r.pktnum
        /\ Distance(r.pktnum, h.num) = Distance(r.pktnum, s.pktnum) => h.num = s.pktnum
    BY <1>2, Distances, Room
  <2>2. /\ Distance(r.pktnum, s.pktnum) <= r.oldtry + 1 /\ Distance(r.pktnum, s.pktnum) >= 1
        /\ Distance(r.pktnum, h.num) <= Distance(r.pktnum, s.pktnum)
        /\ s.state = "B" => h.num # s.pktnum
    BY <1>2, <1>6, <2>1 DEF Ahead, AheadOut
  <2>3. Ahead(s, t, k, q, p)
    BY <1>6, RChanges
  <2>4. AheadBack(s, t, p2)
    BY <1>2, <2>1, <2>2, <2>3 DEF Ahead, AheadBack
  <2>5. Ahead(s, t, k, q, p2)
    BY <2>3, <2>4, Zenon DEF Ahead
  <2> QED BY <1>1, <1>3, <2>5, Zenon DEF Link
<1> QED BY <1>2, <1>4, <1>5, <1>6, Zenon DEF Link

-----------------------------------------------------------------------------
(***************************************************************************)
(* The sender goes on.                                                     *)
(***************************************************************************)

\* sdata gives up an interrupted file.
LEMMA SInterrupts ==
  ASSUME NEW s \in SndType, NEW r, NEW d, NEW k, NEW q, NEW p, Link(s, r, d, k, q, p),
         s.state = "D", s.cxzflg # None,
         NEW t, t.state = "Z", t.pktnum = s.pktnum, t.file = s.file, t.chunk = s.chunk,
         t.cxzflg = s.cxzflg
  PROVE  Link(t, r, d, k, q, p)
<1>1. ~Plain /\ Interrupted
  BY DEF Link, SndOK, Plain
<1>2. SndOK(t) /\ On(t) /\ On(s)
  BY <1>1 DEF Link, SndOK, On
<1>3. CASE Together(s, r, d, q, p)
  <2>1. TogetherOut(t, r, q) /\ TogetherBack(t, r, p)
    BY <1>2, <1>3 DEF Together, TogetherOut, TogetherBack
  <2>2. r.state = "D" => AtData(t, r, d, q)
    <3> SUFFICES ASSUME r.state = "D" PROVE AtData(t, r, d, q)
      OBVIOUS
    <3>1. AtData(s, r, d, q)
      BY <1>3 DEF Together, Crossed
    <3> QED BY <1>1, <3>1 DEF AtData
  <2>3. r.state \notin {"R", "F", "C"}
    BY <1>3 DEF Together, AtInit, AtFile
  <2>4. Together(t, r, d, q, p)
    BY <1>3, <2>1, <2>2, <2>3 DEF Together
  <2> QED BY <1>2, <2>4 DEF Link
<1>4. CASE Behind(s, r, d, q, p)
  <2>1. BehindOut(t, r, q) /\ BehindBack(t, r, p)
    BY <1>2, <1>4 DEF Behind, BehindOut, BehindBack
  <2>2. Behind(t, r, d, q, p)
    BY <1>1, <1>4, <2>1 DEF Behind, BehindFile, BehindData
  <2> QED BY <1>2, <2>2 DEF Link
<1>5. CASE Ahead(s, r, k, q, p)
  <2>1. Ahead(t, r, k, q, p)
    BY <1>2, <1>5 DEF Ahead, AheadOut, AheadBack
  <2> QED BY <1>2, <2>1 DEF Link
<1> QED BY <1>2, <1>3, <1>4, <1>5 DEF Link

\* The sender in state s goes on to state t, its number being n and the answer
\* it accepted carrying this flag (SNext).
Goes(s, t, n, flag) ==
  /\ t.pktnum = n
  /\ \/ /\ s.state = "S" /\ t.state = "F"
        /\ t.file = s.file /\ t.chunk = s.chunk /\ t.cxzflg = s.cxzflg
     \/ /\ s.state \in {"F", "D"} /\ s.chunk < FileLen[s.file]
        /\ t.state = "D" /\ t.chunk = s.chunk + 1
        /\ t.file = s.file /\ t.cxzflg = s.cxzflg
     \/ /\ s.state \in {"F", "D"} /\ s.chunk >= FileLen[s.file]
        /\ t.state = "Z" /\ t.file = s.file /\ t.chunk = s.chunk /\ t.cxzflg = s.cxzflg
     \/ /\ s.state = "D" /\ flag # None
        /\ t.state = "D" /\ t.file = s.file /\ t.chunk = s.chunk /\ t.cxzflg = flag
     \/ /\ s.state = "Z" /\ (s.cxzflg = "Z" \/ s.file = Len(FileLen))
        /\ t.state = "B" /\ t.file = s.file /\ t.chunk = s.chunk /\ t.cxzflg = s.cxzflg
     \/ /\ s.state = "Z" /\ s.file # Len(FileLen)
        /\ t.state = "F" /\ t.file = s.file + 1 /\ t.chunk = 0 /\ t.cxzflg = None
     \/ /\ s.state = "B" /\ t.state = "C"
        /\ t.file = s.file /\ t.chunk = s.chunk /\ t.cxzflg = s.cxzflg

LEMMA SGoes ==
  ASSUME snd \in SndType, snd.state \in {"S", "F", "D", "Z", "B"}, NEW n, NEW flag
  PROVE  Goes(snd, SNext(n, flag), n, flag)
<1> DEFINE base == [snd EXCEPT !.wait = FALSE, !.pktnum = n, !.numtry = 0]
           chunk == IF snd.chunk < FileLen[snd.file]
                    THEN [base EXCEPT !.state = "D", !.chunk = @ + 1]
                    ELSE [base EXCEPT !.state = "Z"]
<1>1. /\ DOMAIN snd = {"state", "wait", "pktnum", "numtry", "cxzflg", "file", "chunk"}
      /\ snd = [f \in DOMAIN snd |-> snd[f]]
      /\ snd.chunk \in Nat /\ FileLen[snd.file] \in Nat
  BY FilesFact DEF SndType
<1>2. /\ base.pktnum = n /\ base.file = snd.file /\ base.chunk = snd.chunk
      /\ base.cxzflg = snd.cxzflg
      /\ DOMAIN base = {"state", "wait", "pktnum", "numtry", "cxzflg", "file", "chunk"}
  BY <1>1
<1> HIDE DEF base
<1>3. CASE snd.state = "S"
  <2>1. SNext(n, flag) = [base EXCEPT !.state = "F"]
    BY <1>3 DEF SNext, base
  <2> QED BY <1>2, <1>3, <2>1 DEF Goes
<1>4. CASE snd.state = "F" \/ (snd.state = "D" /\ flag = None)
  <2>1. SNext(n, flag) = chunk
    BY <1>4 DEF SNext, base, chunk
  <2>2. CASE snd.chunk < FileLen[snd.file]
    <3>1. SNext(n, flag) = [base EXCEPT !.state = "D", !.chunk = snd.chunk + 1]
      BY <1>2, <2>1, <2>2
    <3> QED BY <1>2, <1>4, <2>2, <3>1 DEF Goes
  <2>3. CASE ~(snd.chunk < FileLen[snd.file])
    <3>1. SNext(n, flag) = [base EXCEPT !.state = "Z"] /\ snd.chunk >= FileLen[snd.file]
      BY <1>1, <2>1, <2>3
    <3> QED BY <1>2, <1>4, <3>1 DEF Goes
  <2> QED BY <2>2, <2>3
<1>5. CASE snd.state = "D" /\ flag # None
  <2>1. SNext(n, flag) = [base EXCEPT !.cxzflg = flag]
    BY <1>5 DEF SNext, base
  <2>2. base.state = "D"
    BY <1>1, <1>5 DEF base
  <2> QED BY <1>2, <1>5, <2>1, <2>2 DEF Goes
<1>6. CASE snd.state = "Z" /\ (snd.cxzflg = "Z" \/ snd.file = Len(FileLen))
  <2>1. SNext(n, flag) = [base EXCEPT !.state = "B"]
    BY <1>6 DEF SNext, base
  <2> QED BY <1>2, <1>6, <2>1 DEF Goes
<1>7. CASE snd.state = "Z" /\ ~(snd.cxzflg = "Z" \/ snd.file = Len(FileLen))
  <2>1. SNext(n, flag) = [base EXCEPT !.state = "F", !.file = snd.file + 1,
                                      !.chunk = 0, !.cxzflg = None]
    BY <1>2, <1>7 DEF SNext, base
  <2> QED BY <1>2, <1>7, <2>1 DEF Goes
<1>8. CASE snd.state = "B"
  <2>1. SNext(n, flag) = [base EXCEPT !.state = "C"]
    BY <1>8 DEF SNext, base
  <2> QED BY <1>2, <1>8, <2>1 DEF Goes
<1> QED BY <1>3, <1>4, <1>5, <1>6, <1>7, <1>8

LEMMA GoesOK ==
  ASSUME NEW s \in SndType, SndOK(s), NEW n, NEW flag, Plain => flag = None,
         NEW t, Goes(s, t, n, flag)
  PROVE  SndOK(t)
<1>1. /\ s.chunk \in Nat /\ s.file \in Files /\ FileLen[s.file] \in Nat
      /\ s.file # Len(FileLen) => FileLen[s.file + 1] \in Nat
  BY FilesFact DEF SndType
<1>2. /\ t.chunk <= FileLen[t.file]
      /\ t.state = "F" => t.chunk = 0
      /\ t.state = "Z" => t.chunk = FileLen[t.file]
  <2>1. CASE s.state = "Z" /\ s.file # Len(FileLen) /\ t.state = "F"
    BY <1>1, <2>1 DEF Goes
  <2>2. CASE s.state \in {"F", "D"} /\ t.state \in {"D", "Z"}
    BY <1>1, <2>2 DEF Goes, SndOK
  <2>3. CASE t.file = s.file /\ t.chunk = s.chunk /\ t.state \in {"F", "B", "C"}
    BY <1>1, <2>3 DEF Goes, SndOK
  <2> QED BY <2>1, <2>2, <2>3 DEF Goes
<1>3. t.state # "S" /\ (Plain => t.cxzflg = None)
  BY DEF Goes, SndOK
<1>4. Plain /\ t.state = "B" => t.file = Len(FileLen)
  <2>1. Plain => s.cxzflg # "Z"
    BY DEF SndOK, None
  <2> QED BY <2>1 DEF Goes
<1> QED BY <1>2, <1>3, <1>4 DEF SndOK

\* Behind a packet that answers the sender's present one, the sender being
\* behind, there are only such answers.
LEMMA OnlyAnswers ==
  ASSUME NEW s \in SndType, NEW r \in RcvType, NEW d, NEW q,
         NEW p \in Seq(Packets), p # << >>, Behind(s, r, d, q, p), On(s),
         Head(p) \in AckAt(s.pktnum) \cup NakAt(r.pktnum),
         NEW p2 \in Seq(Packets), NEW z, z \notin Answers, LessBy(p2, p, 1, z)
  PROVE  \A x \in Elements(p2) : /\ x.type = "Y" => x.num = s.pktnum
                                 /\ x.type = "N" => x.num = r.pktnum
<1> DEFINE Low == AckAt(Before(s.pktnum)) \cup NakAt(s.pktnum)
           High == AckAt(s.pktnum) \cup NakAt(r.pktnum)
<1>1. Sorted(p, Low, High)
  BY DEF Behind, BehindBack
<1>2. {Damaged, z} \cap (Low \cup High) = {}
  BY PlainPackets DEF AckAt, NakAt, Answers
<1>3. Elements(p2) \cap Low = {}
  <2> HIDE DEF Low
  <2> QED BY <1>1, <1>2, TakenBehind
<1>4. ASSUME NEW x \in Elements(p2), x.type \in {"Y", "N"}
      PROVE  /\ x.type = "Y" => x.num \in {Before(s.pktnum), s.pktnum}
             /\ x.type = "N" => x.num \in {s.pktnum, r.pktnum}
             /\ x \in Packets
  <2>1. x \in Packets /\ x \in Answers
    BY <1>4, ElementsType DEF Answers
  <2>2. x \in Elements(p)
    BY <2>1, LessWithin DEF Within
  <2> QED BY <2>1, <2>2 DEF Behind, BehindBack
<1> QED BY <1>3, <1>4 DEF AckAt, NakAt

\* An acknowledgement of the sender's present packet.
LEMMA SAdvances ==
  ASSUME NEW s \in SndType, NEW r \in RcvType, NEW d, NEW k,
         NEW q \in Seq(Packets), NEW p \in Seq(Packets), Link(s, r, d, k, q, p),
         s.state \in {"S", "F", "D", "Z", "B"}, p # << >>,
         Head(p).type = "Y", Head(p).num = s.pktnum,
         NEW t, Goes(s, t, After(s.pktnum), Head(p).flag),
         NEW p2 \in Seq(Packets), NEW z, z \notin Answers, LessBy(p2, p, 1, z)
  PROVE  Link(t, r, d, k, q, p2)
<1>1. /\ Head(p) \in Elements(p) /\ Head(p) \in AckAt(s.pktnum)
      /\ s.pktnum \in Numbers /\ r.pktnum \in Numbers /\ On(s) /\ s.state # "C"
      /\ \A x \in Elements(p) \cup Elements(q) : x.num \in Numbers
  BY HeadIn, ElementsType DEF AckAt, SndType, RcvType, Numbers, Packets, On
<1>2. SndOK(t) /\ RcvOK(r, d) /\ DiskOK(r, d) /\ PlainAcks(p2)
  <2>1. \A x \in Elements(p2) : x.type = "Y" => x \in Elements(p)
    BY LessWithin, ElementsType DEF Within, Answers
  <2>2. Plain => Head(p).flag = None
    BY <1>1 DEF Link, PlainAcks
  <2>3. SndOK(t)
    BY <2>2, GoesOK DEF Link
  <2> QED BY <2>1, <2>3 DEF Link, PlainAcks
<1>3. CASE Together(s, r, d, q, p) /\ r.state = "C"
  <2>1. s.state = "B" /\ t.state = "C"
    BY <1>1, <1>3 DEF Together, Goes
  <2> QED BY <1>2, <1>3, <2>1 DEF Link
<1>4. CASE Together(s, r, d, q, p) /\ r.state # "C"
  <2>1. Interrupted /\ r.state \in {"D", "A"} /\ s.state = "F" /\ s.pktnum = r.pktnum
    BY <1>1, <1>4, PrevNumber DEF Together, TogetherBack
  <2>2. t.state \in {"D", "Z"} /\ t.pktnum = After(r.pktnum)
    BY <2>1 DEF Goes
  <2>3. Distance(r.pktnum, t.pktnum) = 1 /\ Distance(r.pktnum, r.pktnum) = 0
    BY <1>1, <2>2, Distances, PrevNumber
  <2>4. AheadOut(t, r, q)
    <3>1. On(r) => \A x \in Elements(q) : x \in Own => x.num \in {Before(r.pktnum), r.pktnum}
      BY <1>4, <2>1 DEF Together, TogetherOut
    <3>2. On(r) => \A x \in Elements(q) : x \in Own /\ x.num = r.pktnum =>
                     r.state = "D" /\ x.type \in {"F", "B"}
      BY <1>4, <2>1 DEF Together, Crossed, AtData, Fresh, On
    <3> QED BY <2>2, <3>1, <3>2 DEF AheadOut
  <2>5. AheadBack(t, r, p2)
    <3>1. \A x \in Elements(p2) : x.type \in {"Y", "N"} => x \in Elements(p)
      BY LessWithin, ElementsType DEF Within, Answers
    <3>2. \A x \in Elements(p) : /\ x.type = "Y" => x.num \in {Before(r.pktnum), r.pktnum}
                                 /\ x.type = "N" => x.num = r.pktnum
      BY <1>1, <1>4 DEF Together, TogetherBack
    <3> QED BY <2>2, <2>3, <3>1, <3>2, Room DEF AheadBack
  <2>6. Ahead(t, r, k, q, p2)
    BY <2>1, <2>2, <2>3, <2>4, <2>5, Room DEF Ahead
  <2> QED BY <1>2, <2>2, <2>6, Zenon DEF Link
<1>5. CASE Behind(s, r, d, q, p)
  <2>1. t.pktnum = r.pktnum /\ Before(t.pktnum) = s.pktnum /\ s.pktnum # r.pktnum
    BY <1>1, <1>5, PrevNumber DEF Goes, Behind
  <2>2. \A x \in Elements(p2) : /\ x.type = "Y" => x.num = s.pktnum
                                /\ x.type = "N" => x.num = r.pktnum
    BY <1>1, <1>5, OnlyAnswers
  <2>3. TogetherBack(t, r, p2)
    BY <2>1, <2>2 DEF TogetherBack
  <2>4. \A x \in Elements(q) : On(r) /\ x \in Own => x.num = s.pktnum
    BY <1>5 DEF Behind, BehindOut
  <2>5. TogetherOut(t, r, q)
    <3>1. On(r) => Sorted(q, OwnAt(Before(t.pktnum)), OwnAt(t.pktnum))
      BY <2>1, <2>4 DEF Sorted, OwnAt, Elements
    <3> QED BY <2>1, <2>4, <3>1 DEF TogetherOut
  <2>6. On(r) => Fresh(r, q) = {}
    BY <2>1, <2>4 DEF Fresh
  <2>7. r.state = "F" => AtFile(t, r, d, q)
    <3> SUFFICES ASSUME r.state = "F" PROVE AtFile(t, r, d, q)
      OBVIOUS
    <3>1. BehindFile(s, d) /\ Fresh(r, q) = {}
      BY <1>5, <2>6 DEF Behind, On
    <3>2. CASE s.state = "S"
      <4>1. t.state = "F" /\ t.file = 1
        BY <3>2 DEF Goes, Link, SndOK
      <4>2. Plain => Reached(d, 1)
        <5>1. s.file = 1
          BY <3>2 DEF Link, SndOK
        <5> QED BY <3>1, <3>2, <5>1 DEF BehindFile
      <4> QED BY <3>1, <4>1, <4>2 DEF AtFile
    <3>3. CASE s.state = "Z"
      <4>1. CASE t.state = "B"
        <5>1. Plain => t.file = Len(FileLen) /\ Reached(d, Len(FileLen) + 1)
          BY <1>2, <3>1, <3>3, <4>1 DEF SndOK, BehindFile, Goes
        <5>2. Plain => AllKept(d)
          <6>1. \A f \in Files : f < Len(FileLen) + 1
            BY FilesFact
          <6> QED BY <5>1, <6>1 DEF Reached, KeptBelow, AllKept
        <5> QED BY <3>1, <4>1, <5>2 DEF AtFile
      <4>2. CASE t.state = "F"
        <5>1. Plain => Reached(d, t.file)
          BY <3>1, <3>3, <4>2 DEF BehindFile, Goes
        <5> QED BY <3>1, <4>2, <5>1 DEF AtFile
      <4> QED BY <3>3, <4>1, <4>2 DEF Goes
    <3> QED BY <1>1, <3>1, <3>2, <3>3 DEF BehindFile
  <2>8. r.state = "D" => AtData(t, r, d, q) \/ Crossed(t, r, q)
    <3> SUFFICES ASSUME r.state = "D" PROVE AtData(t, r, d, q) \/ Crossed(t, r, q)
      OBVIOUS
    <3>1. BehindData(s, r, d) /\ Fresh(r, q) = {}
      BY <1>5, <2>6 DEF Behind, On
    <3>2. CASE s.state \in {"F", "D"}
      <4>1. /\ t.state \in {"D", "Z"} /\ r.file = s.file /\ t.file = s.file
            /\ s.chunk \in Nat /\ FileLen[s.file] \in Nat /\ s.chunk <= FileLen[s.file]
            /\ (Plain => r.cxzflg = None /\ s.cxzflg = None)
            /\ s.cxzflg = None /\ r.cxzflg = None => Got(r, d) = s.chunk
        BY <3>1, <3>2, FilesFact DEF Goes, BehindData, SndType, Link, SndOK, RcvOK
      <4>2. t.state = "D" /\ t.cxzflg = None /\ r.cxzflg = None => t.chunk = Got(r, d) + 1
        BY <3>2, <4>1 DEF Goes
      <4>3. t.state = "Z" /\ Plain => Got(r, d) = FileLen[r.file]
        BY <3>2, <4>1 DEF Goes
      <4> QED BY <3>1, <4>1, <4>2, <4>3 DEF AtData
    <3>3. CASE s.state = "Z"
      <4>1. t.state \in {"B", "F"} /\ Interrupted
        BY <3>1, <3>3 DEF Goes, BehindData
      <4> QED BY <3>1, <4>1 DEF Crossed
    <3> QED BY <1>1, <3>1, <3>2, <3>3 DEF BehindData
  <2>9. Together(t, r, d, q, p2)
    BY <1>5, <2>1, <2>3, <2>5, <2>7, <2>8 DEF Together, Behind
  <2> QED BY <1>2, <1>5, <2>9 DEF Link, Goes, Behind
<1>6. CASE Ahead(s, r, k, q, p)
  <2> DEFINE D(n) == Distance(r.pktnum, n)
  <2>1. /\ D(s.pktnum) \in Nat /\ r.oldtry \in Nat /\ r.oldtry + 2 < PKTMOD /\ PKTMOD \in Nat
        /\ D(s.pktnum) >= 1 /\ D(s.pktnum) <= r.oldtry + 1
        /\ D(s.pktnum) = PKTMOD - 1 <=> s.pktnum = Before(r.pktnum)
        /\ s.pktnum # Before(r.pktnum) => D(After(s.pktnum)) = D(s.pktnum) + 1
    BY <1>1, <1>6, Distances, Room DEF Ahead
  <2>2. /\ s.pktnum # Before(r.pktnum) /\ D(s.pktnum) <= r.oldtry /\ s.state # "B"
        /\ D(t.pktnum) = D(s.pktnum) + 1
    <3>1. s.pktnum # Before(r.pktnum)
      BY <2>1
    <3>2. \/ s.pktnum = Before(r.pktnum)
          \/ D(s.pktnum) <= r.oldtry /\ (s.state = "B" => D(s.pktnum) < D(s.pktnum))
      <4>1. \A x \in Elements(p) : x.type = "Y" =>
               \/ x.num = Before(r.pktnum)
               \/ D(x.num) <= r.oldtry /\ (s.state = "B" => D(x.num) < D(s.pktnum))
        BY <1>1, <1>6, Zenon DEF Ahead, AheadBack
      <4> HIDE DEF D
      <4> QED BY <1>1, <4>1
    <3>3. D(s.pktnum) <= r.oldtry /\ s.state # "B"
      BY <2>1, <3>1, <3>2
    <3> QED BY <2>1, <3>1, <3>3 DEF Goes
  <2>3. \A n \in Numbers : D(n) \in Nat /\ (n = Before(r.pktnum) <=> D(n) = PKTMOD - 1)
                           /\ (n = r.pktnum <=> D(n) = 0)
    BY <1>1, Distances
  <2>4. t.pktnum \in Numbers /\ t.state \in {"F", "D", "Z", "B"}
    BY <1>1, <1>6, <2>2, NextNumber DEF Goes, Ahead
  <2> HIDE DEF D
  <2>5. AheadOut(t, r, q)
    <3> SUFFICES ASSUME On(r), NEW x \in Elements(q), x \in Own
                 PROVE  /\ \/ D(x.num) \in 1 .. D(t.pktnum)
                           \/ x.num = Before(r.pktnum)
                           \/ x.num = r.pktnum /\ r.state = "D" /\ x.type \in {"F", "B"}
                        /\ t.state = "B" /\ x.num = t.pktnum => x.type = "B"
      BY Zenon DEF AheadOut, D
    <3>1. \/ D(x.num) \in 1 .. D(s.pktnum)
          \/ x.num = Before(r.pktnum)
          \/ x.num = r.pktnum /\ r.state = "D" /\ x.type \in {"F", "B"}
      BY <1>6, Zenon DEF Ahead, AheadOut, D
    <3>2. D(x.num) \in 1 .. D(s.pktnum) => D(x.num) \in 1 .. D(t.pktnum)
      BY <2>1, <2>2
    <3>3. x.num # t.pktnum
      BY <1>1, <2>1, <2>2, <2>3, <3>1
    <3> QED BY <3>1, <3>2, <3>3
  <2>6. AheadBack(t, r, p2)
    <3>1. \A x \in Elements(p2) : x.type \in {"Y", "N"} => x \in Elements(p)
      BY LessWithin, ElementsType DEF Within, Answers
    <3>2. \A x \in Elements(p) :
            /\ x.type = "Y" => \/ x.num = Before(r.pktnum)
                               \/ D(x.num) <= r.oldtry /\ D(x.num) <= D(s.pktnum)
            /\ x.type = "N" => x.num = r.pktnum
      BY <1>1, <1>6 DEF Ahead, AheadBack, D
    <3>3. \A x \in Elements(p) : D(x.num) \in Nat
      BY <1>1, <2>3
    <3>4. \A x \in Elements(p) : D(x.num) <= D(s.pktnum) => D(x.num) < D(t.pktnum)
      BY <2>1, <2>2, <3>3
    <3>5. \A x \in Elements(p) : D(x.num) < D(t.pktnum) => D(x.num) <= D(t.pktnum)
      BY <2>1, <2>2, <3>3
    <3> QED BY <3>1, <3>2, <3>4, <3>5 DEF AheadBack, D
  <2>7. Distance(r.pktnum, t.pktnum) \in 1 .. r.oldtry + 1
    BY <2>1, <2>2 DEF D
  <2>8. Ahead(t, r, k, q, p2)
    BY <1>6, <2>4, <2>5, <2>6, <2>7, Zenon DEF Ahead
  <2> QED BY <1>2, <2>4, <2>8 DEF Link
<1> QED BY <1>1, <1>3, <1>4, <1>5, <1>6 DEF Link

\* A NAK of the number after the sender's present one.
LEMMA SSkips ==
  ASSUME NEW s \in SndType, NEW r \in RcvType, NEW d, NEW k,
         NEW q \in Seq(Packets), NEW p \in Seq(Packets), Link(s, r, d, k, q, p),
         s.state \in {"F", "D", "Z", "B"}, p # << >>,
         Head(p).type = "N", Head(p).num = After(s.pktnum),
         NEW t, Goes(s, t, After(After(s.pktnum)), None),
         NEW p2 \in Seq(Packets), NEW z, z \notin Answers, LessBy(p2, p, 1, z)
  PROVE  Link(t, r, d, TRUE, q, p2)
<1>1. /\ Head(p) \in Elements(p) /\ Head(p) \in Packets
      /\ s.pktnum \in Numbers /\ r.pktnum \in Numbers /\ On(s) /\ s.state # "C"
      /\ After(s.pktnum) \in Numbers
  BY HeadIn, PrevNumber, NextNumber DEF SndType, RcvType, Numbers, On
<1>2. SndOK(t) /\ RcvOK(r, d) /\ DiskOK(r, d) /\ PlainAcks(p2)
  <2>1. \A x \in Elements(p2) : x.type = "Y" => x \in Elements(p)
    BY LessWithin, ElementsType DEF Within, Answers
  <2>2. SndOK(t)
    BY GoesOK DEF Link
  <2> QED BY <2>1, <2>2 DEF Link, PlainAcks
<1>3. ~Together(s, r, d, q, p)
  BY <1>1, PrevNumber DEF Together, TogetherBack
<1>4. ~Ahead(s, r, k, q, p)
  <2>1. ASSUME Ahead(s, r, k, q, p) PROVE FALSE
    <3>1. After(s.pktnum) = r.pktnum
      BY <1>1, <2>1 DEF Ahead, AheadBack
    <3>2. s.pktnum = Before(r.pktnum)
      BY <1>1, <3>1, PrevNumber
    <3>3. Distance(r.pktnum, s.pktnum) = PKTMOD - 1 /\ Distance(r.pktnum, s.pktnum) \in Nat
      BY <1>1, <3>2, Distances
    <3> QED BY <2>1, <3>3, Room DEF Ahead
  <2> QED BY <2>1
<1>5. Behind(s, r, d, q, p)
  BY <1>1, <1>3, <1>4 DEF Link
<1>6. r.pktnum = After(s.pktnum) /\ t.pktnum = After(r.pktnum) /\ s.pktnum = Before(r.pktnum)
  BY <1>1, <1>5, PrevNumber DEF Goes, Behind
<1>7. /\ Distance(r.pktnum, t.pktnum) = 1 /\ r.oldtry \in Nat
      /\ t.pktnum # s.pktnum /\ t.state \in {"F", "D", "Z", "B"}
  <2>1. Distance(r.pktnum, After(r.pktnum)) = 1
    <3>1. Distance(r.pktnum, r.pktnum) = 0 /\ r.pktnum # Before(r.pktnum)
      BY <1>1, Distances, PrevNumber
    <3> QED BY <1>1, <3>1, Distances
  <2>2. After(r.pktnum) # Before(r.pktnum)
    BY <1>1, PrevNumber
  <2> QED BY <1>5, <1>6, <2>1, <2>2, Room DEF Goes, Behind
<1>8. AheadOut(t, r, q)
  BY <1>5, <1>6, <1>7 DEF AheadOut, Behind, BehindOut
<1>9. AheadBack(t, r, p2)
  <2>1. Head(p) \in AckAt(s.pktnum) \cup NakAt(r.pktnum)
    BY <1>1, <1>6 DEF NakAt
  <2>2. \A x \in Elements(p2) : /\ x.type = "Y" => x.num = s.pktnum
                                /\ x.type = "N" => x.num = r.pktnum
    BY <1>1, <1>5, <2>1, OnlyAnswers
  <2> QED BY <1>6, <2>2 DEF AheadBack
<1>10. Ahead(t, r, TRUE, q, p2)
  BY <1>5, <1>7, <1>8, <1>9 DEF Ahead, Behind
<1> QED BY <1>2, <1>7, <1>10 DEF Link

-----------------------------------------------------------------------------
(***************************************************************************)
(* The invariant is inductive.                                             *)
(***************************************************************************)

\* The queues and the ends have their types.
LEMMA Typed ==
  ASSUME TypeInv
  PROVE  /\ Line /\ line["snd"] \in Seq(Packets) /\ line["rcv"] \in Seq(Packets)
         /\ snd \in SndType /\ rcv \in RcvType /\ disk \in [Files -> FileType]
         /\ snd.wait => snd.state \in {"S", "F", "D", "Z", "B"}
         /\ rcv.wait => rcv.state \in {"R", "F", "D"}
BY DEF TypeInv, TypeOK, Line, Ends

LEMMA InitLink == Init => LinkInv
<1> SUFFICES ASSUME Init PROVE LinkInv
  OBVIOUS
<1>1. /\ snd.state = "S" /\ snd.chunk = 0 /\ snd.pktnum = 0 /\ snd.file = 1 /\ snd.cxzflg = None
      /\ rcv.state = "R" /\ rcv.pktnum = 0 /\ rcv.cxzflg = None
      /\ line["snd"] = << >> /\ line["rcv"] = << >>
      /\ \A f \in Files : disk[f].status = "absent" /\ disk[f].chunks = << >>
  BY DEF Init, Ends
<1>2. Elements(<< >>) = {} /\ \A Low, High : Sorted(<< >>, Low, High)
  BY DEF Elements, Sorted
<1>3. SndOK(snd)
  <2>1. FileLen[1] \in Nat /\ 0 <= FileLen[1]
    BY FilesFact
  <2> QED BY <1>1, <2>1 DEF SndOK
<1>4. RcvOK(rcv, disk) /\ DiskOK(rcv, disk) /\ PlainAcks(line["snd"])
  BY <1>1, <1>2 DEF RcvOK, DiskOK, PlainAcks, AbsentFrom
<1>5. Together(snd, rcv, disk, line["rcv"], line["snd"])
  BY <1>1, <1>2 DEF Together, TogetherOut, TogetherBack, AtInit
<1> QED BY <1>1, <1>3, <1>4, <1>5 DEF LinkInv, Link

\* The line loses or damages a packet.
LEMMA LineFailsLink ==
  ASSUME TypeInv, LinkInv, NEW e \in Ends, Lose(e) \/ Damage(e)
  PROVE  LinkInv'
<1>1. /\ Line' /\ LessBy(line'[e], line[e], 0, Damaged)
      /\ \A f \in Ends \ {e} : line'[f] = line[f]
      /\ UNCHANGED <<snd, rcv, disk, skipped>>
  BY LineFails, Typed
<1>2. Damaged \notin Own /\ Damaged \notin Answers
  BY PlainPackets, NoEcho
<1>3. Within(line'["rcv"], line["rcv"], Own) /\ Within(line'["snd"], line["snd"], Answers)
  BY <1>1, <1>2, LessWithin, WithinSame DEF Ends
<1>4. line'["snd"] \in Seq(Packets)
  BY <1>1 DEF Line, Ends
<1>5. Link(snd, rcv, disk, skipped, line'["rcv"], line'["snd"])
  BY <1>3, <1>4, Shrink DEF LinkInv
<1> QED BY <1>1, <1>5 DEF LinkInv

\* What a step of the sender does to the queues when it takes n packets and puts
\* x on the line, or none.
LEMMA SndQueues ==
  ASSUME TypeInv, NEW n \in {0, 1}, NEW rest \in Leftovers(line["snd"], n),
         NEW x \in Packets, x.type \notin {"Y", "N"},
         Transmit("snd", x, rest)
  PROVE  /\ line'["snd"] \in Seq(Packets) /\ LessBy(line'["snd"], line["snd"], n, x)
         /\ x \notin Answers /\ Within(line'["snd"], line["snd"], Answers)
         /\ Grown(line'["rcv"], line["rcv"], x)
         /\ x \notin Own => Within(line'["rcv"], line["rcv"], Own)
<1>1. /\ Line' /\ LessBy(line["snd"]', line["snd"], n, x) /\ Grown(line["rcv"]', line["rcv"], x)
  BY SndTransmits, Typed
<1>2. x \notin Answers
  BY NoEcho
<1> QED BY <1>1, <1>2, LessWithin, GrownLess DEF Line, Ends

LEMMA SLeaves ==
  ASSUME TypeInv, NEW n \in {0, 1}, NEW rest \in Leftovers(line["snd"], n), Leave("snd", rest)
  PROVE  /\ line'["snd"] \in Seq(Packets) /\ LessBy(line'["snd"], line["snd"], n, Damaged)
         /\ Damaged \notin Answers /\ Within(line'["snd"], line["snd"], Answers)
         /\ line'["rcv"] = line["rcv"] /\ Within(line'["rcv"], line["rcv"], Own)
<1>1. /\ Line' /\ LessBy(line'["snd"], line["snd"], n, Damaged) /\ line'["rcv"] = line["rcv"]
  BY Left, Typed DEF Ends
<1>2. Damaged \notin Answers
  BY NoEcho, PlainPackets
<1> QED BY <1>1, <1>2, LessWithin, WithinSame DEF Line, Ends

\* The sender stops with an error packet.
LEMMA SAbortLink ==
  ASSUME TypeInv, LinkInv, NEW n \in {0, 1}, NEW rest \in Leftovers(line["snd"], n),
         snd.state # "C", Transmit("snd", ErrorPacket, rest),
         snd' = [snd EXCEPT !.state = "A", !.wait = FALSE],
         UNCHANGED <<rcv, disk, skipped>>
  PROVE  LinkInv'
<1>1. snd \in SndType
  BY Typed
<1>2. /\ snd'.state = "A" /\ snd'.pktnum = snd.pktnum /\ snd'.file = snd.file
      /\ snd'.chunk = snd.chunk /\ snd'.cxzflg = snd.cxzflg
  BY <1>1 DEF SndType
<1>3. Link(snd', rcv, disk, skipped, line["rcv"], line["snd"])
  BY <1>1, <1>2, SStops DEF LinkInv
<1>4. ErrorPacket \notin Own
  BY PlainPackets, NoEcho
<1>5. Link(snd', rcv, disk, skipped, line'["rcv"], line'["snd"])
  BY <1>3, <1>4, PlainPackets, SndQueues, Shrink
<1> QED BY <1>5 DEF LinkInv

\* The sender leaves its queue, or what was taken from it, and keeps its state.
LEMMA SKeepsLink ==
  ASSUME TypeInv, LinkInv, NEW n \in {0, 1}, NEW rest \in Leftovers(line["snd"], n),
         Leave("snd", rest), snd' = snd \/ snd' = [snd EXCEPT !.wait = FALSE],
         UNCHANGED <<rcv, disk, skipped>>
  PROVE  LinkInv'
<1>1. snd \in SndType
  BY Typed
<1>2. /\ snd'.state = snd.state /\ snd'.pktnum = snd.pktnum /\ snd'.file = snd.file
      /\ snd'.chunk = snd.chunk /\ snd'.cxzflg = snd.cxzflg
  BY <1>1 DEF SndType
<1>3. Link(snd', rcv, disk, skipped, line["rcv"], line["snd"])
  BY <1>1, <1>2, SChanges DEF LinkInv
<1>4. Link(snd', rcv, disk, skipped, line'["rcv"], line'["snd"])
  BY <1>3, SLeaves, Shrink
<1> QED BY <1>4 DEF LinkInv

LEMMA STryLink == ASSUME TypeInv, LinkInv, STry PROVE LinkInv'
<1>1. /\ SReady
      /\ snd' = [snd EXCEPT !.wait = TRUE, !.numtry = @ + 1,
                            !.cxzflg = IF snd.state = "F" THEN None ELSE @]
      /\ Transmit("snd", SPacket, line["snd"]) /\ UNCHANGED <<rcv, disk, skipped>>
  BY DEF STry
<1>2. snd \in SndType /\ rcv \in RcvType /\ line["rcv"] \in Seq(Packets)
      /\ disk \in [Files -> FileType]
      /\ line["snd"] \in Leftovers(line["snd"], 0)
      /\ snd.state \in {"S", "F", "D", "Z", "B"} /\ snd' \in SndType
  BY <1>1, Typed, WholeLeft, STryTypes DEF SReady, TypeInv, TypeOK
<1>3. /\ snd'.state = snd.state /\ snd'.pktnum = snd.pktnum /\ snd'.file = snd.file
      /\ snd'.chunk = snd.chunk
      /\ snd'.cxzflg = IF snd.state = "F" THEN None ELSE snd.cxzflg
  BY <1>1, <1>2 DEF SndType
<1>4. Link(snd', rcv, disk, skipped, line["rcv"], line["snd"])
  BY <1>2, <1>3, SChanges DEF LinkInv
<1>5. PacketOf(snd', SPacket)
  <2>1. /\ SPacket \in Packets /\ SPacket.type = snd.state
        /\ SPacket.num = IF snd.state = "S" THEN 0 ELSE snd.pktnum
        /\ snd.state = "F" => SPacket.item = <<snd.file, 0>>
        /\ snd.state = "D" => SPacket.item = <<snd.file, snd.chunk>>
    BY <1>2, SPacketType
  <2>2. snd.state = "S" => snd.pktnum = 0
    BY DEF LinkInv, Link, SndOK
  <2>3. snd.state = "D" => snd.cxzflg = None
    BY <1>1 DEF SReady
  <2> QED BY <1>2, <1>3, <2>1, <2>2, <2>3 DEF PacketOf
<1>6. SPacket.type \notin {"Y", "N"}
  BY <1>2, <1>3, <1>5 DEF PacketOf
<1>7. /\ line'["snd"] \in Seq(Packets) /\ Within(line'["snd"], line["snd"], Answers)
      /\ Grown(line'["rcv"], line["rcv"], SPacket)
  BY <1>1, <1>2, <1>5, <1>6, SndQueues DEF PacketOf
<1>8. Link(snd', rcv, disk, skipped, line'["rcv"], line["snd"])
  BY <1>2, <1>4, <1>5, <1>7, SSends
<1>9. Link(snd', rcv, disk, skipped, line'["rcv"], line'["snd"])
  BY <1>7, <1>8, WithinSame, Shrink
<1> QED BY <1>1, <1>9 DEF LinkInv

LEMMA SAnswerLink == ASSUME TypeInv, LinkInv, SAnswer PROVE LinkInv'
<1>1. PICK rest \in Leftovers(line["snd"], 1) :
        SAck(rest) \/ SNakOfNext(rest) \/ SRetry(rest) \/ SError(rest)
  BY DEF SAnswer
<1>2. /\ SWaits /\ snd.state \in {"S", "F", "D", "Z", "B"}
      /\ snd \in SndType /\ rcv \in RcvType
      /\ line["snd"] \in Seq(Packets) /\ line["snd"] # << >> /\ line["rcv"] \in Seq(Packets)
      /\ Arrived("snd") = Head(line["snd"])
  BY <1>1, Typed DEF SAck, SNakOfNext, SRetry, SError, SWaits, Arrived
<1>3. CASE SAck(rest)
  <2>1. /\ Head(line["snd"]).type = "Y" /\ Head(line["snd"]).num = snd.pktnum
        /\ snd' = SNext(After(snd.pktnum), Head(line["snd"]).flag)
        /\ Leave("snd", rest) /\ UNCHANGED <<rcv, disk, skipped>>
    BY <1>2, <1>3 DEF SAck
  <2>2. Goes(snd, snd', After(snd.pktnum), Head(line["snd"]).flag)
    BY <1>2, <2>1, SGoes
  <2>3. /\ line'["snd"] \in Seq(Packets) /\ LessBy(line'["snd"], line["snd"], 1, Damaged)
        /\ Damaged \notin Answers /\ line'["rcv"] = line["rcv"]
    BY <2>1, SLeaves
  <2>4. Link(snd', rcv, disk, skipped, line["rcv"], line'["snd"])
    BY <1>2, <2>1, <2>2, <2>3, SAdvances DEF LinkInv
  <2> QED BY <2>1, <2>3, <2>4 DEF LinkInv
<1>4. CASE SNakOfNext(rest)
  <2>1. /\ Head(line["snd"]).type = "N" /\ Head(line["snd"]).num = After(snd.pktnum)
        /\ snd.state # "S" /\ snd' = SNext(After(After(snd.pktnum)), None) /\ skipped' = TRUE
        /\ Leave("snd", rest) /\ UNCHANGED <<rcv, disk>>
    BY <1>2, <1>4 DEF SNakOfNext
  <2>2. Goes(snd, snd', After(After(snd.pktnum)), None)
    BY <1>2, <2>1, SGoes
  <2>3. /\ line'["snd"] \in Seq(Packets) /\ LessBy(line'["snd"], line["snd"], 1, Damaged)
        /\ Damaged \notin Answers /\ line'["rcv"] = line["rcv"]
    BY <2>1, SLeaves
  <2>4. Link(snd', rcv, disk, TRUE, line["rcv"], line'["snd"])
    BY <1>2, <2>1, <2>2, <2>3, SSkips DEF LinkInv
  <2> QED BY <2>1, <2>3, <2>4 DEF LinkInv
<1>5. CASE SRetry(rest)
  BY <1>5, SKeepsLink DEF SRetry
<1>6. CASE SError(rest)
  BY <1>2, <1>6, SAbortLink DEF SError, SAbort
<1> QED BY <1>1, <1>3, <1>4, <1>5, <1>6

\* Every step of the sender.
LEMMA SndStepLink ==
  ASSUME TypeInv, LinkInv, SStep \/ SWaitEnds \/ (\E k \in Keys : SKey(k))
  PROVE  LinkInv'
<1>0. snd \in SndType /\ line["snd"] \in Seq(Packets) /\ line["rcv"] \in Seq(Packets)
      /\ line["snd"] \in Leftovers(line["snd"], 0)
  BY Typed, WholeLeft
<1>1. CASE SInterrupted
  <2>1. /\ snd.state = "D" /\ snd.cxzflg # None /\ snd' = [snd EXCEPT !.state = "Z"]
        /\ UNCHANGED <<rcv, disk, line, skipped>>
    BY <1>1 DEF SInterrupted
  <2>2. /\ snd'.state = "Z" /\ snd'.pktnum = snd.pktnum /\ snd'.file = snd.file
        /\ snd'.chunk = snd.chunk /\ snd'.cxzflg = snd.cxzflg
    BY <1>0, <2>1 DEF SndType
  <2>3. Link(snd', rcv, disk, skipped, line["rcv"], line["snd"])
    BY <1>0, <2>1, <2>2, SInterrupts DEF LinkInv
  <2> QED BY <2>1, <2>3 DEF LinkInv
<1>2. CASE SGiveUp
  <2>1. /\ snd.state # "C" /\ Transmit("snd", ErrorPacket, line["snd"])
        /\ snd' = [snd EXCEPT !.state = "A", !.wait = FALSE]
        /\ UNCHANGED <<rcv, disk, skipped>>
    BY <1>2 DEF SGiveUp, SReady, SAbort
  <2> QED BY <1>0, <2>1, SAbortLink
<1>3. CASE SEcho
  <2>1. Tail(line["snd"]) \in Leftovers(line["snd"], 1)
    BY <1>0, <1>3, TailLess DEF SEcho, SWaits
  <2> QED BY <1>3, <2>1, SKeepsLink DEF SEcho
<1>4. CASE SWaitEnds
  <2>1. PICK rest \in Leftovers(line["snd"], 0) : STimeOut(rest)
    BY <1>4 DEF SWaitEnds
  <2> QED BY <2>1, SKeepsLink DEF STimeOut
<1>5. ASSUME NEW k \in Keys, SKey(k) PROVE LinkInv'
  <2>1. snd.wait /\ snd.state # "C" /\ UNCHANGED <<rcv, disk, skipped>>
    BY <1>5, Typed DEF SKey
  <2>2. CASE k = "C"
    BY <1>0, <1>5, <2>1, <2>2, SAbortLink DEF SKey
  <2>3. CASE k # "C"
    <3>1. snd' = [snd EXCEPT !.cxzflg = k] /\ UNCHANGED line
      BY <1>5, <2>3 DEF SKey
    <3>2. k # None /\ Interrupted
      BY <1>5, <2>3, LinkAssumption DEF LinkAssumption, Interrupted, None
    <3>3. /\ snd'.state = snd.state /\ snd'.pktnum = snd.pktnum /\ snd'.file = snd.file
          /\ snd'.chunk = snd.chunk /\ snd'.cxzflg = k
      BY <1>0, <3>1 DEF SndType
    <3>4. Link(snd', rcv, disk, skipped, line["rcv"], line["snd"])
      BY <1>0, <3>2, <3>3, SChanges DEF LinkInv
    <3> QED BY <2>1, <3>1, <3>4 DEF LinkInv
  <2> QED BY <2>2, <2>3
<1> QED BY <1>1, <1>2, <1>3, <1>4, <1>5, STryLink, SAnswerLink DEF SStep

\* What a step of the receiver does to the queues when it takes n packets and
\* puts x on the line.
LEMMA RcvQueues ==
  ASSUME TypeInv, NEW n \in {0, 1}, NEW rest \in Leftovers(line["rcv"], n),
         NEW x \in Packets, x.type \in {"Y", "N", "E"},
         Transmit("rcv", x, rest)
  PROVE  /\ LessBy(line'["rcv"], line["rcv"], n, x) /\ x \notin Own
         /\ Within(line'["rcv"], line["rcv"], Own)
         /\ line'["snd"] \in Seq(Packets) /\ Grown(line'["snd"], line["snd"], x)
         /\ x \notin Answers => Within(line'["snd"], line["snd"], Answers)
<1>1. /\ Line' /\ LessBy(line["rcv"]', line["rcv"], n, x) /\ Grown(line["snd"]', line["snd"], x)
  BY RcvTransmits, Typed
<1>2. x \notin Own
  BY NoEcho
<1> QED BY <1>1, <1>2, LessWithin, GrownLess DEF Line, Ends

\* The receiver stops with an error packet.
LEMMA RAbortLink ==
  ASSUME TypeInv, LinkInv, NEW n \in {0, 1}, NEW rest \in Leftovers(line["rcv"], n),
         rcv.state \in {"R", "F", "D"}, Transmit("rcv", ErrorPacket, rest),
         rcv' = [rcv EXCEPT !.state = "A", !.wait = FALSE, !.last = "E"],
         UNCHANGED <<snd, disk, skipped>>
  PROVE  LinkInv'
<1>1. rcv \in RcvType
  BY Typed
<1>2. /\ rcv'.state = "A" /\ rcv'.pktnum = rcv.pktnum /\ rcv'.oldtry = rcv.oldtry
      /\ rcv'.cxzflg = rcv.cxzflg
  BY <1>1 DEF RcvType
<1>3. Link(snd, rcv', disk, skipped, line["rcv"], line["snd"])
  BY <1>1, <1>2, RStops DEF LinkInv, On
<1>4. ErrorPacket \notin Answers
  BY PlainPackets, NoEcho
<1>5. Link(snd, rcv', disk, skipped, line'["rcv"], line'["snd"])
  BY <1>3, <1>4, PlainPackets, RcvQueues, Shrink
<1> QED BY <1>5 DEF LinkInv

\* The receiver sends a NAK of the packet it expects; it may have counted a try.
LEMMA RNakLink ==
  ASSUME TypeInv, LinkInv, NEW n \in {0, 1}, NEW rest \in Leftovers(line["rcv"], n),
         NEW o \in {rcv.oldtry, rcv.oldtry + 1},
         rcv' = [rcv EXCEPT !.oldtry = o, !.wait = FALSE, !.last = "N"], rcv' \in RcvType,
         Transmit("rcv", Packet("N", rcv.pktnum), rest),
         UNCHANGED <<snd, disk, skipped>>
  PROVE  LinkInv'
<1> DEFINE x == Packet("N", rcv.pktnum)
<1>1. /\ rcv \in RcvType /\ snd \in SndType /\ line["snd"] \in Seq(Packets)
      /\ rcv.pktnum \in Numbers
  BY Typed DEF RcvType, Numbers
<1>2. /\ rcv'.state = rcv.state /\ rcv'.pktnum = rcv.pktnum /\ rcv'.oldtry = o
      /\ rcv'.cxzflg = rcv.cxzflg /\ rcv'.file = rcv.file
  BY <1>1 DEF RcvType
<1>3. x \in Packets /\ x.type = "N" /\ x.num = rcv.pktnum
  BY <1>1, PacketType DEF Types
<1> HIDE DEF x
<1>4. Link(snd, rcv', disk, skipped, line["rcv"], line["snd"])
  BY <1>1, <1>2, RChanges DEF LinkInv
<1>5. /\ Within(line'["rcv"], line["rcv"], Own) /\ line'["snd"] \in Seq(Packets)
      /\ Grown(line'["snd"], line["snd"], x)
  <2>1. Transmit("rcv", x, rest)
    BY DEF x
  <2> QED BY <1>3, <2>1, RcvQueues
<1>6. Link(snd, rcv', disk, skipped, line["rcv"], line'["snd"])
  BY <1>1, <1>2, <1>3, <1>4, <1>5, RNaks
<1>7. Link(snd, rcv', disk, skipped, line'["rcv"], line'["snd"])
  BY <1>5, <1>6, WithinSame, Shrink
<1> QED BY <1>7 DEF LinkInv

LEMMA RTryLink == ASSUME TypeInv, LinkInv, RTry PROVE LinkInv'
<1>1. /\ rcv' = [rcv EXCEPT !.wait = TRUE, !.numtry = @ + 1]
      /\ UNCHANGED <<snd, disk, line, skipped>>
  BY DEF RTry
<1>2. rcv \in RcvType /\ snd \in SndType /\ line["snd"] \in Seq(Packets)
  BY Typed
<1>3. /\ rcv'.state = rcv.state /\ rcv'.pktnum = rcv.pktnum /\ rcv'.oldtry = rcv.oldtry
      /\ rcv'.cxzflg = rcv.cxzflg /\ rcv'.file = rcv.file
  BY <1>1, <1>2 DEF RcvType
<1>4. Link(snd, rcv', disk, skipped, line["rcv"], line["snd"])
  BY <1>2, <1>3, RChanges DEF LinkInv
<1> QED BY <1>1, <1>4 DEF LinkInv

LEMMA REchoLink == ASSUME TypeInv, LinkInv, REcho PROVE LinkInv'
<1>1. /\ RWaits /\ Leave("rcv", Tail(line["rcv"]))
      /\ UNCHANGED <<snd, rcv, disk, skipped>>
  BY DEF REcho
<1>2. Tail(line["rcv"]) \in Leftovers(line["rcv"], 1)
  BY <1>1, TailLess, Typed DEF RWaits
<1>3. /\ Line' /\ LessBy(line'["rcv"], line["rcv"], 1, Damaged) /\ line'["snd"] = line["snd"]
  BY <1>1, <1>2, Left, Typed DEF Ends
<1>4. Within(line'["rcv"], line["rcv"], Own)
  BY <1>3, LessWithin, NoEcho, PlainPackets
<1>5. Link(snd, rcv, disk, skipped, line'["rcv"], line'["snd"])
  BY <1>3, <1>4, WithinSame, Shrink, Typed DEF LinkInv
<1> QED BY <1>1, <1>5 DEF LinkInv

\* The receiver's reply to the packet it takes.
LEMMA Replies ==
  ASSUME TypeInv, RWaits, NEW rest \in Leftovers(line["rcv"], 1), NEW r, NEW x \in Packets,
         x.type = "Y", Reply(r, x, rest)
  PROVE  /\ rcv' = [r EXCEPT !.wait = FALSE, !.last = "Y"] /\ UNCHANGED <<snd, skipped>>
         /\ LessBy(line'["rcv"], line["rcv"], 1, x) /\ x \notin Own
         /\ Within(line'["rcv"], line["rcv"], Own)
         /\ line'["snd"] \in Seq(Packets) /\ Grown(line'["snd"], line["snd"], x)
         /\ line["rcv"] # << >> /\ Arrived("rcv") = Head(line["rcv"])
<1>1. Transmit("rcv", x, rest)
  BY DEF Reply
<1> QED BY <1>1, RcvQueues DEF Reply, RWaits, Arrived

LEMMA RInitLink ==
  ASSUME TypeInv, LinkInv, NEW rest \in Leftovers(line["rcv"], 1), RInit(rest)
  PROVE  LinkInv'
<1> DEFINE n == Arrived("rcv").num
           r == [rcv EXCEPT !.state = "F", !.oldtry = rcv.numtry, !.numtry = 0, !.pktnum = After(n)]
           x == Packet("Y", n)
<1>1. /\ RWaits /\ rcv.state = "R" /\ Arrived("rcv").type = "S" /\ Reply(r, x, rest)
      /\ UNCHANGED disk
  BY DEF RInit, RGets
<1>2. /\ rcv \in RcvType /\ snd \in SndType /\ n \in Numbers
      /\ line["rcv"] \in Seq(Packets) /\ line["snd"] \in Seq(Packets)
  BY <1>1, RTakes, Typed
<1>3. r.state = "F" /\ r.pktnum = After(n) /\ r.cxzflg = rcv.cxzflg
      /\ [r EXCEPT !.wait = FALSE, !.last = "Y"].state = "F"
      /\ [r EXCEPT !.wait = FALSE, !.last = "Y"].pktnum = After(n)
      /\ [r EXCEPT !.wait = FALSE, !.last = "Y"].cxzflg = rcv.cxzflg
  BY <1>2 DEF RcvType
<1>4. x \in Packets /\ x.type = "Y" /\ x.num = n /\ x.flag = None
  BY <1>2, PacketType DEF Types
<1> HIDE DEF r, x
<1>5. /\ rcv' = [r EXCEPT !.wait = FALSE, !.last = "Y"] /\ UNCHANGED <<snd, skipped>>
      /\ LessBy(line'["rcv"], line["rcv"], 1, x) /\ x \notin Own
      /\ line'["snd"] \in Seq(Packets) /\ Grown(line'["snd"], line["snd"], x)
      /\ line["rcv"] # << >> /\ Arrived("rcv") = Head(line["rcv"])
  BY <1>1, <1>4, Replies
<1>6. Link(snd, rcv', disk, skipped, line'["rcv"], line'["snd"])
  BY <1>1, <1>2, <1>3, <1>4, <1>5, RTakesInit DEF LinkInv
<1> QED BY <1>1, <1>5, <1>6 DEF LinkInv

LEMMA RBreakLink ==
  ASSUME TypeInv, LinkInv, NEW rest \in Leftovers(line["rcv"], 1), RBreak(rest)
  PROVE  LinkInv'
<1> DEFINE r == [rcv EXCEPT !.state = "C"]
           x == Packet("Y", rcv.pktnum)
<1>1. /\ RWaits /\ rcv.state = "F" /\ Arrived("rcv").type = "B" /\ Reply(r, x, rest)
      /\ Arrived("rcv").num = rcv.pktnum /\ UNCHANGED disk
  BY DEF RBreak, RGets, Expected
<1>2. /\ rcv \in RcvType /\ snd \in SndType /\ rcv.pktnum \in Numbers
      /\ line["rcv"] \in Seq(Packets) /\ line["snd"] \in Seq(Packets)
  BY <1>1, RTakes, Typed
<1>3. /\ [r EXCEPT !.wait = FALSE, !.last = "Y"].state = "C"
      /\ [r EXCEPT !.wait = FALSE, !.last = "Y"].pktnum = rcv.pktnum
      /\ [r EXCEPT !.wait = FALSE, !.last = "Y"].cxzflg = rcv.cxzflg
  BY <1>2 DEF RcvType
<1>4. x \in Packets /\ x.type = "Y" /\ x.num = rcv.pktnum /\ x.flag = None
  BY <1>2, PacketType DEF Types
<1> HIDE DEF r, x
<1>5. /\ rcv' = [r EXCEPT !.wait = FALSE, !.last = "Y"] /\ UNCHANGED <<snd, skipped>>
      /\ Within(line'["rcv"], line["rcv"], Own)
      /\ line'["snd"] \in Seq(Packets) /\ Grown(line'["snd"], line["snd"], x)
      /\ line["rcv"] # << >> /\ Arrived("rcv") = Head(line["rcv"])
  BY <1>1, <1>4, Replies
<1>6. Link(snd, rcv', disk, skipped, line["rcv"], line'["snd"])
  BY <1>1, <1>2, <1>3, <1>4, <1>5, RTakesBreak DEF LinkInv
<1>7. Link(snd, rcv', disk, skipped, line'["rcv"], line'["snd"])
  BY <1>5, <1>6, WithinSame, Shrink
<1> QED BY <1>1, <1>5, <1>7 DEF LinkInv

\* upack with the record r, an acknowledgement with the flag f.
LEMMA Upacks ==
  ASSUME TypeInv, RWaits, NEW rest \in Leftovers(line["rcv"], 1),
         NEW r \in RcvType, NEW f \in {None, "X", "Z"},
         NEW x, x = [Packet("Y", rcv.pktnum) EXCEPT !.flag = f],
         Upack(r, x, rest)
  PROVE  /\ x \in Packets /\ x.type = "Y" /\ x.num = rcv.pktnum /\ x.flag = f
         /\ rcv'.pktnum = After(rcv.pktnum) /\ rcv'.state = r.state
         /\ rcv'.cxzflg = r.cxzflg /\ rcv'.file = r.file
         /\ UNCHANGED <<snd, skipped>>
         /\ LessBy(line'["rcv"], line["rcv"], 1, x) /\ x \notin Own
         /\ Grown(line'["snd"], line["snd"], x)
         /\ line["rcv"] # << >> /\ Arrived("rcv") = Head(line["rcv"])
<1> DEFINE u == [r EXCEPT !.oldtry = rcv.numtry, !.numtry = 0, !.pktnum = After(rcv.pktnum)]
<1>1. Reply(u, x, rest)
  BY DEF Upack
<1>2. x \in Packets /\ x.type = "Y" /\ x.num = rcv.pktnum /\ x.flag = f
  <2>1. rcv.pktnum \in Numbers /\ "Y" \in Types /\ f \in Flags
    BY Typed DEF RcvType, Numbers, Types, Flags
  <2> QED BY <2>1, FlagType
<1>3. /\ [u EXCEPT !.wait = FALSE, !.last = "Y"].pktnum = After(rcv.pktnum)
      /\ [u EXCEPT !.wait = FALSE, !.last = "Y"].state = r.state
      /\ [u EXCEPT !.wait = FALSE, !.last = "Y"].cxzflg = r.cxzflg
      /\ [u EXCEPT !.wait = FALSE, !.last = "Y"].file = r.file
  BY DEF RcvType
<1> HIDE DEF u
<1>4. /\ rcv' = [u EXCEPT !.wait = FALSE, !.last = "Y"] /\ UNCHANGED <<snd, skipped>>
      /\ LessBy(line'["rcv"], line["rcv"], 1, x) /\ x \notin Own
      /\ Grown(line'["snd"], line["snd"], x)
      /\ line["rcv"] # << >> /\ Arrived("rcv") = Head(line["rcv"])
  BY <1>1, <1>2, Replies
<1> QED BY <1>2, <1>3, <1>4

LEMMA PlainAck == Packet("Y", rcv.pktnum) = [Packet("Y", rcv.pktnum) EXCEPT !.flag = None]
BY DEF Packet

LEMMA RFileLink ==
  ASSUME TypeInv, LinkInv, NEW rest \in Leftovers(line["rcv"], 1), RFile(rest)
  PROVE  LinkInv'
<1> DEFINE f == Arrived("rcv").item[1]
           r == [rcv EXCEPT !.state = "D", !.file = f]
           x == Packet("Y", rcv.pktnum)
<1>1. /\ RWaits /\ rcv.state = "F" /\ Arrived("rcv").type = "F"
      /\ Arrived("rcv").num = rcv.pktnum
      /\ \/ /\ Upack(r, x, rest)
            /\ disk' = [disk EXCEPT ![f] = [status |-> "open", chunks |-> << >>]]
         \/ RAbort(rest) /\ UNCHANGED disk
  BY DEF RFile, RGets, Expected
<1>2. /\ rcv \in RcvType /\ snd \in SndType /\ disk \in [Files -> FileType]
      /\ line["rcv"] \in Seq(Packets) /\ line["snd"] \in Seq(Packets)
      /\ f \in Files \cup {0}
  BY <1>1, RTakes, Typed, ItemParts
<1>3. CASE RAbort(rest) /\ UNCHANGED disk
  BY <1>1, <1>3, RAbortLink DEF RAbort
<1>4. CASE /\ Upack(r, x, rest)
           /\ disk' = [disk EXCEPT ![f] = [status |-> "open", chunks |-> << >>]]
  <2>1. r \in RcvType /\ r.state = "D" /\ r.file = f /\ r.cxzflg = rcv.cxzflg
    <3> HIDE DEF f
    <3> QED BY <1>2 DEF RcvType
  <2> HIDE DEF r
  <2>2. /\ x \in Packets /\ x.type = "Y" /\ x.num = rcv.pktnum /\ x.flag = None
        /\ rcv'.pktnum = After(rcv.pktnum) /\ rcv'.state = r.state
        /\ rcv'.cxzflg = r.cxzflg /\ rcv'.file = r.file
        /\ UNCHANGED <<snd, skipped>>
        /\ LessBy(line'["rcv"], line["rcv"], 1, x) /\ x \notin Own
        /\ Grown(line'["snd"], line["snd"], x)
        /\ line["rcv"] # << >> /\ Arrived("rcv") = Head(line["rcv"])
    BY <1>1, <1>4, <2>1, PlainAck, Upacks
  <2> HIDE DEF x
  <2>3. \A g \in Files :
          /\ disk'[g].status = IF g = rcv'.file THEN "open" ELSE disk[g].status
          /\ disk'[g].chunks = IF g = rcv'.file THEN << >> ELSE disk[g].chunks
    <3> HIDE DEF f
    <3> QED BY <1>2, <1>4, <2>1, <2>2 DEF FileType
  <2>4. rcv'.state = "D" /\ rcv'.file = Head(line["rcv"]).item[1] /\ rcv'.cxzflg = rcv.cxzflg
    BY <2>1, <2>2
  <2>5. Link(snd, rcv', disk', skipped, line'["rcv"], line'["snd"])
    BY <1>1, <1>2, <2>2, <2>3, <2>4, RTakesFile DEF LinkInv
  <2> QED BY <2>2, <2>5 DEF LinkInv
<1> QED BY <1>1, <1>3, <1>4

LEMMA RDataLink ==
  ASSUME TypeInv, LinkInv, NEW rest \in Leftovers(line["rcv"], 1), RData(rest)
  PROVE  LinkInv'
<1> DEFINE x == [Packet("Y", rcv.pktnum) EXCEPT !.flag = rcv.cxzflg]
<1>0. x = [Packet("Y", rcv.pktnum) EXCEPT !.flag = rcv.cxzflg]
  OBVIOUS
<1>1. /\ RWaits /\ rcv.state = "D" /\ Arrived("rcv").type = "D"
      /\ Arrived("rcv").num = rcv.pktnum
  BY DEF RData, RGets, Expected
<1>2. /\ rcv \in RcvType /\ snd \in SndType /\ disk \in [Files -> FileType]
      /\ line["rcv"] \in Seq(Packets) /\ line["snd"] \in Seq(Packets)
      /\ rcv.cxzflg \in {None, "X", "Z"}
  BY <1>1, RTakes, Typed DEF RcvType
<1>3. \/ /\ Upack(rcv, x, rest)
         /\ IF rcv.cxzflg = None
            THEN disk' = [disk EXCEPT ![rcv.file].chunks = Append(@, Arrived("rcv").item)]
            ELSE disk' = disk
      \/ RAbort(rest) /\ UNCHANGED disk
  <2>1. CASE rcv.cxzflg = None
    <3>1. x = Packet("Y", rcv.pktnum)
      BY <2>1, PlainAck
    <3> HIDE DEF x
    <3>2. \/ /\ Upack(rcv, x, rest)
             /\ disk' = [disk EXCEPT ![rcv.file].chunks = Append(@, Arrived("rcv").item)]
          \/ RAbort(rest) /\ UNCHANGED disk
      BY <2>1, <3>1 DEF RData
    <3> QED BY <2>1, <3>2
  <2>2. CASE rcv.cxzflg # None
    BY <2>2 DEF RData
  <2> QED BY <2>1, <2>2
<1> HIDE DEF x
<1>4. CASE RAbort(rest) /\ UNCHANGED disk
  BY <1>1, <1>4, RAbortLink DEF RAbort
<1>5. CASE /\ Upack(rcv, x, rest)
           /\ IF rcv.cxzflg = None
              THEN disk' = [disk EXCEPT ![rcv.file].chunks = Append(@, Arrived("rcv").item)]
              ELSE disk' = disk
  <2>1. /\ x \in Packets /\ x.type = "Y" /\ x.num = rcv.pktnum /\ x.flag = rcv.cxzflg
        /\ rcv'.pktnum = After(rcv.pktnum) /\ rcv'.state = rcv.state
        /\ rcv'.cxzflg = rcv.cxzflg /\ rcv'.file = rcv.file
        /\ UNCHANGED <<snd, skipped>>
        /\ LessBy(line'["rcv"], line["rcv"], 1, x) /\ x \notin Own
        /\ Grown(line'["snd"], line["snd"], x)
        /\ line["rcv"] # << >> /\ Arrived("rcv") = Head(line["rcv"])
    <3>1. Upack(rcv, x, rest)
      BY <1>5
    <3> QED BY <1>0, <1>1, <1>2, <3>1, Upacks
  <2>2. \A f \in Files :
          /\ disk'[f].status = disk[f].status
          /\ disk'[f].chunks = IF f = rcv.file /\ rcv.cxzflg = None
                               THEN Append(disk[f].chunks, Head(line["rcv"]).item)
                               ELSE disk[f].chunks
    <3>1. \A f \in Files : disk[f] \in FileType
      BY <1>2
    <3>2. CASE rcv.cxzflg = None
      <4>1. disk' = [disk EXCEPT ![rcv.file].chunks = Append(@, Head(line["rcv"]).item)]
        BY <1>5, <2>1, <3>2
      <4> QED BY <1>2, <3>1, <3>2, <4>1 DEF FileType
    <3>3. CASE rcv.cxzflg # None
      BY <1>5, <3>3
    <3> QED BY <3>2, <3>3
  <2>3. Link(snd, rcv', disk', skipped, line'["rcv"], line'["snd"])
    BY <1>1, <1>2, <2>1, <2>2, RTakesData DEF LinkInv
  <2> QED BY <2>1, <2>3 DEF LinkInv
<1> QED BY <1>3, <1>4, <1>5

LEMMA REofLink ==
  ASSUME TypeInv, LinkInv, NEW rest \in Leftovers(line["rcv"], 1), REof(rest)
  PROVE  LinkInv'
<1> DEFINE r == [rcv EXCEPT !.state = "F", !.cxzflg = IF @ = "X" THEN None ELSE @]
           x == Packet("Y", rcv.pktnum)
<1>1. /\ RWaits /\ rcv.state = "D" /\ Arrived("rcv").type = "Z"
      /\ Arrived("rcv").num = rcv.pktnum
  BY DEF REof, RGets, Expected
<1>2. /\ rcv \in RcvType /\ snd \in SndType /\ disk \in [Files -> FileType]
      /\ line["rcv"] \in Seq(Packets) /\ line["snd"] \in Seq(Packets)
  BY <1>1, RTakes, Typed
<1>3. r \in RcvType /\ r.state = "F" /\ r.cxzflg \in {rcv.cxzflg, None}
      /\ (rcv.cxzflg = None => r = [rcv EXCEPT !.state = "F"])
  BY <1>2 DEF RcvType, None
<1> HIDE DEF r
<1>4. \/ /\ Upack(r, x, rest)
         /\ IF rcv.cxzflg = None
            THEN disk' = [disk EXCEPT ![rcv.file].status = "kept"]
            ELSE disk' = [disk EXCEPT ![rcv.file] = [status |-> "deleted", chunks |-> << >>]]
      \/ RAbort(rest) /\ UNCHANGED disk
  <2>1. CASE rcv.cxzflg = None
    <3>1. \/ /\ Upack(r, x, rest)
             /\ disk' = [disk EXCEPT ![rcv.file].status = "kept"]
          \/ RAbort(rest) /\ UNCHANGED disk
      BY <1>3, <2>1 DEF REof
    <3> QED BY <2>1, <3>1
  <2>2. CASE rcv.cxzflg # None
    BY <2>2 DEF REof, r
  <2> QED BY <2>1, <2>2
<1>5. CASE RAbort(rest) /\ UNCHANGED disk
  BY <1>1, <1>5, RAbortLink DEF RAbort
<1>6. CASE /\ Upack(r, x, rest)
           /\ IF rcv.cxzflg = None
              THEN disk' = [disk EXCEPT ![rcv.file].status = "kept"]
              ELSE disk' = [disk EXCEPT ![rcv.file] = [status |-> "deleted", chunks |-> << >>]]
  <2>1. /\ x \in Packets /\ x.type = "Y" /\ x.num = rcv.pktnum /\ x.flag = None
        /\ rcv'.pktnum = After(rcv.pktnum) /\ rcv'.state = r.state
        /\ rcv'.cxzflg = r.cxzflg /\ UNCHANGED <<snd, skipped>>
        /\ LessBy(line'["rcv"], line["rcv"], 1, x) /\ x \notin Own
        /\ Grown(line'["snd"], line["snd"], x)
        /\ line["rcv"] # << >> /\ Arrived("rcv") = Head(line["rcv"])
    BY <1>1, <1>3, <1>6, PlainAck, Upacks
  <2> HIDE DEF x
  <2>2. \A f \in Files :
          /\ disk'[f].status = IF f # rcv.file THEN disk[f].status
                               ELSE IF rcv.cxzflg = None THEN "kept" ELSE "deleted"
          /\ disk'[f].chunks = IF f # rcv.file \/ rcv.cxzflg = None
                               THEN disk[f].chunks ELSE << >>
    BY <1>2, <1>6 DEF FileType
  <2>3. Link(snd, rcv', disk', skipped, line'["rcv"], line'["snd"])
    BY <1>1, <1>2, <1>3, <2>1, <2>2, RTakesEof DEF LinkInv
  <2> QED BY <2>1, <2>3 DEF LinkInv
<1> QED BY <1>4, <1>5, <1>6

LEMMA RPreviousLink ==
  ASSUME TypeInv, LinkInv, NEW rest \in Leftovers(line["rcv"], 1), RPrevious(rest)
  PROVE  LinkInv'
<1> DEFINE h == Arrived("rcv")
           r == [[rcv EXCEPT !.oldtry = @ + 1] EXCEPT !.numtry = 0]
           x == Packet("Y", h.num)
<1>1. /\ RWaits /\ UNCHANGED disk
      /\ \/ RAbort(rest)
         \/ /\ rcv.oldtry + 1 \in 0 .. MostTries
            /\ \/ ChkpolSkips /\ Reply(r, x, rest)
               \/ Nak([rcv EXCEPT !.oldtry = @ + 1], rest)
  BY RPreviousCases
<1>2. /\ rcv \in RcvType /\ snd \in SndType /\ h.num \in Numbers /\ h \in Elements(line["rcv"])
      /\ line["rcv"] \in Seq(Packets) /\ line["snd"] \in Seq(Packets)
      /\ rcv.state \in {"R", "F", "D"} /\ rcv.pktnum \in Numbers
  BY <1>1, RTakes, Typed
<1>3. CASE RAbort(rest)
  BY <1>1, <1>2, <1>3, RAbortLink DEF RAbort
<1>4. CASE /\ rcv.oldtry + 1 \in 0 .. MostTries
           /\ Nak([rcv EXCEPT !.oldtry = @ + 1], rest)
  <2>1. /\ rcv' = [rcv EXCEPT !.oldtry = rcv.oldtry + 1, !.wait = FALSE, !.last = "N"]
        /\ Transmit("rcv", Packet("N", rcv.pktnum), rest)
        /\ UNCHANGED <<snd, skipped>>
    <3>1. Packet("N", rcv.pktnum).type = "N"
      BY DEF Packet
    <3> QED BY <1>2, <1>4, <3>1 DEF Nak, Reply, RcvType
  <2>2. rcv' \in RcvType
    BY <1>2, <1>4, <2>1 DEF RcvType
  <2> QED BY <1>1, <2>1, <2>2, RNakLink
<1>5. CASE /\ rcv.oldtry + 1 \in 0 .. MostTries
           /\ ChkpolSkips /\ Reply(r, x, rest)
  <2>1. /\ [r EXCEPT !.wait = FALSE, !.last = "Y"].state = rcv.state
        /\ [r EXCEPT !.wait = FALSE, !.last = "Y"].pktnum = rcv.pktnum
        /\ [r EXCEPT !.wait = FALSE, !.last = "Y"].file = rcv.file
        /\ [r EXCEPT !.wait = FALSE, !.last = "Y"].cxzflg = rcv.cxzflg
        /\ [r EXCEPT !.wait = FALSE, !.last = "Y"].oldtry = rcv.oldtry + 1
    BY <1>2 DEF RcvType
  <2>2. x \in Packets /\ x.type = "Y" /\ x.num = h.num /\ x.flag = None
    BY <1>2, PacketType DEF Types
  <2>3. /\ \/ rcv.state = "F" /\ h.type \in {"S", "Z"}
           \/ rcv.state = "D" /\ h.type = "F"
           \/ rcv.state = "D" /\ h.type = "D" /\ h.num # rcv.pktnum
        /\ h.num # Before(rcv.pktnum)
    BY <1>5 DEF RPrevious, RGets, ChkpolSkips, Expected
  <2> HIDE DEF r, x, h
  <2>4. /\ rcv' = [r EXCEPT !.wait = FALSE, !.last = "Y"] /\ UNCHANGED <<snd, skipped>>
        /\ Within(line'["rcv"], line["rcv"], Own)
        /\ line'["snd"] \in Seq(Packets) /\ Grown(line'["snd"], line["snd"], x)
    BY <1>1, <1>5, <2>2, Replies
  <2>5. Link(snd, rcv', disk, skipped, line["rcv"], line'["snd"])
    BY <1>2, <2>1, <2>2, <2>3, <2>4, RAcksAgain DEF LinkInv
  <2>6. Link(snd, rcv', disk, skipped, line'["rcv"], line'["snd"])
    BY <2>4, <2>5, WithinSame, Shrink
  <2> QED BY <1>1, <2>4, <2>6 DEF LinkInv
<1> QED BY <1>1, <1>3, <1>4, <1>5

LEMMA RAnswerLink == ASSUME TypeInv, LinkInv, RAnswer PROVE LinkInv'
<1>1. PICK rest \in Leftovers(line["rcv"], 1) :
        \/ RBad(rest) \/ RInit(rest) \/ RUnexpected(rest) \/ RPrevious(rest)
        \/ RFile(rest) \/ RBreak(rest) \/ RData(rest) \/ REof(rest) \/ RError(rest)
  BY DEF RAnswer
<1>2. CASE RBad(rest) \/ RUnexpected(rest)
  <2>1. Nak(rcv, rest) /\ UNCHANGED disk /\ rcv \in RcvType
    BY <1>2, Typed DEF RBad, RUnexpected
  <2>2. /\ rcv' = [rcv EXCEPT !.oldtry = rcv.oldtry, !.wait = FALSE, !.last = "N"]
        /\ Transmit("rcv", Packet("N", rcv.pktnum), rest)
        /\ UNCHANGED <<snd, skipped>>
    <3>1. Packet("N", rcv.pktnum).type = "N"
      BY DEF Packet
    <3> QED BY <2>1, <3>1 DEF Nak, Reply, RcvType
  <2>3. rcv' \in RcvType
    BY <2>1, <2>2 DEF RcvType
  <2> QED BY <2>1, <2>2, <2>3, RNakLink
<1>3. CASE RError(rest)
  <2>1. RWaits /\ RAbort(rest) /\ UNCHANGED disk
    BY <1>3 DEF RError, RGets
  <2> QED BY <2>1, RTakes, RAbortLink DEF RAbort
<1> QED BY <1>1, <1>2, <1>3, RInitLink, RPreviousLink, RFileLink, RBreakLink, RDataLink, REofLink

LEMMA RTimeOutLink == ASSUME TypeInv, LinkInv, RWaitEnds PROVE LinkInv'
<1>1. PICK rest \in Leftovers(line["rcv"], 0) :
        /\ rcv' = [rcv EXCEPT !.wait = FALSE, !.last = "N"]
        /\ Transmit("rcv", Packet("N", rcv.pktnum), rest)
        /\ UNCHANGED <<snd, disk, skipped>>
  BY DEF RWaitEnds, RTimeOut
<1>2. rcv \in RcvType
  BY Typed
<1>3. rcv' = [rcv EXCEPT !.oldtry = rcv.oldtry, !.wait = FALSE, !.last = "N"] /\ rcv' \in RcvType
  BY <1>1, <1>2 DEF RcvType
<1> QED BY <1>1, <1>3, RNakLink

\* Every step of the receiver.
LEMMA RcvStepLink ==
  ASSUME TypeInv, LinkInv, RStep \/ RWaitEnds \/ (\E k \in Keys : RKey(k))
  PROVE  LinkInv'
<1>0. rcv \in RcvType /\ snd \in SndType /\ line["snd"] \in Seq(Packets)
      /\ line["rcv"] \in Leftovers(line["rcv"], 0)
  BY Typed, WholeLeft
<1>1. CASE RGiveUp
  BY <1>0, <1>1, RAbortLink DEF RGiveUp, RAbort
<1>2. ASSUME NEW k \in Keys, RKey(k) PROVE LinkInv'
  <2>1. rcv.state \in {"R", "F", "D"} /\ UNCHANGED <<snd, disk, skipped>>
    BY <1>2, Typed DEF RKey
  <2>2. CASE k = "C"
    BY <1>0, <1>2, <2>1, <2>2, RAbortLink DEF RKey
  <2>3. CASE k # "C"
    <3>1. rcv' = [rcv EXCEPT !.cxzflg = k] /\ UNCHANGED line
      BY <1>2, <2>3 DEF RKey
    <3>2. k # None /\ Interrupted
      BY <1>2, <2>3, LinkAssumption DEF LinkAssumption, Interrupted, None
    <3>3. /\ rcv'.state = rcv.state /\ rcv'.pktnum = rcv.pktnum /\ rcv'.oldtry = rcv.oldtry
          /\ rcv'.cxzflg = k /\ rcv'.file = rcv.file
      BY <1>0, <3>1 DEF RcvType
    <3>4. Link(snd, rcv', disk, skipped, line["rcv"], line["snd"])
      BY <1>0, <3>2, <3>3, RChanges DEF LinkInv
    <3> QED BY <2>1, <3>1, <3>4 DEF LinkInv
  <2> QED BY <2>2, <2>3
<1> QED BY <1>1, <1>2, RTryLink, REchoLink, RAnswerLink, RTimeOutLink DEF RStep

LEMMA NextLink == ASSUME TypeInv, LinkInv, [Next]_vars PROVE LinkInv'
<1>1. CASE UNCHANGED vars
  BY <1>1 DEF vars, LinkInv
<1> QED BY <1>1, SndStepLink, RcvStepLink, LineFailsLink DEF Next

-----------------------------------------------------------------------------
(***************************************************************************)
(* The properties.                                                         *)
(***************************************************************************)

LEMMA Invariant == Spec => [](TypeInv /\ LinkInv)
<1>1. Init => TypeInv /\ LinkInv
  BY InitTypes, InitLink
<1>2. TypeInv /\ LinkInv /\ [Next]_vars => (TypeInv /\ LinkInv)'
  BY NextTypes, NextLink
<1> QED BY <1>1, <1>2, PTL DEF Spec

\* The receiver's files never have a chunk lost, doubled or out of place (ptchr,
\* called by rdata), whatever the line loses or damages, whatever times out early
\* and whatever keys are pressed, also after the sender ran ahead.
THEOREM BeginningsHold == Spec => []FilesAreBeginnings
<1>1. LinkInv => FilesAreBeginnings
  BY DEF LinkInv, Link, DiskOK, FilesAreBeginnings
<1> QED BY <1>1, Invariant, PTL

\* A file that rdata closes at its end is whole, unless a user interrupted it.
THEOREM WholeKept == Spec => []KeptIsWhole
<1>1. LinkInv => KeptIsWhole
  BY DEF LinkInv, Link, DiskOK, Plain, KeptIsWhole
<1> QED BY <1>1, Invariant, PTL

\* The packet numbers of the two ends differ by one at most, as chkpeq and chkpol
\* have it, as long as no NAK is taken for an acknowledgement and no user
\* interrupts.
THEOREM NumbersStay == Spec => []NumbersTogether
<1>1. TypeInv /\ LinkInv => NumbersTogether
  <2> SUFFICES ASSUME TypeInv, LinkInv, ~skipped, ~Interrupted, snd.state # "C"
               PROVE  snd.pktnum \in {rcv.pktnum, Before(rcv.pktnum)}
    BY DEF NumbersTogether
  <2>1. snd.pktnum \in Numbers
    BY Typed DEF SndType, Numbers
  <2>2. \/ Together(snd, rcv, disk, line["rcv"], line["snd"])
        \/ Behind(snd, rcv, disk, line["rcv"], line["snd"])
    BY Zenon DEF LinkInv, Link, Ahead
  <2>3. snd.pktnum = rcv.pktnum \/ rcv.pktnum = After(snd.pktnum)
    BY <2>2 DEF Together, Behind
  <2> QED BY <2>1, <2>3, PrevNumber
<1> QED BY <1>1, Invariant, PTL

\* A sender that reports completion (seot) has a receiver that completed as well
\* (rfile), with every file closed or, interrupted, deleted or never begun.
THEOREM DoneMeansAllDone == Spec => []SenderDoneMeansAllDone
<1>1. TypeInv /\ LinkInv => SenderDoneMeansAllDone
  <2> SUFFICES ASSUME TypeInv, LinkInv, snd.state = "C"
               PROVE  /\ rcv.state = "C"
                      /\ \A f \in Files : disk[f].status \in
                           IF Interrupted THEN {"kept", "deleted", "absent"} ELSE {"kept"}
    BY DEF SenderDoneMeansAllDone
  <2>1. rcv.state = "C" /\ RcvOK(rcv, disk) /\ DiskOK(rcv, disk)
    BY DEF LinkInv, Link
  <2>2. \A f \in Files : disk[f].status \in {"kept", "deleted", "absent"}
    BY <2>1, Typed DEF RcvOK, FileType
  <2>3. ~Interrupted => \A f \in Files : disk[f].status = "kept"
    BY <2>1 DEF DiskOK, AllKept, Plain
  <2> QED BY <2>1, <2>2, <2>3
<1> QED BY <1>1, Invariant, PTL

-----------------------------------------------------------------------------
(***************************************************************************)
(* The transfer that KermitTransfer describes.                             *)
(***************************************************************************)

Done == {e \in Ends : (IF e = "snd" THEN snd.state ELSE rcv.state) = "C"}

\* A step that leaves the files alone ends nothing, or the transfer for one end.
LEMMA EndsOnly ==
  ASSUME LinkInv, LinkInv', Plain, UNCHANGED disk,
         \/ UNCHANGED rcv /\ snd.state # "C"
         \/ UNCHANGED snd /\ rcv.state # "C"
  PROVE  [Transfer!Next]_(Transfer!vars)
<1>1. Done' \in {Done, Done \cup {"rcv"}, Done \cup {"snd"}}
  BY DEF Done, Ends
<1>2. /\ "rcv" \in Done <=> rcv.state = "C"
      /\ "snd" \in Done <=> snd.state = "C"
      /\ "rcv" \in Done' <=> rcv'.state = "C"
      /\ "snd" \in Done' <=> snd'.state = "C"
  BY DEF Done, Ends
<1>3. /\ rcv'.state = "C" => AllKept(disk)
      /\ snd'.state = "C" => rcv'.state = "C"
  BY DEF LinkInv, Link, DiskOK
<1>4. CASE Done' = Done
  BY <1>4 DEF Done, Transfer!vars
<1>5. CASE Done' # Done
  <2>1. PICK e \in {"snd", "rcv"} : e \notin Done /\ Done' = Done \cup {e}
    BY <1>1, <1>5
  <2>2. e = "snd" => "rcv" \in Done
    BY <1>2, <1>3, <2>1
  <2>3. \A f \in Files : disk[f].status = "kept"
    BY <1>2, <1>3, <2>1 DEF AllKept
  <2>4. Transfer!Complete(e)
    BY <2>1, <2>2, <2>3 DEF Transfer!Complete, Transfer!Files, Files, Done
  <2> QED BY <2>4 DEF Transfer!Next
<1> QED BY <1>4, <1>5

\* rfile, rdata and the end of a file create, write and close the file.
LEMMA FilesOnly ==
  ASSUME TypeInv, LinkInv, Plain, NEW rest \in Leftovers(line["rcv"], 1),
         RFile(rest) \/ RData(rest) \/ REof(rest)
  PROVE  \/ UNCHANGED disk
         \/ \E f \in Files : Transfer!Create(f) \/ Transfer!Write(f) \/ Transfer!Close(f)
<1> DEFINE h == Head(line["rcv"])
<1>0. /\ rcv \in RcvType /\ snd \in SndType /\ disk \in [Files -> FileType]
      /\ line["rcv"] \in Seq(Packets) /\ line["snd"] \in Seq(Packets)
      /\ Arrived("rcv") = h /\ rcv.cxzflg = None /\ RWaits /\ UNCHANGED snd
      /\ line["rcv"] # << >> /\ h \in Elements(line["rcv"]) /\ h.num = rcv.pktnum
  <2>1. RWaits /\ UNCHANGED snd /\ Arrived("rcv").num = rcv.pktnum
    BY DEF RFile, RData, REof, RGets, Expected, RAbort, Upack, Reply
  <2>2. rcv.cxzflg = None
    BY DEF LinkInv, Link, RcvOK
  <2> QED BY <2>1, <2>2, Typed, RTakes DEF Arrived
<1>1. ASSUME rcv.state \in {"F", "D"}, h \in Own, rcv.state = "D" => h.type \in {"D", "Z"}
      PROVE  Together(snd, rcv, disk, line["rcv"], line["snd"]) /\ h \in Fresh(rcv, line["rcv"])
  BY <1>0, <1>1, Expecting DEF LinkInv
<1>2. CASE RFile(rest)
  <2> DEFINE f == h.item[1]
  <2>1. /\ rcv.state = "F" /\ h.type = "F" /\ h \in Own /\ rcv'.state # "C"
        /\ \/ UNCHANGED disk
           \/ disk' = [disk EXCEPT ![f] = [status |-> "open", chunks |-> << >>]]
    BY <1>0, <1>2, ElementsType DEF RFile, RGets, RAbort, Upack, Reply, Own, RcvType
  <2>2. f = snd.file /\ f \in Files /\ Reached(disk, f)
    BY <1>0, <1>1, <2>1 DEF Together, AtFile, SndType
  <2> HIDE DEF f
  <2>3. /\ disk[f].status = "absent" /\ disk[f].chunks = << >> /\ disk[f] \in FileType
        /\ \A g \in Files : g < f => disk[g].status = "kept"
    BY <1>0, <2>2, FilesFact DEF Reached, KeptBelow, AbsentFrom
  <2>4. [disk[f] EXCEPT !.status = "open"] = [status |-> "open", chunks |-> << >>]
    BY <2>3 DEF FileType
  <2>5. CASE disk' = [disk EXCEPT ![f] = [status |-> "open", chunks |-> << >>]]
    <3>1. disk' = [disk EXCEPT ![f].status = "open"]
      BY <1>0, <2>2, <2>4, <2>5
    <3>2. UNCHANGED Done
      BY <1>0, <2>1 DEF Done
    <3>3. Transfer!Create(f)
      BY <2>3, <3>1, <3>2 DEF Transfer!Create, Transfer!Files, Files, Done
    <3> QED BY <2>2, <3>3
  <2> QED BY <2>1, <2>5
<1>3. CASE RData(rest)
  <2> DEFINE f == rcv.file
  <2>1. /\ rcv.state = "D" /\ h.type = "D" /\ h \in Own /\ rcv'.state # "C"
        /\ \/ UNCHANGED disk
           \/ disk' = [disk EXCEPT ![f].chunks = Append(@, h.item)]
    BY <1>0, <1>3, ElementsType DEF RData, RGets, RAbort, Upack, Reply, Own, RcvType
  <2>2. /\ f \in Files /\ disk[f].status = "open" /\ Len(disk[f].chunks) < FileLen[f]
        /\ h.item = <<f, Len(disk[f].chunks) + 1>>
    BY <1>0, <1>1, <2>1 DEF Together, AtData, Crossed, SndType, LinkInv, Link, RcvOK, Got, Plain
  <2> HIDE DEF f
  <2>3. CASE disk' = [disk EXCEPT ![f].chunks = Append(@, h.item)]
    <3>1. disk' = [disk EXCEPT ![f].chunks = Append(@, <<f, Len(@) + 1>>)]
      BY <2>2, <2>3
    <3>2. UNCHANGED Done
      BY <1>0, <2>1 DEF Done
    <3>3. Transfer!Write(f)
      BY <2>2, <3>1, <3>2 DEF Transfer!Write, Done
    <3> QED BY <2>2, <3>3
  <2> QED BY <2>1, <2>3
<1>4. CASE REof(rest)
  <2> DEFINE f == rcv.file
  <2>1. /\ rcv.state = "D" /\ h.type = "Z" /\ h \in Own /\ rcv'.state # "C"
        /\ UNCHANGED disk \/ disk' = [disk EXCEPT ![f].status = "kept"]
    BY <1>0, <1>4, ElementsType DEF REof, RGets, RAbort, Upack, Reply, Own, RcvType
  <2>2. f \in Files /\ disk[f].status = "open" /\ Len(disk[f].chunks) = FileLen[f]
    BY <1>0, <1>1, <2>1 DEF Together, AtData, Crossed, SndType, LinkInv, Link, RcvOK, Got, Plain
  <2> HIDE DEF f
  <2>3. CASE disk' = [disk EXCEPT ![f].status = "kept"]
    <3>1. UNCHANGED Done
      BY <1>0, <2>1 DEF Done
    <3>2. Transfer!Close(f)
      BY <2>2, <2>3, <3>1 DEF Transfer!Close, Done
    <3> QED BY <2>2, <3>2
  <2> QED BY <2>1, <2>3
<1> QED BY <1>2, <1>3, <1>4

LEMMA StepTransfers ==
  ASSUME TypeInv, LinkInv, LinkInv', Plain, [Next]_vars
  PROVE  [Transfer!Next]_(Transfer!vars)
<1>1. CASE SStep \/ SWaitEnds \/ (\E k \in Keys : SKey(k))
  <2>1. UNCHANGED <<rcv, disk>> /\ snd.state # "C"
    BY <1>1, Typed
       DEF SStep, SWaitEnds, SKey, SInterrupted, STry, SGiveUp, SReady, SEcho, SAnswer, SAbort,
           SAck, SNakOfNext, SRetry, SError, STimeOut, SWaits
  <2> QED BY <2>1, EndsOnly
<1>2. CASE RTry \/ RGiveUp \/ REcho \/ RWaitEnds \/ (\E k \in Keys : RKey(k))
  <2>1. UNCHANGED <<snd, disk>> /\ rcv.state # "C"
    BY <1>2, Typed
       DEF RTry, RGiveUp, REcho, RWaits, RAbort, RWaitEnds, RTimeOut, RKey
  <2> QED BY <2>1, EndsOnly
<1>3. CASE RAnswer
  <2>1. PICK rest \in Leftovers(line["rcv"], 1) :
        \/ RBad(rest) \/ RInit(rest) \/ RUnexpected(rest) \/ RPrevious(rest)
        \/ RFile(rest) \/ RBreak(rest) \/ RData(rest) \/ REof(rest) \/ RError(rest)
    BY <1>3 DEF RAnswer
  <2>2. RWaits /\ UNCHANGED snd
    <3>1. CASE RPrevious(rest)
      BY <3>1, RPreviousCases DEF RAbort, Nak, Reply
    <3> QED BY <2>1, <3>1 DEF RBad, RInit, RUnexpected, RFile, RBreak, RData, REof, RError, RGets,
                              RAbort, Nak, Upack, Reply
  <2>3. rcv.state # "C"
    BY <2>2, RTakes
  <2>4. CASE UNCHANGED disk
    BY <2>2, <2>3, <2>4, EndsOnly
  <2>5. CASE RFile(rest) \/ RData(rest) \/ REof(rest)
    <3>1. CASE \E f \in Files : Transfer!Create(f) \/ Transfer!Write(f) \/ Transfer!Close(f)
      BY <3>1 DEF Transfer!Next, Transfer!Files, Files
    <3> QED BY <2>4, <2>5, <3>1, FilesOnly
  <2>6. CASE RBad(rest) \/ RInit(rest) \/ RUnexpected(rest) \/ RPrevious(rest)
             \/ RBreak(rest) \/ RError(rest)
    BY <2>4, <2>6 DEF RBad, RInit, RUnexpected, RPrevious, RBreak, RError
  <2> QED BY <2>1, <2>5, <2>6
<1>4. CASE UNCHANGED vars \/ (\E e \in Ends : Lose(e) \/ Damage(e))
  <2>1. UNCHANGED <<snd, rcv, disk>>
    BY <1>4 DEF vars, Lose, Damage, Fault
  <2> QED BY <2>1 DEF Transfer!vars
<1> QED BY <1>1, <1>2, <1>3, <1>4 DEF Next, RStep

LEMMA InitTransfers == Init => Transfer!Init
BY DEF Init, Transfer!Init, Transfer!Files, Files, Ends

\* Step by step the protocol implements the error-free transfer, whatever the line
\* loses and whatever times out, as long as no user interrupts a file: files are
\* created in the order of the list, filled chunk by chunk and closed when they are
\* whole, and the sender completes after the receiver.  (That it does complete needs
\* the fairness and the bounds of ErrorFree.)
THEOREM TransferImplemented ==
  ASSUME ~Interrupted
  PROVE  Spec => Transfer!Init /\ [][Transfer!Next]_(Transfer!vars)
<1>1. TypeInv /\ LinkInv /\ (TypeInv /\ LinkInv)' /\ [Next]_vars
        => [Transfer!Next]_(Transfer!vars)
  BY StepTransfers DEF Plain
<1> QED BY <1>1, InitTransfers, Invariant, PTL DEF Spec
=============================================================================
