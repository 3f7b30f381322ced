--------------------------- MODULE KermitLinkTypes ----------------------------
(***************************************************************************)
(* Types of the transfer (KermitLink), for any files, faults, time-outs    *)
(* and keys: packet numbers, what a step may do to a queue of packets, and *)
(* that every handler of the two ends keeps TypeInv, which is TypeOK with  *)
(* what it needs to be inductive: an end waits only in a state that reads  *)
(* packets, and an acknowledgement never carries a flag but X or Z.        *)
(*                                                                         *)
(* From it, and without the invariant of KermitLinkProofs, follows what an *)
(* interruption by the receiver's user does.                               *)
(***************************************************************************)
EXTENDS KermitLink, SequenceTheorems, TLAPS

-----------------------------------------------------------------------------
(***************************************************************************)
(* Packet numbers.                                                         *)
(***************************************************************************)

Numbers == 0 .. PKTMOD - 1

\* The next number and the previous one, without the modulus.
LEMMA NextNumber ==
  ASSUME NEW n \in Numbers
  PROVE  /\ After(n) = IF n = PKTMOD - 1 THEN 0 ELSE n + 1
         /\ After(n) \in Numbers
BY LinkAssumption DEF Numbers, After, LinkAssumption

LEMMA PrevNumber ==
  ASSUME NEW n \in Numbers
  PROVE  /\ Before(n) \in Numbers
         /\ Before(After(n)) = n
         /\ After(Before(n)) = n
         /\ Before(n) # n /\ After(n) # n /\ Before(n) # After(n)
<1>1. Before(n) \in Numbers /\ After(n) \in Numbers
  BY NextNumber, LinkAssumption DEF Numbers, Before, LinkAssumption
<1>2. /\ After(n) = IF n = PKTMOD - 1 THEN 0 ELSE n + 1
      /\ After(Before(n)) = IF Before(n) = PKTMOD - 1 THEN 0 ELSE Before(n) + 1
  BY <1>1, NextNumber
<1> QED BY <1>1, <1>2, LinkAssumption DEF Numbers, Before, LinkAssumption

-----------------------------------------------------------------------------
(***************************************************************************)
(* Queues of packets: their elements, and how they are sorted.             *)
(***************************************************************************)

Elements(q) == {q[i] : i \in DOMAIN q}

\* No packet of Low comes after one of High.
Sorted(q, Low, High) ==
  \A i, j \in DOMAIN q : i < j /\ q[i] \in High => q[j] \notin Low

\* Queue r is queue q after n packets were taken from it and others lost or
\* damaged, perhaps with the echo p behind it.
LessBy(r, q, n, p) ==
  /\ Elements(r) \subseteq Elements(q) \cup {Damaged, p}
  /\ \A Low, High : {Damaged, p} \cap (Low \cup High) = {} /\ Sorted(q, Low, High) =>
       /\ Sorted(r, Low, High)
       /\ n = 1 /\ q # << >> /\ Head(q) \in High => Elements(r) \cap Low = {}

\* Queue r is queue q, perhaps with p behind it.
Grown(r, q, p) ==
  /\ Elements(r) \subseteq Elements(q) \cup {p}
  /\ \A Low, High : Sorted(q, Low, High) /\ p \notin Low => Sorted(r, Low, High)

\* What is left behind the packet taken, or when nothing was taken.
LEMMA LeftoverLess ==
  ASSUME NEW q \in Seq(Packets), NEW n \in {0, 1}, NEW r \in Leftovers(q, n)
  PROVE  r \in Seq(Packets) /\ LessBy(r, q, n, Damaged)
<1>1. PICK k \in n + 1 .. Len(q) + 1 : r = SubSeq(q, k, Len(q))
  BY DEF Leftovers
<1>2. r \in Seq(Packets) /\ Len(r) = Len(q) - k + 1 /\ DOMAIN r = 1 .. Len(q) - k + 1
      /\ \A i \in 1 .. Len(q) - k + 1 : r[i] = q[k + i - 1]
  BY <1>1
<1>3. DOMAIN q = 1 .. Len(q)
  OBVIOUS
<1>4. Elements(r) \subseteq Elements(q)
  <2>1. ASSUME NEW i \in DOMAIN r PROVE r[i] \in Elements(q)
    BY <1>1, <1>2, <1>3 DEF Elements
  <2> QED BY <2>1 DEF Elements
<1>5. ASSUME NEW Low, NEW High, Sorted(q, Low, High) PROVE Sorted(r, Low, High)
  <2>1. ASSUME NEW i \in DOMAIN r, NEW j \in DOMAIN r, i < j, r[i] \in High
        PROVE  r[j] \notin Low
    <3>1. k + i - 1 \in DOMAIN q /\ k + j - 1 \in DOMAIN q /\ k + i - 1 < k + j - 1
      BY <1>1, <1>2, <1>3, <2>1
    <3>2. r[i] = q[k + i - 1] /\ r[j] = q[k + j - 1]
      BY <1>2
    <3> QED BY <1>5, <2>1, <3>1, <3>2 DEF Sorted
  <2> QED BY <2>1 DEF Sorted
<1>6. ASSUME NEW Low, NEW High, Sorted(q, Low, High), n = 1, q # << >>, Head(q) \in High
      PROVE  Elements(r) \cap Low = {}
  <2>1. Head(q) = q[1]
    BY <1>6
  <2>2. ASSUME NEW i \in DOMAIN r PROVE r[i] \notin Low
    BY <1>1, <1>2, <1>3, <1>6, <2>1 DEF Sorted
  <2> QED BY <2>2 DEF Elements
<1> QED BY <1>2, <1>4, <1>5, <1>6 DEF LessBy

\* The head of a queue that is not empty is one of its elements.
LEMMA HeadIn ==
  ASSUME NEW q \in Seq(Packets), q # << >>
  PROVE  Head(q) \in Elements(q) /\ Head(q) \in Packets
BY DEF Elements

\* rpack without cfibf: the packets behind the one taken.
LEMMA TailLess ==
  ASSUME NEW q \in Seq(Packets), q # << >>
  PROVE  Tail(q) \in Leftovers(q, 1)
<1>1. Len(q) \in Nat \ {0} /\ Tail(q) = SubSeq(q, 2, Len(q))
  OBVIOUS
<1>2. 2 \in 1 + 1 .. Len(q) + 1
  BY <1>1
<1> QED BY <1>1, <1>2 DEF Leftovers

\* A packet put on the line.
LEMMA Put ==
  ASSUME NEW q \in Seq(Packets), NEW p \in Packets
  PROVE  /\ Append(q, p) \in Seq(Packets)
         /\ Elements(Append(q, p)) = Elements(q) \cup {p}
         /\ \A Low, High : Sorted(q, Low, High) /\ p \notin Low => Sorted(Append(q, p), Low, High)
<1>1. Append(q, p) \in Seq(Packets) /\ Len(Append(q, p)) = Len(q) + 1
      /\ DOMAIN Append(q, p) = 1 .. Len(q) + 1 /\ DOMAIN q = 1 .. Len(q) /\ Len(q) \in Nat
  OBVIOUS
<1>2. \A i \in 1 .. Len(q) : Append(q, p)[i] = q[i]
  OBVIOUS
<1>3. Append(q, p)[Len(q) + 1] = p
  OBVIOUS
<1>4. Elements(Append(q, p)) = Elements(q) \cup {p}
  <2>1. \A x \in Elements(Append(q, p)) : x \in Elements(q) \cup {p}
    BY <1>1, <1>2, <1>3 DEF Elements
  <2>2. \A x \in Elements(q) \cup {p} : x \in Elements(Append(q, p))
    BY <1>1, <1>2, <1>3 DEF Elements
  <2> QED BY <2>1, <2>2
<1>5. ASSUME NEW Low, NEW High, Sorted(q, Low, High), p \notin Low
      PROVE  Sorted(Append(q, p), Low, High)
  BY <1>1, <1>2, <1>3, <1>5 DEF Sorted
<1> QED BY <1>1, <1>4, <1>5

\* A packet lost.
LEMMA LostLess ==
  ASSUME NEW q \in Seq(Packets), NEW i \in 1 .. Len(q)
  PROVE  /\ SubSeq(q, 1, i - 1) \o SubSeq(q, i + 1, Len(q)) \in Seq(Packets)
         /\ LessBy(SubSeq(q, 1, i - 1) \o SubSeq(q, i + 1, Len(q)), q, 0, Damaged)
<1> DEFINE r == SubSeq(q, 1, i - 1) \o SubSeq(q, i + 1, Len(q))
           a == SubSeq(q, 1, i - 1)
           b == SubSeq(q, i + 1, Len(q))
<1>a. /\ a \in Seq(Packets) /\ Len(a) = i - 1 /\ \A k \in 1 .. i - 1 : a[k] = q[k]
      /\ Len(q) \in Nat /\ DOMAIN q = 1 .. Len(q)
  OBVIOUS
<1>b. /\ b \in Seq(Packets) /\ Len(b) = Len(q) - i
      /\ \A k \in 1 .. Len(q) - i : b[k] = q[i + k]
  OBVIOUS
<1>c. r = a \o b
  OBVIOUS
<1> HIDE DEF a, b, r
<1>x. a \in Seq(Packets) /\ b \in Seq(Packets)
  BY <1>a, <1>b
<1>y. /\ a \o b \in Seq(Packets) /\ Len(a \o b) = Len(a) + Len(b)
      /\ \A k \in 1 .. Len(a) + Len(b) : (a \o b)[k] = IF k <= Len(a) THEN a[k] ELSE b[k - Len(a)]
  BY <1>x, ConcatProperties, Zenon
<1>d. /\ r \in Seq(Packets) /\ Len(r) = Len(a) + Len(b)
      /\ \A k \in 1 .. Len(a) + Len(b) : r[k] = IF k <= Len(a) THEN a[k] ELSE b[k - Len(a)]
  BY <1>y, <1>c
<1>1. /\ Len(r) = Len(q) - 1 /\ DOMAIN r = 1 .. Len(q) - 1
      /\ Len(q) \in Nat /\ DOMAIN q = 1 .. Len(q)
  BY <1>a, <1>b, <1>d
<1>2. \A k \in 1 .. Len(q) - 1 : r[k] = IF k < i THEN q[k] ELSE q[k + 1]
  <2> SUFFICES ASSUME NEW k \in 1 .. Len(q) - 1
               PROVE  r[k] = IF k < i THEN q[k] ELSE q[k + 1]
    OBVIOUS
  <2>0. r[k] = IF k <= i - 1 THEN a[k] ELSE b[k - (i - 1)]
    <3>1. k \in 1 .. Len(a) + Len(b)
      BY <1>a, <1>b
    <3> QED BY <3>1, <1>a, <1>d
  <2>1. CASE k < i
    <3>1. k <= i - 1 /\ k \in 1 .. i - 1
      BY <2>1
    <3> QED BY <2>0, <2>1, <3>1, <1>a
  <2>2. CASE ~(k < i)
    <3>1. ~(k <= i - 1) /\ k - (i - 1) \in 1 .. Len(q) - i /\ i + (k - (i - 1)) = k + 1
      BY <1>a, <2>2
    <3>2. b[k - (i - 1)] = q[k + 1]
      BY <3>1, <1>b
    <3> QED BY <2>0, <2>2, <3>1, <3>2
  <2> QED BY <2>1, <2>2
<1>3. Elements(r) \subseteq Elements(q)
  <2>1. ASSUME NEW k \in DOMAIN r PROVE r[k] \in Elements(q)
    BY <1>1, <1>2 DEF Elements
  <2> QED BY <2>1 DEF Elements
<1>4. ASSUME NEW Low, NEW High, Sorted(q, Low, High) PROVE Sorted(r, Low, High)
  <2> DEFINE at(k) == IF k < i THEN k ELSE k + 1
  <2>1. \A k \in DOMAIN r : at(k) \in DOMAIN q /\ r[k] = q[at(k)]
    BY <1>1, <1>2
  <2>2. \A k, l \in DOMAIN r : k < l => at(k) < at(l)
    BY <1>1
  <2> HIDE DEF at
  <2> QED BY <2>1, <2>2, <1>4 DEF Sorted
<1>5. LessBy(r, q, 0, Damaged)
  BY <1>3, <1>4, 0 # 1 DEF LessBy
<1> QED BY <1>d, <1>5 DEF r

\* A packet damaged.
LEMMA DamagedLess ==
  ASSUME NEW q \in Seq(Packets), NEW i \in 1 .. Len(q)
  PROVE  /\ [q EXCEPT ![i] = Damaged] \in Seq(Packets)
         /\ LessBy([q EXCEPT ![i] = Damaged], q, 0, Damaged)
<1> DEFINE r == [q EXCEPT ![i] = Damaged]
<1>1. Damaged \in Packets
  BY LinkAssumption DEF Damaged, Packet, Packets, Types, Chunks, NoChunk, Flags, LinkAssumption
<1>2. r \in Seq(Packets) /\ DOMAIN r = DOMAIN q
      /\ \A k \in DOMAIN q : r[k] = IF k = i THEN Damaged ELSE q[k]
  BY <1>1
<1> HIDE DEF r
<1>3. Elements(r) \subseteq Elements(q) \cup {Damaged}
  BY <1>2 DEF Elements
<1>4. ASSUME NEW Low, NEW High, Sorted(q, Low, High), {Damaged} \cap (Low \cup High) = {}
      PROVE  Sorted(r, Low, High)
  BY <1>2, <1>4 DEF Sorted
<1>5. LessBy(r, q, 0, Damaged)
  BY <1>3, <1>4, 0 # 1 DEF LessBy
<1> QED BY <1>2, <1>5 DEF r

\* A packet put behind what is left of a queue, or behind a queue.
LEMMA PutBehind ==
  ASSUME NEW q \in Seq(Packets), NEW n, NEW p \in Packets,
         NEW r \in Seq(Packets), LessBy(r, q, n, Damaged)
  PROVE  /\ LessBy(Append(r, p), q, n, p) /\ LessBy(r, q, n, p)
         /\ Grown(Append(q, p), q, p) /\ Grown(q, q, p)
<1>1. /\ Elements(Append(r, p)) = Elements(r) \cup {p}
      /\ \A Low, High : Sorted(r, Low, High) /\ p \notin Low => Sorted(Append(r, p), Low, High)
  BY Put
<1>2. LessBy(Append(r, p), q, n, p)
  <2>1. Elements(Append(r, p)) \subseteq Elements(q) \cup {Damaged, p}
    BY <1>1 DEF LessBy
  <2>2. ASSUME NEW Low, NEW High, {Damaged, p} \cap (Low \cup High) = {}, Sorted(q, Low, High)
        PROVE  /\ Sorted(Append(r, p), Low, High)
               /\ n = 1 /\ q # << >> /\ Head(q) \in High => Elements(Append(r, p)) \cap Low = {}
    <3>1. {Damaged, Damaged} \cap (Low \cup High) = {} /\ p \notin Low
      BY <2>2
    <3>2. /\ Sorted(r, Low, High)
          /\ n = 1 /\ q # << >> /\ Head(q) \in High => Elements(r) \cap Low = {}
      BY <2>2, <3>1 DEF LessBy
    <3> QED BY <1>1, <3>1, <3>2
  <2> QED BY <2>1, <2>2 DEF LessBy
<1>3. LessBy(r, q, n, p)
  <2>1. \A Low, High : {Damaged, p} \cap (Low \cup High) = {} => {Damaged, Damaged} \cap (Low \cup High) = {}
    OBVIOUS
  <2>2. Elements(r) \subseteq Elements(q) \cup {Damaged, p}
    BY DEF LessBy
  <2> QED BY <2>1, <2>2, Zenon DEF LessBy
<1>4. Grown(Append(q, p), q, p) /\ Grown(q, q, p)
  BY Put, Zenon DEF Grown
<1> QED BY <1>2, <1>3, <1>4

Line == line \in [Ends -> Seq(Packets)]

\* What an end does to the two queues when it takes n packets and sends p.
LEMMA SndTransmits ==
  ASSUME Line, NEW n \in {0, 1}, NEW rest \in Leftovers(line["snd"], n), NEW p \in Packets,
         Transmit("snd", p, rest)
  PROVE  /\ Line' /\ LessBy(line["snd"]', line["snd"], n, p)
         /\ Grown(line["rcv"]', line["rcv"], p)
<1>1. line["snd"] \in Seq(Packets) /\ line["rcv"] \in Seq(Packets) /\ DOMAIN line = Ends
  BY DEF Line, Ends
<1>2. rest \in Seq(Packets) /\ LessBy(rest, line["snd"], n, Damaged)
  BY <1>1, LeftoverLess
<1>3. /\ line' \in [Ends -> Seq(Packets)]
      /\ line'["snd"] \in {rest, Append(rest, p)}
      /\ line'["rcv"] \in {line["rcv"], Append(line["rcv"], p)}
  <2>1. Append(rest, p) \in Seq(Packets) /\ Append(line["rcv"], p) \in Seq(Packets)
    BY <1>1, <1>2, Put
  <2> QED BY <1>1, <1>2, <2>1 DEF Transmit, Peer, Line, Ends
<1>4. /\ LessBy(Append(rest, p), line["snd"], n, p) /\ LessBy(rest, line["snd"], n, p)
      /\ Grown(Append(line["rcv"], p), line["rcv"], p) /\ Grown(line["rcv"], line["rcv"], p)
  <2>1. << >> \in Seq(Packets) /\ LessBy(line["rcv"], line["rcv"], 0, Damaged)
    BY <1>1, 0 # 1 DEF LessBy
  <2> QED BY <1>1, <1>2, <2>1, PutBehind
<1> QED BY <1>3, <1>4 DEF Line

LEMMA RcvTransmits ==
  ASSUME Line, NEW n \in {0, 1}, NEW rest \in Leftovers(line["rcv"], n), NEW p \in Packets,
         Transmit("rcv", p, rest)
  PROVE  /\ Line' /\ LessBy(line["rcv"]', line["rcv"], n, p)
         /\ Grown(line["snd"]', line["snd"], p)
<1>1. line["snd"] \in Seq(Packets) /\ line["rcv"] \in Seq(Packets) /\ DOMAIN line = Ends
  BY DEF Line, Ends
<1>2. rest \in Seq(Packets) /\ LessBy(rest, line["rcv"], n, Damaged)
  BY <1>1, LeftoverLess
<1>3. /\ line' \in [Ends -> Seq(Packets)]
      /\ line'["rcv"] \in {rest, Append(rest, p)}
      /\ line'["snd"] \in {line["snd"], Append(line["snd"], p)}
  <2>1. Append(rest, p) \in Seq(Packets) /\ Append(line["snd"], p) \in Seq(Packets)
    BY <1>1, <1>2, Put
  <2> QED BY <1>1, <1>2, <2>1 DEF Transmit, Peer, Line, Ends
<1>4. /\ LessBy(Append(rest, p), line["rcv"], n, p) /\ LessBy(rest, line["rcv"], n, p)
      /\ Grown(Append(line["snd"], p), line["snd"], p) /\ Grown(line["snd"], line["snd"], p)
  <2>1. LessBy(line["snd"], line["snd"], 0, Damaged)
    BY <1>1, 0 # 1 DEF LessBy
  <2> QED BY <1>1, <1>2, <2>1, PutBehind
<1> QED BY <1>3, <1>4 DEF Line

\* An end takes n packets and sends nothing.
LEMMA Left ==
  ASSUME Line, NEW e \in Ends, NEW n \in {0, 1}, NEW rest \in Leftovers(line[e], n),
         Leave(e, rest)
  PROVE  /\ Line' /\ LessBy(line'[e], line[e], n, Damaged)
         /\ \A f \in Ends \ {e} : line'[f] = line[f]
<1>1. line[e] \in Seq(Packets)
  BY DEF Line
<1>2. rest \in Seq(Packets) /\ LessBy(rest, line[e], n, Damaged)
  BY <1>1, LeftoverLess
<1> QED BY <1>2 DEF Leave, Line

\* The line loses or damages a packet.
LEMMA LineFails ==
  ASSUME Line, NEW e \in Ends, Lose(e) \/ Damage(e)
  PROVE  /\ Line' /\ LessBy(line'[e], line[e], 0, Damaged)
         /\ \A f \in Ends \ {e} : line'[f] = line[f]
         /\ UNCHANGED <<snd, rcv, disk, skipped, early, keys>>
         /\ faults < MaxFaults /\ faults' = faults + 1
<1>1. line[e] \in Seq(Packets)
  BY DEF Line
<1>2. ASSUME NEW q \in Seq(Packets), LessBy(q, line[e], 0, Damaged), Fault(e, q)
      PROVE  /\ Line' /\ LessBy(line'[e], line[e], 0, Damaged)
             /\ \A f \in Ends \ {e} : line'[f] = line[f]
             /\ UNCHANGED <<snd, rcv, disk, skipped, early, keys>>
             /\ faults < MaxFaults /\ faults' = faults + 1
  BY <1>2 DEF Fault, Line
<1>3. CASE Lose(e)
  BY <1>1, <1>2, <1>3, LostLess DEF Lose
<1>4. CASE Damage(e)
  BY <1>1, <1>2, <1>4, DamagedLess DEF Damage
<1> QED BY <1>3, <1>4

-----------------------------------------------------------------------------
(***************************************************************************)
(* Type correctness.                                                       *)
(***************************************************************************)

\* With the types: an end waits only in a state that waits, and an
\* acknowledgement carries no discard flag.
TypeInv ==
  /\ TypeOK
  /\ snd.wait => snd.state \in {"S", "F", "D", "Z", "B"}
  /\ rcv.wait => rcv.state \in {"R", "F", "D"}
  /\ \A x \in Elements(line["snd"]) : x.type = "Y" => x.flag \in {None, "X", "Z"}

LEMMA PacketType ==
  ASSUME NEW t \in Types, NEW n \in Numbers
  PROVE  /\ Packet(t, n) \in Packets
         /\ Packet(t, n).type = t /\ Packet(t, n).num = n /\ Packet(t, n).flag = None
BY DEF Packet, Packets, Numbers, NoChunk, Chunks, Flags, None

LEMMA ItemType ==
  ASSUME NEW t \in Types, NEW n \in Numbers, NEW i \in Chunks
  PROVE  /\ [Packet(t, n) EXCEPT !.item = i] \in Packets
         /\ [Packet(t, n) EXCEPT !.item = i].type = t
         /\ [Packet(t, n) EXCEPT !.item = i].num = n
         /\ [Packet(t, n) EXCEPT !.item = i].item = i
BY DEF Packet, Packets, Numbers, NoChunk, Chunks, Flags, None

LEMMA FlagType ==
  ASSUME NEW t \in Types, NEW n \in Numbers, NEW f \in Flags
  PROVE  /\ [Packet(t, n) EXCEPT !.flag = f] \in Packets
         /\ [Packet(t, n) EXCEPT !.flag = f].type = t
         /\ [Packet(t, n) EXCEPT !.flag = f].num = n
         /\ [Packet(t, n) EXCEPT !.flag = f].flag = f
BY DEF Packet, Packets, Numbers, NoChunk, Chunks, Flags, None

LEMMA PlainPackets == Damaged \in Packets /\ ErrorPacket \in Packets
                      /\ Damaged.type = "bad" /\ ErrorPacket.type = "E"
<1>1. 0 \in Numbers /\ "bad" \in Types /\ "E" \in Types
  BY LinkAssumption DEF LinkAssumption, Numbers, Types
<1> QED BY <1>1 DEF Damaged, ErrorPacket, Packet, Packets, Numbers, NoChunk, Chunks, Flags, None

LEMMA FilesFact == /\ FileLen \in Seq(Nat) /\ Len(FileLen) \in Nat \ {0}
                   /\ Files = 1 .. Len(FileLen) /\ \A f \in Files : FileLen[f] \in Nat
BY LinkAssumption DEF LinkAssumption, Files

\* The packet of a sender that has not stopped.
LEMMA SPacketType ==
  ASSUME snd \in SndType, snd.state \in {"S", "F", "D", "Z", "B"}
  PROVE  /\ SPacket \in Packets /\ SPacket.type = snd.state
         /\ SPacket.num = IF snd.state = "S" THEN 0 ELSE snd.pktnum
         /\ snd.state = "F" => SPacket.item = <<snd.file, 0>>
         /\ snd.state = "D" => SPacket.item = <<snd.file, snd.chunk>>
<1>1. /\ snd.pktnum \in Numbers /\ 0 \in Numbers
      /\ <<snd.file, 0>> \in Chunks /\ <<snd.file, snd.chunk>> \in Chunks
      /\ {"S", "F", "D", "Z", "B"} \subseteq Types /\ {None, "D"} \subseteq Flags
  BY LinkAssumption DEF LinkAssumption, SndType, Numbers, Chunks, Types, Flags
<1>2. CASE snd.state = "S"
  <2>1. SPacket = Packet("S", 0)
    BY <1>2 DEF SPacket
  <2> QED BY <1>1, <1>2, <2>1, PacketType
<1>3. CASE snd.state = "F"
  <2>1. SPacket = [Packet("F", snd.pktnum) EXCEPT !.item = <<snd.file, 0>>]
    BY <1>3 DEF SPacket
  <2> QED BY <1>1, <1>3, <2>1, ItemType
<1>4. CASE snd.state = "D"
  <2>1. SPacket = [Packet("D", snd.pktnum) EXCEPT !.item = <<snd.file, snd.chunk>>]
    BY <1>4 DEF SPacket
  <2> QED BY <1>1, <1>4, <2>1, ItemType
<1>5. CASE snd.state = "Z"
  <2>1. SPacket = [Packet("Z", snd.pktnum) EXCEPT !.flag = IF snd.cxzflg = None THEN None ELSE "D"]
    BY <1>5 DEF SPacket
  <2> QED BY <1>1, <1>5, <2>1, FlagType
<1>6. CASE snd.state = "B"
  <2>1. SPacket = Packet("B", snd.pktnum)
    BY <1>6 DEF SPacket
  <2> QED BY <1>1, <1>6, <2>1, PacketType
<1> QED BY <1>2, <1>3, <1>4, <1>5, <1>6

LEMMA InitTypes == Init => TypeInv
<1> SUFFICES ASSUME Init PROVE TypeInv
  OBVIOUS
<1>1. snd \in SndType /\ rcv \in RcvType /\ disk \in [Files -> FileType]
  <2>1. 0 \in 0 .. PKTMOD - 1 /\ 0 \in 0 .. MostTries /\ 1 \in Files
    BY FilesFact, LinkAssumption DEF LinkAssumption, MostTries
  <2>2. snd \in SndType
    BY <2>1 DEF Init, SndType
  <2>3. rcv \in RcvType
    BY <2>1 DEF Init, RcvType
  <2>4. << >> \in Seq(Chunks)
    OBVIOUS
  <2>5. disk \in [Files -> FileType]
    BY <2>4 DEF Init, FileType
  <2> QED BY <2>2, <2>3, <2>5
<1>2. line \in [Ends -> Seq(Packets)] /\ line["snd"] = << >>
  BY DEF Init, Ends
<1>3. Elements(line["snd"]) = {}
  BY <1>2 DEF Elements
<1>4. ~snd.wait /\ ~rcv.wait /\ faults = 0 /\ early = 0 /\ keys = 0 /\ skipped = FALSE
  BY DEF Init
<1>5. faults \in 0 .. MaxFaults /\ early \in 0 .. MaxEarly /\ keys \in 0 .. MaxKeys
      /\ skipped \in BOOLEAN
  <2>1. MaxFaults \in Nat /\ MaxEarly \in Nat /\ MaxKeys \in Nat
    BY LinkAssumption DEF LinkAssumption
  <2>2. faults \in 0 .. MaxFaults /\ early \in 0 .. MaxEarly /\ keys \in 0 .. MaxKeys
    BY <1>4, <2>1
  <2>3. skipped \in BOOLEAN
    BY <1>4, Zenon
  <2> QED BY <2>2, <2>3
<1> QED BY <1>1, <1>2, <1>3, <1>4, <1>5 DEF TypeInv, TypeOK

Bounds == faults \in 0 .. MaxFaults /\ early \in 0 .. MaxEarly /\ keys \in 0 .. MaxKeys

\* What is left to show of a step of the sender, and of a step of the receiver.
LEMMA SndTypes ==
  ASSUME TypeInv, snd' \in SndType, (snd.wait => snd.state \in {"S", "F", "D", "Z", "B"})',
         Line', NEW n, NEW p, LessBy(line["snd"]', line["snd"], n, p), p.type # "Y",
         UNCHANGED <<rcv, disk>>, Bounds', skipped' \in BOOLEAN
  PROVE  TypeInv'
<1>1. \A x \in Elements(line["snd"])' : x.type = "Y" => x.flag \in {None, "X", "Z"}
  BY PlainPackets DEF LessBy, TypeInv
<1> QED BY <1>1, Zenon DEF TypeInv, TypeOK, Line, Bounds

LEMMA RcvTypes ==
  ASSUME TypeInv, rcv' \in RcvType, (rcv.wait => rcv.state \in {"R", "F", "D"})',
         disk' \in [Files -> FileType],
         Line', NEW p, Grown(line["snd"]', line["snd"], p),
         p.type = "Y" => p.flag \in {None, "X", "Z"},
         UNCHANGED <<snd, skipped>>, Bounds'
  PROVE  TypeInv'
<1>1. \A x \in Elements(line["snd"])' : x.type = "Y" => x.flag \in {None, "X", "Z"}
  BY DEF Grown, TypeInv
<1> QED BY <1>1, Zenon DEF TypeInv, TypeOK, Line, Bounds

\* The bounds in a step that uses none of them.
LEMMA BoundsKept == ASSUME TypeInv, UNCHANGED bounds PROVE Bounds' /\ Bounds
BY Zenon DEF TypeInv, TypeOK, Bounds, bounds

\* A queue that has not changed.
LEMMA Same == ASSUME NEW q PROVE LessBy(q, q, 0, Damaged) /\ \A p : Grown(q, q, p)
BY 0 # 1 DEF LessBy, Grown

LEMMA TriesFact == MAXTRY <= MostTries /\ IMXTRY <= MostTries /\ MostTries \in Nat
                   /\ MAXTRY \in Nat \ {0} /\ IMXTRY \in Nat \ {0}
BY LinkAssumption DEF LinkAssumption, MostTries

\* Leftovers of nothing taken.
LEMMA WholeLeft == ASSUME NEW q \in Seq(Packets) PROVE q \in Leftovers(q, 0)
<1>1. q = SubSeq(q, 1, Len(q)) /\ 1 \in 0 + 1 .. Len(q) + 1
  OBVIOUS
<1> QED BY <1>1 DEF Leftovers

LEMMA SInterruptedTypes == ASSUME TypeInv, SInterrupted PROVE TypeInv'
<1>1. /\ snd' = [snd EXCEPT !.state = "Z"] /\ UNCHANGED <<rcv, disk, line, bounds, skipped>>
  BY DEF SInterrupted
<1>2. snd' \in SndType /\ snd'.state = "Z"
  BY <1>1 DEF TypeInv, TypeOK, SndType
<1>3. Line' /\ LessBy(line["snd"]', line["snd"], 0, Damaged) /\ skipped' \in BOOLEAN
  BY <1>1, Same DEF Line, TypeInv, TypeOK
<1> QED BY <1>1, <1>2, <1>3, BoundsKept, SndTypes, PlainPackets

\* The sender stops (abort, fatal, error, the user's ^C).
LEMMA SAbortTypes ==
  ASSUME TypeInv, NEW n \in {0, 1}, NEW rest \in Leftovers(line["snd"], n),
         Transmit("snd", ErrorPacket, rest), snd' = [snd EXCEPT !.state = "A", !.wait = FALSE],
         UNCHANGED <<rcv, disk, skipped>>, Bounds'
  PROVE  TypeInv'
<1>1. snd' \in SndType /\ ~snd'.wait
  BY DEF TypeInv, TypeOK, SndType
<1>2. Line' /\ LessBy(line["snd"]', line["snd"], n, ErrorPacket) /\ skipped' \in BOOLEAN
  BY SndTransmits, PlainPackets DEF Line, TypeInv, TypeOK
<1> QED BY <1>1, <1>2, SndTypes, PlainPackets

LEMMA STryTypes == ASSUME TypeInv, STry PROVE TypeInv'
<1>1. /\ snd.state \in {"S", "F", "D", "Z", "B"} /\ snd.numtry < Tries
      /\ snd' = [snd EXCEPT !.wait = TRUE, !.numtry = @ + 1,
                            !.cxzflg = IF snd.state = "F" THEN None ELSE @]
      /\ Transmit("snd", SPacket, line["snd"]) /\ UNCHANGED <<rcv, disk, bounds, skipped>>
  BY DEF STry, SReady
<1>2. snd \in SndType /\ line["snd"] \in Seq(Packets)
  BY DEF TypeInv, TypeOK, Ends
<1>3. snd.numtry + 1 \in 0 .. MostTries
  BY <1>1, <1>2, TriesFact DEF Tries, SndType
<1>4. snd' \in SndType /\ snd'.state = snd.state
  BY <1>1, <1>2, <1>3 DEF SndType
<1>5. SPacket \in Packets /\ SPacket.type # "Y"
  BY <1>1, <1>2, SPacketType
<1>6. Line' /\ LessBy(line["snd"]', line["snd"], 0, SPacket) /\ skipped' \in BOOLEAN
  BY <1>1, <1>2, <1>5, SndTransmits, WholeLeft DEF Line, TypeInv, TypeOK
<1> QED BY <1>1, <1>4, <1>5, <1>6, BoundsKept, SndTypes

\* What the sender turns to after a packet that was accepted.
LEMMA SNextType ==
  ASSUME snd \in SndType, snd.state \in {"S", "F", "D", "Z", "B"},
         NEW n \in Numbers, NEW flag \in {None, "X", "Z"}
  PROVE  SNext(n, flag) \in SndType /\ ~SNext(n, flag).wait /\ SNext(n, flag).pktnum = n
<1> DEFINE base == [snd EXCEPT !.wait = FALSE, !.pktnum = n, !.numtry = 0]
           chunk == IF snd.chunk < FileLen[snd.file]
                    THEN [base EXCEPT !.state = "D", !.chunk = @ + 1]
                    ELSE [base EXCEPT !.state = "Z"]
<1>a. 0 \in 0 .. MostTries /\ snd.chunk \in Nat /\ snd.file \in Files /\ snd.chunk + 1 \in Nat
  BY TriesFact DEF SndType
<1>b. base \in SndType
  BY <1>a DEF SndType, Numbers
<1>1. base \in SndType /\ ~base.wait /\ base.pktnum = n /\ base.file = snd.file
      /\ base.chunk = snd.chunk
  BY <1>b DEF SndType
<1> HIDE DEF base
<1>2. chunk \in SndType /\ ~chunk.wait /\ chunk.pktnum = n
  <2>1. CASE snd.chunk < FileLen[snd.file]
    <3>1. chunk = [base EXCEPT !.state = "D", !.chunk = snd.chunk + 1]
      BY <1>1, <2>1
    <3> QED BY <1>a, <1>1, <3>1 DEF SndType
  <2>2. CASE ~(snd.chunk < FileLen[snd.file])
    <3>1. chunk = [base EXCEPT !.state = "Z"]
      BY <2>2
    <3> QED BY <1>1, <3>1 DEF SndType
  <2> QED BY <2>1, <2>2
<1>3. snd.file # Len(FileLen) => snd.file + 1 \in Files
  BY <1>a, FilesFact
<1> HIDE DEF chunk
<1>4. CASE snd.state = "S"
  <2>1. SNext(n, flag) = [base EXCEPT !.state = "F"]
    BY <1>4 DEF SNext, base
  <2> QED BY <1>1, <2>1 DEF SndType
<1>5. CASE snd.state = "F"
  <2>1. SNext(n, flag) = chunk
    BY <1>5 DEF SNext, base, chunk
  <2> QED BY <1>2, <2>1
<1>6. CASE snd.state = "D"
  <2>1. SNext(n, flag) = IF flag # None THEN [base EXCEPT !.cxzflg = flag] ELSE chunk
    BY <1>6 DEF SNext, base, chunk
  <2> QED BY <1>1, <1>2, <2>1 DEF SndType
<1>7. CASE snd.state = "Z"
  <2>1. SNext(n, flag) = IF snd.cxzflg = "Z" \/ snd.file = Len(FileLen)
                         THEN [base EXCEPT !.state = "B"]
                         ELSE [base EXCEPT !.state = "F", !.file = @ + 1,
                                           !.chunk = 0, !.cxzflg = None]
    BY <1>7 DEF SNext, base
  <2>2. CASE snd.cxzflg = "Z" \/ snd.file = Len(FileLen)
    <3>1. SNext(n, flag) = [base EXCEPT !.state = "B"]
      BY <2>1, <2>2
    <3> QED BY <1>1, <3>1 DEF SndType
  <2>3. CASE ~(snd.cxzflg = "Z" \/ snd.file = Len(FileLen))
    <3>1. SNext(n, flag) = [base EXCEPT !.state = "F", !.file = snd.file + 1,
                                        !.chunk = 0, !.cxzflg = None]
      BY <1>1, <2>1, <2>3
    <3>2. snd.file + 1 \in Files /\ 0 \in Nat
      BY <1>3, <2>3
    <3> QED BY <1>1, <3>1, <3>2 DEF SndType
  <2> QED BY <2>2, <2>3
<1>8. CASE snd.state = "B"
  <2>1. SNext(n, flag) = [base EXCEPT !.state = "C"]
    BY <1>8 DEF SNext, base
  <2> QED BY <1>1, <2>1 DEF SndType
<1> QED BY <1>4, <1>5, <1>6, <1>7, <1>8

\* The packet the sender takes.
LEMMA STakes ==
  ASSUME TypeInv, SWaits
  PROVE  /\ Arrived("snd") \in Packets /\ Arrived("snd").num \in Numbers
         /\ Arrived("snd") \in Elements(line["snd"]) /\ line["snd"] # << >>
         /\ Arrived("snd").type = "Y" => Arrived("snd").flag \in {None, "X", "Z"}
         /\ snd.state \in {"S", "F", "D", "Z", "B"} /\ snd \in SndType
<1>1. line["snd"] \in Seq(Packets) /\ line["snd"] # << >>
  BY DEF TypeInv, TypeOK, Ends, SWaits
<1>2. Arrived("snd") \in Elements(line["snd"]) /\ Arrived("snd") \in Packets
  BY <1>1, HeadIn DEF Arrived
<1> QED BY <1>1, <1>2 DEF TypeInv, TypeOK, SWaits, Packets, Numbers

\* The sender's own record changes to s, and it leaves its queue.
LEMMA SLeavesTypes ==
  ASSUME TypeInv, NEW n \in {0, 1}, NEW rest \in Leftovers(line["snd"], n), Leave("snd", rest),
         snd' \in SndType, (snd.wait => snd.state \in {"S", "F", "D", "Z", "B"})',
         UNCHANGED <<rcv, disk>>, Bounds', skipped' \in BOOLEAN
  PROVE  TypeInv'
<1>1. Line /\ "snd" \in Ends
  BY DEF TypeInv, TypeOK, Line, Ends
<1>2. Line' /\ LessBy(line["snd"]', line["snd"], n, Damaged)
  BY <1>1, Left
<1> QED BY <1>2, SndTypes, PlainPackets

LEMMA SAnswerTypes == ASSUME TypeInv, SEcho \/ SAnswer PROVE TypeInv'
<1>1. CASE SEcho
  <2>1. /\ SWaits /\ Leave("snd", Tail(line["snd"]))
        /\ UNCHANGED <<snd, rcv, disk, bounds, skipped>>
    BY <1>1 DEF SEcho
  <2>2. Tail(line["snd"]) \in Leftovers(line["snd"], 1)
    BY <2>1, TailLess DEF TypeInv, TypeOK, Ends, SWaits
  <2>3. snd' \in SndType /\ (snd.wait => snd.state \in {"S", "F", "D", "Z", "B"})'
        /\ skipped' \in BOOLEAN
    BY <2>1, Zenon DEF TypeInv, TypeOK
  <2> QED BY <2>1, <2>2, <2>3, BoundsKept, SLeavesTypes
<1>2. CASE SAnswer
  <2>1. PICK rest \in Leftovers(line["snd"], 1) :
          SAck(rest) \/ SNakOfNext(rest) \/ SRetry(rest) \/ SError(rest)
    BY <1>2 DEF SAnswer
  <2>2. skipped \in BOOLEAN
    BY Zenon DEF TypeInv, TypeOK
  <2>3. CASE SAck(rest)
    <3>1. /\ SWaits /\ Arrived("snd").type = "Y"
          /\ snd' = SNext(After(snd.pktnum), Arrived("snd").flag)
          /\ Leave("snd", rest) /\ UNCHANGED <<rcv, disk, bounds, skipped>>
      BY <2>3 DEF SAck
    <3>2. After(snd.pktnum) \in Numbers
      BY <3>1, STakes, NextNumber DEF SndType, Numbers
    <3>3. snd' \in SndType /\ ~snd'.wait
      BY <3>1, <3>2, STakes, SNextType
    <3> QED BY <2>2, <3>1, <3>3, BoundsKept, SLeavesTypes
  <2>4. CASE SNakOfNext(rest)
    <3>1. /\ SWaits /\ snd' = SNext(After(After(snd.pktnum)), None) /\ skipped' = TRUE
          /\ Leave("snd", rest) /\ UNCHANGED <<rcv, disk, bounds>>
      BY <2>4 DEF SNakOfNext
    <3>2. After(After(snd.pktnum)) \in Numbers
      BY <3>1, STakes, NextNumber DEF SndType, Numbers
    <3>3. snd' \in SndType /\ ~snd'.wait
      BY <3>1, <3>2, STakes, SNextType
    <3> QED BY <3>1, <3>3, BoundsKept, SLeavesTypes
  <2>5. CASE SRetry(rest)
    <3>1. /\ SWaits /\ snd' = [snd EXCEPT !.wait = FALSE]
          /\ Leave("snd", rest) /\ UNCHANGED <<rcv, disk, bounds, skipped>>
      BY <2>5 DEF SRetry
    <3>2. snd' \in SndType /\ ~snd'.wait
      BY <3>1, STakes DEF SndType
    <3> QED BY <2>2, <3>1, <3>2, BoundsKept, SLeavesTypes
  <2>6. CASE SError(rest)
    <3>1. /\ Transmit("snd", ErrorPacket, rest) /\ snd' = [snd EXCEPT !.state = "A", !.wait = FALSE]
          /\ UNCHANGED <<rcv, disk, bounds, skipped>>
      BY <2>6 DEF SError, SAbort
    <3> QED BY <3>1, BoundsKept, SAbortTypes
  <2> QED BY <2>1, <2>3, <2>4, <2>5, <2>6
<1> QED BY <1>1, <1>2

\* A time-out is within its bound.
LEMMA EarlyBound ==
  ASSUME TypeInv, NEW e, MayTimeOut(e), UNCHANGED <<faults, keys>>
  PROVE  Bounds'
<1>1. early \in 0 .. MaxEarly /\ MaxEarly \in Nat
  BY LinkAssumption, Zenon DEF LinkAssumption, TypeInv, TypeOK
<1>2. early' \in 0 .. MaxEarly
  <2>1. early' = early \/ (early < MaxEarly /\ early' = early + 1)
    BY DEF MayTimeOut
  <2> QED BY <1>1, <2>1
<1> QED BY <1>2, Zenon DEF TypeInv, TypeOK, Bounds

LEMMA KeyBound ==
  ASSUME TypeInv, keys < MaxKeys, keys' = keys + 1, UNCHANGED <<faults, early>>
  PROVE  Bounds'
<1>1. keys \in 0 .. MaxKeys /\ MaxKeys \in Nat
  BY LinkAssumption DEF LinkAssumption, TypeInv, TypeOK
<1>2. keys' \in 0 .. MaxKeys
  BY <1>1
<1> QED BY <1>2, Zenon DEF TypeInv, TypeOK, Bounds

LEMMA STimeOutTypes == ASSUME TypeInv, SWaitEnds PROVE TypeInv'
<1>1. PICK rest \in Leftovers(line["snd"], 0) :
        /\ MayTimeOut("snd") /\ snd' = [snd EXCEPT !.wait = FALSE]
        /\ Leave("snd", rest) /\ UNCHANGED <<rcv, disk, faults, keys, skipped>>
  BY DEF SWaitEnds, STimeOut
<1>2. snd' \in SndType /\ ~snd'.wait
  BY <1>1 DEF TypeInv, TypeOK, SndType
<1>3. skipped' \in BOOLEAN
  BY <1>1, Zenon DEF TypeInv, TypeOK
<1> QED BY <1>1, <1>2, <1>3, EarlyBound, SLeavesTypes

LEMMA SKeyTypes == ASSUME TypeInv, NEW k \in Keys, SKey(k) PROVE TypeInv'
<1>1. /\ snd.wait /\ Bounds' /\ UNCHANGED <<rcv, disk, skipped>>
  BY KeyBound DEF SKey
<1>2. Line /\ line["snd"] \in Leftovers(line["snd"], 0)
  BY WholeLeft DEF TypeInv, TypeOK, Line, Ends
<1>3. CASE k = "C"
  <2>1. /\ snd' = [snd EXCEPT !.state = "A", !.wait = FALSE]
        /\ Transmit("snd", ErrorPacket, line["snd"])
    BY <1>3 DEF SKey
  <2> QED BY <1>1, <1>2, <2>1, SAbortTypes
<1>4. CASE k # "C"
  <2>1. snd' = [snd EXCEPT !.cxzflg = k] /\ UNCHANGED line
    BY <1>4 DEF SKey
  <2>2. k \in {"X", "Z"}
    BY <1>4, LinkAssumption DEF LinkAssumption
  <2>3. snd' \in SndType /\ snd'.state = snd.state
    BY <2>1, <2>2 DEF TypeInv, TypeOK, SndType
  <2>4. Line' /\ LessBy(line["snd"]', line["snd"], 0, Damaged) /\ skipped' \in BOOLEAN
    BY <1>1, <1>2, <2>1, Same DEF Line, TypeInv, TypeOK
  <2>5. (snd.wait => snd.state \in {"S", "F", "D", "Z", "B"})'
    BY <1>1, <2>3 DEF TypeInv
  <2> QED BY <1>1, <2>3, <2>4, <2>5, SndTypes, PlainPackets
<1> QED BY <1>3, <1>4

LEMMA SndStepTypes ==
  ASSUME TypeInv, SStep \/ SWaitEnds \/ (\E k \in Keys : SKey(k))
  PROVE  TypeInv'
<1>1. CASE SGiveUp
  <2>1. /\ Transmit("snd", ErrorPacket, line["snd"])
        /\ snd' = [snd EXCEPT !.state = "A", !.wait = FALSE]
        /\ UNCHANGED <<rcv, disk, bounds, skipped>>
    BY <1>1 DEF SGiveUp, SAbort
  <2>2. line["snd"] \in Leftovers(line["snd"], 0)
    BY WholeLeft DEF TypeInv, TypeOK, Line, Ends
  <2> QED BY <2>1, <2>2, BoundsKept, SAbortTypes
<1> QED BY <1>1, SInterruptedTypes, STryTypes, SAnswerTypes, STimeOutTypes, SKeyTypes DEF SStep
\* The packet the receiver takes.
LEMMA RTakes ==
  ASSUME TypeInv, RWaits
  PROVE  /\ Arrived("rcv") \in Packets /\ Arrived("rcv").num \in Numbers
         /\ Arrived("rcv") \in Elements(line["rcv"]) /\ line["rcv"] # << >>
         /\ rcv.state \in {"R", "F", "D"} /\ rcv \in RcvType /\ rcv.pktnum \in Numbers
<1>1. line["rcv"] \in Seq(Packets) /\ line["rcv"] # << >>
  BY DEF TypeInv, TypeOK, Ends, RWaits
<1>2. Arrived("rcv") \in Elements(line["rcv"]) /\ Arrived("rcv") \in Packets
  BY <1>1, HeadIn DEF Arrived
<1> QED BY <1>1, <1>2 DEF TypeInv, TypeOK, RWaits, Packets, Numbers, RcvType

\* The receiver replies (Reply), or stops with an error packet.
LEMMA ReplyTypes ==
  ASSUME TypeInv, NEW n \in {0, 1}, NEW rest \in Leftovers(line["rcv"], n),
         NEW p \in Packets, p.flag \in {None, "X", "Z"}, Transmit("rcv", p, rest),
         rcv' \in RcvType, ~rcv'.wait, disk' \in [Files -> FileType],
         UNCHANGED <<snd, skipped>>, Bounds'
  PROVE  TypeInv'
<1>1. Line
  BY DEF TypeInv, TypeOK, Line
<1>2. Line' /\ Grown(line["snd"]', line["snd"], p)
  BY <1>1, RcvTransmits
<1> QED BY <1>2, RcvTypes

LEMMA RAbortTypes ==
  ASSUME TypeInv, NEW n \in {0, 1}, NEW rest \in Leftovers(line["rcv"], n),
         Transmit("rcv", ErrorPacket, rest),
         rcv' = [rcv EXCEPT !.state = "A", !.wait = FALSE, !.last = "E"],
         UNCHANGED <<snd, disk, skipped>>, Bounds'
  PROVE  TypeInv'
<1>1. rcv' \in RcvType /\ ~rcv'.wait
  BY DEF TypeInv, TypeOK, RcvType
<1>2. disk' \in [Files -> FileType]
  BY DEF TypeInv, TypeOK
<1>3. ErrorPacket \in Packets /\ ErrorPacket.flag \in {None, "X", "Z"}
  BY PlainPackets DEF ErrorPacket, Packet
<1> QED BY <1>1, <1>2, <1>3, ReplyTypes

LEMMA RTryTypes == ASSUME TypeInv, RTry PROVE TypeInv'
<1>1. /\ rcv.state \in {"R", "F", "D"}
      /\ rcv.numtry < (IF rcv.state = "R" THEN IMXTRY ELSE MAXTRY)
      /\ rcv' = [rcv EXCEPT !.wait = TRUE, !.numtry = @ + 1]
      /\ UNCHANGED <<snd, disk, line, bounds, skipped>>
  BY DEF RTry
<1>2. rcv \in RcvType
  BY DEF TypeInv, TypeOK
<1>3. rcv.numtry + 1 \in 0 .. MostTries
  BY <1>1, <1>2, TriesFact DEF RcvType
<1>4. rcv' \in RcvType /\ rcv'.state = rcv.state
  BY <1>1, <1>2, <1>3 DEF RcvType
<1>5. Line' /\ Grown(line["snd"]', line["snd"], Damaged) /\ disk' \in [Files -> FileType]
  BY <1>1, Same DEF Line, TypeInv, TypeOK
<1> QED BY <1>1, <1>4, <1>5, BoundsKept, RcvTypes, PlainPackets

LEMMA RGiveUpTypes == ASSUME TypeInv, RGiveUp PROVE TypeInv'
<1>1. /\ Transmit("rcv", ErrorPacket, line["rcv"])
      /\ rcv' = [rcv EXCEPT !.state = "A", !.wait = FALSE, !.last = "E"]
      /\ UNCHANGED <<snd, disk, bounds, skipped>>
  BY DEF RGiveUp, RAbort
<1>2. line["rcv"] \in Leftovers(line["rcv"], 0)
  BY WholeLeft DEF TypeInv, TypeOK, Ends
<1> QED BY <1>1, <1>2, BoundsKept, RAbortTypes

LEMMA REchoTypes == ASSUME TypeInv, REcho PROVE TypeInv'
<1>1. /\ RWaits /\ Leave("rcv", Tail(line["rcv"]))
      /\ UNCHANGED <<snd, rcv, disk, bounds, skipped>>
  BY DEF REcho
<1>2. Tail(line["rcv"]) \in Leftovers(line["rcv"], 1)
  BY <1>1, TailLess DEF TypeInv, TypeOK, Ends, RWaits
<1>3. Line /\ "rcv" \in Ends /\ "snd" \in Ends \ {"rcv"}
  BY DEF TypeInv, TypeOK, Line, Ends
<1>4. Line' /\ line["snd"]' = line["snd"]
  BY <1>1, <1>2, <1>3, Left
<1>5. Grown(line["snd"]', line["snd"], Damaged)
  BY <1>4, Same
<1>6. rcv' \in RcvType /\ (rcv.wait => rcv.state \in {"R", "F", "D"})'
      /\ disk' \in [Files -> FileType]
  BY <1>1, Zenon DEF TypeInv, TypeOK
<1> QED BY <1>1, <1>4, <1>5, <1>6, BoundsKept, RcvTypes, PlainPackets

\* The receiver's record after upack, for a record r that the handler changed.
LEMMA UpackTypes ==
  ASSUME TypeInv, NEW rest \in Leftovers(line["rcv"], 1), NEW r \in RcvType,
         NEW f \in {None, "X", "Z"},
         Upack(r, [Packet("Y", rcv.pktnum) EXCEPT !.flag = f], rest),
         disk' \in [Files -> FileType]
  PROVE  TypeInv'
<1> DEFINE p == [Packet("Y", rcv.pktnum) EXCEPT !.flag = f]
<1>1. /\ rcv' = [r EXCEPT !.oldtry = rcv.numtry, !.numtry = 0, !.pktnum = After(rcv.pktnum),
                          !.wait = FALSE, !.last = p.type]
      /\ Transmit("rcv", p, rest) /\ UNCHANGED <<snd, bounds, skipped>>
  BY DEF Upack, Reply
<1>2. rcv \in RcvType /\ rcv.pktnum \in Numbers
  BY DEF TypeInv, TypeOK, RcvType, Numbers
<1>3. p \in Packets /\ p.type = "Y" /\ p.flag = f
  <2>1. "Y" \in Types /\ f \in Flags
    BY DEF Types, Flags
  <2> QED BY <1>2, <2>1, FlagType
<1> HIDE DEF p
<1>4. After(rcv.pktnum) \in Numbers
  BY <1>2, NextNumber
<1>5. rcv' \in RcvType /\ ~rcv'.wait
  <2>1. 0 \in 0 .. MostTries
    BY TriesFact
  <2> QED BY <1>1, <1>2, <1>3, <1>4, <2>1 DEF RcvType, Numbers
<1> QED BY <1>1, <1>3, <1>5, BoundsKept, ReplyTypes

\* An acknowledgement without a flag.
LEMMA PlainUpackTypes ==
  ASSUME TypeInv, NEW rest \in Leftovers(line["rcv"], 1), NEW r \in RcvType,
         Upack(r, Packet("Y", rcv.pktnum), rest), disk' \in [Files -> FileType]
  PROVE  TypeInv'
<1>1. Packet("Y", rcv.pktnum) = [Packet("Y", rcv.pktnum) EXCEPT !.flag = None]
  BY DEF Packet
<1> QED BY <1>1, UpackTypes

LEMMA NakTypes ==
  ASSUME TypeInv, NEW rest \in Leftovers(line["rcv"], 1), NEW r \in RcvType,
         Nak(r, rest), UNCHANGED disk
  PROVE  TypeInv'
<1>1. rcv.pktnum \in Numbers /\ disk' \in [Files -> FileType]
  BY DEF TypeInv, TypeOK, RcvType, Numbers
<1>2. Packet("N", rcv.pktnum) \in Packets /\ Packet("N", rcv.pktnum).type = "N"
      /\ Packet("N", rcv.pktnum).flag = None
  BY <1>1, PacketType DEF Types
<1>3. /\ rcv' = [r EXCEPT !.wait = FALSE, !.last = "N"]
      /\ Transmit("rcv", Packet("N", rcv.pktnum), rest) /\ UNCHANGED <<snd, bounds, skipped>>
  BY <1>2 DEF Nak, Reply
<1>4. rcv' \in RcvType /\ ~rcv'.wait
  BY <1>3 DEF RcvType
<1> QED BY <1>1, <1>2, <1>3, <1>4, BoundsKept, ReplyTypes
\* The receiver's file (none before the first file header) is changed.
LEMMA FileChanged ==
  ASSUME TypeInv, NEW f \in Files \cup {0}
  PROVE  /\ \A c \in Chunks : [disk EXCEPT ![f].chunks = Append(@, c)] \in [Files -> FileType]
         /\ \A s \in {"absent", "open", "kept", "deleted"} :
              /\ [disk EXCEPT ![f].status = s] \in [Files -> FileType]
              /\ [disk EXCEPT ![f] = [status |-> s, chunks |-> << >>]] \in [Files -> FileType]
<1>1. disk \in [Files -> FileType] /\ << >> \in Seq(Chunks)
  BY DEF TypeInv, TypeOK
<1>2. CASE f \in Files
  <2>1. ASSUME NEW c \in Chunks
        PROVE  [disk EXCEPT ![f].chunks = Append(@, c)] \in [Files -> FileType]
    <3>1. disk[f].chunks \in Seq(Chunks)
      BY <1>1, <1>2 DEF FileType
    <3>2. Append(disk[f].chunks, c) \in Seq(Chunks)
      BY <3>1
    <3> QED BY <1>1, <1>2, <3>2 DEF FileType
  <2>2. ASSUME NEW s \in {"absent", "open", "kept", "deleted"}
        PROVE  /\ [disk EXCEPT ![f].status = s] \in [Files -> FileType]
               /\ [disk EXCEPT ![f] = [status |-> s, chunks |-> << >>]] \in [Files -> FileType]
    BY <1>1, <1>2 DEF FileType
  <2> QED BY <2>1, <2>2
<1>3. CASE f = 0
  <2>1. 0 \notin Files
    BY FilesFact
  <2> QED BY <1>1, <1>3, <2>1
<1> QED BY <1>2, <1>3

LEMMA ItemParts ==
  ASSUME NEW p \in Packets
  PROVE  p.item \in Chunks /\ p.item[1] \in Files \cup {0}
BY DEF Packets, Chunks, NoChunk

LEMMA RInitTypes == ASSUME TypeInv, NEW rest \in Leftovers(line["rcv"], 1), RInit(rest) PROVE TypeInv'
<1> DEFINE n == Arrived("rcv").num
           r == [rcv EXCEPT !.state = "F", !.oldtry = rcv.numtry, !.numtry = 0, !.pktnum = After(n)]
<1>1. /\ RWaits /\ rcv' = [r EXCEPT !.wait = FALSE, !.last = Packet("Y", n).type]
      /\ Transmit("rcv", Packet("Y", n), rest) /\ UNCHANGED <<snd, disk, bounds, skipped>>
  BY DEF RInit, RGets, Reply
<1>2. n \in Numbers /\ rcv \in RcvType
  BY <1>1, RTakes
<1> HIDE DEF n
<1>3. Packet("Y", n) \in Packets /\ Packet("Y", n).type = "Y" /\ Packet("Y", n).flag = None
  BY <1>2, PacketType DEF Types
<1>4. After(n) \in Numbers /\ 0 \in 0 .. MostTries
  BY <1>2, NextNumber, TriesFact
<1>5. r \in RcvType
  BY <1>2, <1>4 DEF RcvType, Numbers
<1> HIDE DEF r
<1>6. rcv' \in RcvType /\ ~rcv'.wait /\ disk' \in [Files -> FileType]
  BY <1>1, <1>3, <1>5 DEF RcvType, TypeInv, TypeOK
<1> QED BY <1>1, <1>3, <1>6, BoundsKept, ReplyTypes

\* What RPrevious does, alternative by alternative.
LEMMA RPreviousCases ==
  ASSUME TypeInv, NEW rest \in Leftovers(line["rcv"], 1), RPrevious(rest)
  PROVE  /\ RWaits /\ UNCHANGED disk
         /\ \/ RAbort(rest)
            \/ /\ rcv.oldtry + 1 \in 0 .. MostTries
               /\ \/ /\ ChkpolSkips
                     /\ Reply([[rcv EXCEPT !.oldtry = @ + 1] EXCEPT !.numtry = 0],
                              Packet("Y", Arrived("rcv").num), rest)
                  \/ Nak([rcv EXCEPT !.oldtry = @ + 1], rest)
<1> DEFINE n == Arrived("rcv").num
           r == [rcv EXCEPT !.oldtry = @ + 1]
           tries == IF Arrived("rcv").type = "S" THEN IMXTRY ELSE MAXTRY
<1>0. RWaits /\ UNCHANGED disk
  BY DEF RPrevious, RGets
<1>1. /\ RWaits
      /\ CASE rcv.oldtry >= tries -> RAbort(rest)
           [] rcv.oldtry < tries /\ ChkpolSkips ->
                Reply([r EXCEPT !.numtry = 0], Packet("Y", n), rest)
           [] rcv.oldtry < tries /\ ~ChkpolSkips -> Nak(r, rest)
  BY <1>0 DEF RPrevious
<1>2. rcv.oldtry \in Nat /\ tries <= MostTries /\ tries \in Nat /\ MostTries \in Nat
  BY <1>0, RTakes, TriesFact DEF RcvType
<1> SUFFICES \/ RAbort(rest)
             \/ /\ rcv.oldtry + 1 \in 0 .. MostTries
                /\ \/ ChkpolSkips /\ Reply([r EXCEPT !.numtry = 0], Packet("Y", n), rest)
                   \/ Nak(r, rest)
  BY <1>0
<1> HIDE DEF n, tries, r
<1>3. CASE rcv.oldtry >= tries
  <2>1. ~(rcv.oldtry < tries)
    BY <1>2, <1>3
  <2> QED BY <1>1, <1>3, <2>1, Zenon
<1>4. CASE rcv.oldtry < tries
  <2>1. ~(rcv.oldtry >= tries) /\ rcv.oldtry + 1 \in 0 .. MostTries
    BY <1>2, <1>4
  <2> QED BY <1>1, <1>4, <2>1, Zenon
<1> QED BY <1>2, <1>3, <1>4

LEMMA RPreviousTypes ==
  ASSUME TypeInv, NEW rest \in Leftovers(line["rcv"], 1), RPrevious(rest)
  PROVE  TypeInv'
<1> DEFINE n == Arrived("rcv").num
           r == [rcv EXCEPT !.oldtry = @ + 1]
<1>1. /\ RWaits /\ UNCHANGED disk
      /\ \/ RAbort(rest)
         \/ /\ rcv.oldtry + 1 \in 0 .. MostTries
            /\ Reply([r EXCEPT !.numtry = 0], Packet("Y", n), rest) \/ Nak(r, rest)
  BY RPreviousCases
<1>2. n \in Numbers /\ rcv \in RcvType
  BY <1>1, RTakes
<1> HIDE DEF n
<1>3. CASE RAbort(rest)
  BY <1>1, <1>3, BoundsKept, RAbortTypes DEF RAbort
<1>4. CASE /\ rcv.oldtry + 1 \in 0 .. MostTries
           /\ Reply([r EXCEPT !.numtry = 0], Packet("Y", n), rest) \/ Nak(r, rest)
  <2>1. r \in RcvType
    BY <1>2, <1>4 DEF RcvType
  <2> HIDE DEF r
  <2>2. CASE Reply([r EXCEPT !.numtry = 0], Packet("Y", n), rest)
    <3>1. /\ rcv' = [[r EXCEPT !.numtry = 0] EXCEPT !.wait = FALSE, !.last = Packet("Y", n).type]
          /\ Transmit("rcv", Packet("Y", n), rest) /\ UNCHANGED <<snd, disk, bounds, skipped>>
      BY <1>1, <2>2 DEF Reply
    <3>2. Packet("Y", n) \in Packets /\ Packet("Y", n).type = "Y" /\ Packet("Y", n).flag = None
      BY <1>2, PacketType DEF Types
    <3>3. [r EXCEPT !.numtry = 0] \in RcvType
      BY <2>1, TriesFact DEF RcvType
    <3>4. rcv' \in RcvType /\ ~rcv'.wait
      BY <3>1, <3>2, <3>3 DEF RcvType
    <3>5. disk' \in [Files -> FileType]
      BY <3>1 DEF TypeInv, TypeOK
    <3> QED BY <3>1, <3>2, <3>4, <3>5, BoundsKept, ReplyTypes
  <2>3. CASE Nak(r, rest)
    BY <1>1, <2>1, <2>3, NakTypes
  <2> QED BY <1>4, <2>2, <2>3
<1> QED BY <1>1, <1>3, <1>4

LEMMA RFileTypes == ASSUME TypeInv, NEW rest \in Leftovers(line["rcv"], 1), RFile(rest) PROVE TypeInv'
<1> DEFINE f == Arrived("rcv").item[1]
           r == [rcv EXCEPT !.state = "D", !.file = f]
<1>1. RWaits /\ \/ /\ Upack(r, Packet("Y", rcv.pktnum), rest)
                   /\ disk' = [disk EXCEPT ![f] = [status |-> "open", chunks |-> << >>]]
                \/ RAbort(rest) /\ UNCHANGED disk
  BY DEF RFile, RGets
<1>2. f \in Files \cup {0} /\ rcv \in RcvType
  BY <1>1, RTakes, ItemParts
<1> HIDE DEF f
<1>3. CASE /\ Upack(r, Packet("Y", rcv.pktnum), rest)
           /\ disk' = [disk EXCEPT ![f] = [status |-> "open", chunks |-> << >>]]
  <2>1. r \in RcvType /\ disk' \in [Files -> FileType]
    BY <1>2, <1>3, FileChanged DEF RcvType
  <2> QED BY <1>3, <2>1, PlainUpackTypes
<1>4. CASE RAbort(rest) /\ UNCHANGED disk
  BY <1>4, BoundsKept, RAbortTypes DEF RAbort
<1> QED BY <1>1, <1>3, <1>4

LEMMA RBreakTypes == ASSUME TypeInv, NEW rest \in Leftovers(line["rcv"], 1), RBreak(rest) PROVE TypeInv'
<1> DEFINE r == [rcv EXCEPT !.state = "C"]
           p == Packet("Y", rcv.pktnum)
<1>1. /\ RWaits /\ rcv' = [r EXCEPT !.wait = FALSE, !.last = p.type]
      /\ Transmit("rcv", p, rest) /\ UNCHANGED <<snd, disk, bounds, skipped>>
  BY DEF RBreak, RGets, Reply
<1>2. rcv \in RcvType /\ p \in Packets /\ p.type = "Y" /\ p.flag = None
  <2>1. rcv \in RcvType /\ rcv.pktnum \in Numbers /\ "Y" \in Types
    BY <1>1, RTakes DEF Types
  <2> QED BY <2>1, PacketType
<1> HIDE DEF p
<1>3. rcv' \in RcvType /\ ~rcv'.wait
  BY <1>1, <1>2 DEF RcvType
<1>4. disk' \in [Files -> FileType]
  BY <1>1 DEF TypeInv, TypeOK
<1> QED BY <1>1, <1>2, <1>3, <1>4, BoundsKept, ReplyTypes

LEMMA RDataTypes == ASSUME TypeInv, NEW rest \in Leftovers(line["rcv"], 1), RData(rest) PROVE TypeInv'
<1>1. RWaits
  BY DEF RData, RGets
<1>2. /\ Arrived("rcv").item \in Chunks /\ rcv \in RcvType /\ rcv.file \in Files \cup {0}
      /\ rcv.cxzflg \in {None, "X", "Z"} /\ disk \in [Files -> FileType]
  BY <1>1, RTakes, ItemParts DEF RcvType, TypeInv, TypeOK
<1>3. CASE /\ Upack(rcv, Packet("Y", rcv.pktnum), rest)
           /\ disk' = [disk EXCEPT ![rcv.file].chunks = Append(@, Arrived("rcv").item)]
  <2>1. disk' \in [Files -> FileType]
    BY <1>2, <1>3, FileChanged
  <2> QED BY <1>2, <1>3, <2>1, PlainUpackTypes
<1>4. CASE RAbort(rest) /\ UNCHANGED disk
  BY <1>4, BoundsKept, RAbortTypes DEF RAbort
<1>5. CASE /\ Upack(rcv, [Packet("Y", rcv.pktnum) EXCEPT !.flag = rcv.cxzflg], rest)
           /\ UNCHANGED disk
  BY <1>2, <1>5, UpackTypes
<1> QED BY <1>3, <1>4, <1>5 DEF RData

LEMMA REofTypes == ASSUME TypeInv, NEW rest \in Leftovers(line["rcv"], 1), REof(rest) PROVE TypeInv'
<1>1. RWaits
  BY DEF REof, RGets
<1>2. rcv \in RcvType /\ rcv.file \in Files \cup {0}
  BY <1>1, RTakes DEF RcvType
<1>3. CASE /\ Upack([rcv EXCEPT !.state = "F"], Packet("Y", rcv.pktnum), rest)
           /\ disk' = [disk EXCEPT ![rcv.file].status = "kept"]
  <2>1. disk' \in [Files -> FileType] /\ [rcv EXCEPT !.state = "F"] \in RcvType
    BY <1>2, <1>3, FileChanged DEF RcvType
  <2> QED BY <1>3, <2>1, PlainUpackTypes
<1>4. CASE RAbort(rest) /\ UNCHANGED disk
  BY <1>4, BoundsKept, RAbortTypes DEF RAbort
<1>5. CASE /\ Upack([rcv EXCEPT !.state = "F", !.cxzflg = IF @ = "X" THEN None ELSE @],
                    Packet("Y", rcv.pktnum), rest)
           /\ disk' = [disk EXCEPT ![rcv.file] = [status |-> "deleted", chunks |-> << >>]]
  <2>1. disk' \in [Files -> FileType]
    BY <1>2, <1>5, FileChanged
  <2>2. [rcv EXCEPT !.state = "F", !.cxzflg = IF @ = "X" THEN None ELSE @] \in RcvType
    BY <1>2 DEF RcvType
  <2> QED BY <1>5, <2>1, <2>2, PlainUpackTypes
<1> QED BY <1>3, <1>4, <1>5 DEF REof

LEMMA RAnswerTypes == ASSUME TypeInv, RAnswer PROVE TypeInv'
<1>1. PICK rest \in Leftovers(line["rcv"], 1) :
        \/ RBad(rest) \/ RInit(rest) \/ RUnexpected(rest) \/ RPrevious(rest)
        \/ RFile(rest) \/ RBreak(rest) \/ RData(rest) \/ REof(rest) \/ RError(rest)
  BY DEF RAnswer
<1>2. CASE RBad(rest) \/ RUnexpected(rest)
  <2>1. Nak(rcv, rest) /\ UNCHANGED disk /\ rcv \in RcvType
    BY <1>2 DEF RBad, RUnexpected, TypeInv, TypeOK
  <2> QED BY <2>1, NakTypes
<1>3. CASE RError(rest)
  BY <1>3, BoundsKept, RAbortTypes DEF RError, RAbort
<1> QED BY <1>1, <1>2, <1>3, RInitTypes, RPreviousTypes, RFileTypes, RBreakTypes, RDataTypes, REofTypes

LEMMA RTimeOutTypes == ASSUME TypeInv, RWaitEnds PROVE TypeInv'
<1>1. PICK rest \in Leftovers(line["rcv"], 0) :
        /\ MayTimeOut("rcv") /\ rcv' = [rcv EXCEPT !.wait = FALSE, !.last = "N"]
        /\ Transmit("rcv", Packet("N", rcv.pktnum), rest)
        /\ UNCHANGED <<snd, disk, faults, keys, skipped>>
  BY DEF RWaitEnds, RTimeOut
<1>2. rcv \in RcvType /\ rcv.pktnum \in Numbers /\ "N" \in Types /\ disk' \in [Files -> FileType]
  BY <1>1 DEF TypeInv, TypeOK, RcvType, Numbers, Types
<1>3. Packet("N", rcv.pktnum) \in Packets /\ Packet("N", rcv.pktnum).flag = None
  BY <1>2, PacketType
<1>4. rcv' \in RcvType /\ ~rcv'.wait
  BY <1>1, <1>2 DEF RcvType
<1> QED BY <1>1, <1>2, <1>3, <1>4, EarlyBound, ReplyTypes

LEMMA RKeyTypes == ASSUME TypeInv, NEW k \in Keys, RKey(k) PROVE TypeInv'
<1>1. /\ rcv.wait /\ Bounds' /\ UNCHANGED <<snd, disk, skipped>>
  BY KeyBound DEF RKey
<1>2. Line /\ line["rcv"] \in Leftovers(line["rcv"], 0)
  BY WholeLeft DEF TypeInv, TypeOK, Line, Ends
<1>3. CASE k = "C"
  <2>1. /\ rcv' = [rcv EXCEPT !.state = "A", !.wait = FALSE, !.last = "E"]
        /\ Transmit("rcv", ErrorPacket, line["rcv"])
    BY <1>3 DEF RKey
  <2> QED BY <1>1, <1>2, <2>1, RAbortTypes
<1>4. CASE k # "C"
  <2>1. rcv' = [rcv EXCEPT !.cxzflg = k] /\ UNCHANGED line
    BY <1>4 DEF RKey
  <2>2. k \in {"X", "Z"}
    BY <1>4, LinkAssumption DEF LinkAssumption
  <2>3. rcv' \in RcvType /\ rcv'.state = rcv.state
    BY <2>1, <2>2 DEF TypeInv, TypeOK, RcvType
  <2>4. Line' /\ Grown(line["snd"]', line["snd"], Damaged) /\ disk' \in [Files -> FileType]
    BY <1>1, <1>2, <2>1, Same DEF Line, TypeInv, TypeOK
  <2>5. (rcv.wait => rcv.state \in {"R", "F", "D"})'
    BY <1>1, <2>3 DEF TypeInv
  <2> QED BY <1>1, <2>3, <2>4, <2>5, RcvTypes, PlainPackets
<1> QED BY <1>3, <1>4

LEMMA LineFailsTypes == ASSUME TypeInv, NEW e \in Ends, Lose(e) \/ Damage(e) PROVE TypeInv'
<1>1. /\ Line' /\ LessBy(line'[e], line[e], 0, Damaged)
      /\ \A f \in Ends \ {e} : line'[f] = line[f]
      /\ UNCHANGED <<snd, rcv, disk, skipped, early, keys>>
      /\ faults < MaxFaults /\ faults' = faults + 1
  BY LineFails DEF TypeInv, TypeOK, Line
<1>2. faults' \in 0 .. MaxFaults
  <2>1. faults \in 0 .. MaxFaults /\ MaxFaults \in Nat
    BY LinkAssumption, Zenon DEF LinkAssumption, TypeInv, TypeOK
  <2> QED BY <1>1, <2>1
<1>3. Elements(line'["snd"]) \subseteq Elements(line["snd"]) \cup {Damaged}
  BY <1>1, Same DEF LessBy, Ends
<1>4. \A x \in Elements(line["snd"])' : x.type = "Y" => x.flag \in {None, "X", "Z"}
  BY <1>3, PlainPackets DEF TypeInv
<1> QED BY <1>1, <1>2, <1>4, Zenon DEF TypeInv, TypeOK, Line

\* The type invariant is inductive.
LEMMA NextTypes == ASSUME TypeInv, [Next]_vars PROVE TypeInv'
<1>1. CASE RStep \/ RWaitEnds \/ (\E k \in Keys : RKey(k))
  BY <1>1, RTryTypes, RGiveUpTypes, REchoTypes, RAnswerTypes, RTimeOutTypes, RKeyTypes DEF RStep
<1>2. CASE UNCHANGED vars
  BY <1>2, Zenon DEF vars, TypeInv, TypeOK
<1> QED BY <1>1, <1>2, SndStepTypes, LineFailsTypes DEF Next

\* Type correctness: the numbers of kermit's packets stay below 64, the tries
\* below their limits and the line holds well-formed packets, for any files,
\* faults, time-outs and keys.
THEOREM TypeCorrect == Spec => []TypeOK
<1>1. Init => TypeInv
  BY InitTypes
<1>2. TypeInv /\ [Next]_vars => TypeInv'
  BY NextTypes
<1>3. TypeInv => TypeOK
  BY DEF TypeInv
<1> QED BY <1>1, <1>2, <1>3, PTL DEF Spec

-----------------------------------------------------------------------------
(***************************************************************************)
(* Interruption by the receiver's user.                                    *)
(***************************************************************************)

\* No file of the receiver becomes a kept one.
NoneKept == \A f \in Files : disk'[f].status = "kept" => disk[f].status = "kept"

\* What a step of the receiver leaves of an interruption by its user.
LEMMA InterruptKept ==
  ASSUME TypeInv, Next, rcv.cxzflg # None
  PROVE  NoneKept /\ (rcv.cxzflg = "Z" => rcv'.cxzflg # None)
<1>0. rcv \in RcvType /\ disk \in [Files -> FileType]
  BY DEF TypeInv, TypeOK
<1>1. CASE UNCHANGED <<rcv, disk>>
  BY <1>1 DEF NoneKept
<1>2. ASSUME UNCHANGED disk, rcv'.cxzflg = rcv.cxzflg
      PROVE  NoneKept /\ (rcv.cxzflg = "Z" => rcv'.cxzflg # None)
  BY <1>2 DEF NoneKept
<1>3. CASE RTry \/ RGiveUp \/ REcho \/ RWaitEnds
  <2>1. UNCHANGED disk /\ rcv'.cxzflg = rcv.cxzflg
    BY <1>0, <1>3 DEF RTry, RGiveUp, REcho, RAbort, RWaitEnds, RTimeOut, RcvType
  <2> QED BY <2>1, <1>2
<1>4. CASE \E k \in Keys : RKey(k)
  <2>1. UNCHANGED disk /\ rcv'.cxzflg # None
    BY <1>0, <1>4, LinkAssumption DEF LinkAssumption, RKey, RcvType, None
  <2> QED BY <2>1 DEF NoneKept
<1>5. ASSUME NEW rest \in Leftovers(line["rcv"], 1),
             RBad(rest) \/ RInit(rest) \/ RUnexpected(rest) \/ RBreak(rest) \/ RError(rest)
      PROVE  UNCHANGED disk /\ rcv'.cxzflg = rcv.cxzflg
  BY <1>0, <1>5 DEF RBad, RInit, RUnexpected, RBreak, RError, RAbort, Nak, Reply, RcvType
<1>6. ASSUME NEW rest \in Leftovers(line["rcv"], 1), RPrevious(rest)
      PROVE  UNCHANGED disk /\ rcv'.cxzflg = rcv.cxzflg
  BY <1>0, <1>6, RPreviousCases DEF RAbort, Nak, Reply, RcvType
<1>7. ASSUME NEW rest \in Leftovers(line["rcv"], 1), RData(rest)
      PROVE  UNCHANGED disk /\ rcv'.cxzflg = rcv.cxzflg
  BY <1>0, <1>7 DEF RData, Upack, Reply, RcvType
<1>8. ASSUME NEW rest \in Leftovers(line["rcv"], 1), RFile(rest)
      PROVE  NoneKept /\ rcv'.cxzflg = rcv.cxzflg
  <2> DEFINE f == Arrived("rcv").item[1]
  <2>1. /\ rcv'.cxzflg = rcv.cxzflg
        /\ disk' = disk \/ disk' = [disk EXCEPT ![f] = [status |-> "open", chunks |-> << >>]]
    BY <1>0, <1>8 DEF RFile, RAbort, Upack, Reply, RcvType
  <2> HIDE DEF f
  <2> QED BY <1>0, <2>1 DEF NoneKept
<1>9. ASSUME NEW rest \in Leftovers(line["rcv"], 1), REof(rest)
      PROVE  NoneKept /\ (rcv.cxzflg = "Z" => rcv'.cxzflg # None)
  <2>1. disk' = [disk EXCEPT ![rcv.file] = [status |-> "deleted", chunks |-> << >>]]
    BY <1>9 DEF REof
  <2>2. rcv.cxzflg = "Z" => rcv'.cxzflg = "Z"
    BY <1>0, <1>9 DEF REof, Upack, Reply, RcvType
  <2> QED BY <1>0, <2>1, <2>2 DEF NoneKept, None
<1>10. CASE RAnswer
  <2>1. PICK rest \in Leftovers(line["rcv"], 1) :
        \/ RBad(rest) \/ RInit(rest) \/ RUnexpected(rest) \/ RPrevious(rest)
        \/ RFile(rest) \/ RBreak(rest) \/ RData(rest) \/ REof(rest) \/ RError(rest)
    BY <1>10 DEF RAnswer
  <2> QED BY <2>1, <1>2, <1>5, <1>6, <1>7, <1>8, <1>9
<1>11. CASE SStep \/ SWaitEnds \/ (\E k \in Keys : SKey(k))
  <2>1. UNCHANGED <<rcv, disk>>
    BY <1>11 DEF SStep, SWaitEnds, SKey, SInterrupted, STry, SGiveUp, SEcho, SAnswer, SAbort,
                 SAck, SNakOfNext, SRetry, SError, STimeOut
  <2> QED BY <2>1, <1>1
<1>12. CASE \E e \in Ends : Lose(e) \/ Damage(e)
  BY <1>1, <1>12 DEF Lose, Damage, Fault
<1> QED BY <1>3, <1>4, <1>10, <1>11, <1>12 DEF Next, RStep

\* A receiver that its user interrupted keeps no file, whatever is sent to it, and
\* an interruption of the whole group outlives the file.
THEOREM InterruptObeyed == Spec => ReceiverInterrupt
<1>1. TypeInv /\ [Next]_vars =>
        [rcv.cxzflg # None => NoneKept /\ (rcv.cxzflg = "Z" => rcv'.cxzflg # None)]_vars
  BY InterruptKept
<1>2. Init => TypeInv
  BY InitTypes
<1>3. TypeInv /\ [Next]_vars => TypeInv'
  BY NextTypes
<1> QED BY <1>1, <1>2, <1>3, PTL DEF Spec, ReceiverInterrupt, NoneKept
=============================================================================
