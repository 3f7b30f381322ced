--------------------------- MODULE KermitFileProofs ---------------------------
(***************************************************************************)
(* Proofs about KermitFile: what gtchr quotes ptchr undoes, a data packet  *)
(* is never empty nor longer than was asked for, and the file arrives.     *)
(***************************************************************************)
EXTENDS KermitFile, SequenceTheorems, WellFoundedInduction, TLAPS

-----------------------------------------------------------------------------
(***************************************************************************)
(* Quoting.                                                                *)
(***************************************************************************)

\* The low seven bits and the eighth one.
LEMMA ByteParts ==
  ASSUME NEW c \in Byte
  PROVE  /\ Low(c) \in 0 .. 127
         /\ c < 128 => Low(c) = c
         /\ c > 127 => Low(c) = c - 128
BY DEF Byte, Low

\* Flipping bit six twice leaves seven bits as they were, a control character
\* becomes a printable one that is no quote character, and the eighth bit is
\* kept apart.
LEMMA FlipParts ==
  ASSUME NEW l \in 0 .. 127, NEW b \in {0, 128}
  PROVE  /\ Flip(l) \in 0 .. 127
         /\ Flip(Flip(l)) = l
         /\ l < 32 \/ l = DEL => Flip(l) \in 63 .. 95
         /\ Low(l + b) = l
BY DEF Flip, Low, DEL

\* Flipping bit six leaves seven bits.
LEMMA FlipType ==
  ASSUME NEW l \in 0 .. 127
  PROVE  Flip(l) \in 0 .. 127
BY DEF Flip

\* Seven bits with an eighth are a byte.
LEMMA EighthBit ==
  ASSUME NEW f \in 0 .. 127, NEW b \in {0, 128}
  PROVE  f + b \in Byte
BY DEF Byte

\* What gtchr makes of a byte is one to three characters.
LEMMA EncodeLength ==
  ASSUME NEW c, NEW q \in BOOLEAN, NEW p \in BOOLEAN
  PROVE  Len(Encode(c, q, p)) \in 1 .. 3
BY DEF Encode

\* Those characters are bytes.
LEMMA EncodeType ==
  ASSUME NEW c \in Byte, NEW q \in BOOLEAN, NEW p \in BOOLEAN
  PROVE  Encode(c, q, p) \in Seq(Byte)
<1> DEFINE bit == IF c > 127 /\ ~q /\ ~p THEN 128 ELSE 0
<1>1. Low(c) \in 0 .. 127 /\ bit \in {0, 128} BY ByteParts
<1>2. Flip(Low(c)) \in 0 .. 127 BY <1>1, FlipType
<1>3. Low(c) + bit \in Byte /\ Flip(Low(c)) + bit \in Byte BY <1>1, <1>2 DEF Byte
<1>4. QUOTE \in Byte /\ QBIN \in Byte BY FileAssumption DEF Printable, Byte
<1> QED BY <1>3, <1>4 DEF Encode

\* The characters of a code are found at the front of what follows it.
LEMMA AtFront ==
  ASSUME NEW e \in Seq(Byte), NEW t \in Seq(Byte), NEW i \in 1 .. Len(e)
  PROVE  At(e \o t, i) = e[i]
BY DEF At

\* A quoted control character is read back, and is not taken for a quoted quote.
LEMMA ControlRead ==
  ASSUME NEW l \in 0 .. 127, NEW b \in {0, 128}, NEW q \in BOOLEAN,
         l < 32 \/ l = DEL
  PROVE  Unquote(Flip(l) + b, q) = l + b
<1>1. Flip(l) \in 63 .. 95 BY FlipParts
<1>2. Low(Flip(l) + b) = Flip(l) /\ Flip(Flip(l)) = l BY <1>1, FlipParts
<1>3. Flip(l) # QUOTE /\ Flip(l) # QBIN BY <1>1, FileAssumption DEF Printable
<1> QED BY <1>1, <1>2, <1>3 DEF Unquote

\* A quoted quote is read back.
LEMMA QuoteRead ==
  ASSUME NEW l \in 0 .. 127, NEW b \in {0, 128}, NEW q \in BOOLEAN,
         l = QUOTE \/ (q /\ l = QBIN)
  PROVE  Unquote(l + b, q) = l + b
BY FlipParts DEF Unquote

Prefixed(s, q) == q /\ At(s, 1) = QBIN

\* ptchr's turn when the first character, behind a prefix if k = 1, is not quoted.
LEMMA PlainRead ==
  ASSUME NEW s, NEW q \in BOOLEAN, NEW k \in {0, 1}, NEW v \in Byte,
         k = 1 => Prefixed(s, q),
         At(s, k + 1) = v, v # QUOTE, q => v # QBIN
  PROVE  /\ Taken(s, q) = k + 1
         /\ Decode(s, q) = IF k = 1 /\ v < 128 THEN v + 128 ELSE v
<1>1. CASE k = 1
  <2>1. Prefix(s, q) = 1 BY <1>1 DEF Prefix, Prefixed
  <2>2. ~Quoted(s, q) BY <1>1, <2>1 DEF Quoted
  <2>3. Taken(s, q) = 2 BY <2>1, <2>2 DEF Taken
  <2> QED BY <1>1, <2>1, <2>2, <2>3 DEF Decode
<1>2. CASE k = 0
  <2>1. At(s, 1) = v BY <1>2
  <2>2. Prefix(s, q) = 0 BY <2>1 DEF Prefix
  <2>3. ~Quoted(s, q) BY <2>1, <2>2 DEF Quoted
  <2>4. Taken(s, q) = 1 BY <2>2, <2>3 DEF Taken
  <2> QED BY <1>2, <2>1, <2>2, <2>3, <2>4 DEF Decode
<1> QED BY <1>1, <1>2

\* And when it is quoted.
LEMMA QuotedRead ==
  ASSUME NEW s, NEW q \in BOOLEAN, NEW k \in {0, 1}, NEW v \in Byte, NEW u \in Byte,
         k = 1 => Prefixed(s, q),
         At(s, k + 1) = QUOTE, At(s, k + 2) = v, Unquote(v, q) = u
  PROVE  /\ Taken(s, q) = k + 2
         /\ Decode(s, q) = IF k = 1 /\ u < 128 THEN u + 128 ELSE u
<1>0. QUOTE # QBIN BY FileAssumption
<1>1. CASE k = 1
  <2>1. Prefix(s, q) = 1 BY <1>1 DEF Prefix, Prefixed
  <2>2. Quoted(s, q) BY <1>1, <2>1 DEF Quoted
  <2>3. Taken(s, q) = 3 BY <2>1, <2>2 DEF Taken
  <2>4. At(s, Taken(s, q)) = v BY <1>1, <2>3
  <2>5. Decode(s, q) = IF u < 128 THEN u + 128 ELSE u
    BY <2>1, <2>2, <2>4, Zenon DEF Decode
  <2> QED BY <1>1, <2>3, <2>5
<1>2. CASE k = 0
  <2>1. At(s, 1) = QUOTE /\ At(s, 2) = v BY <1>2
  <2>2. Prefix(s, q) = 0 BY <1>0, <2>1 DEF Prefix
  <2>3. Quoted(s, q) BY <2>1, <2>2 DEF Quoted
  <2>4. Taken(s, q) = 2 BY <2>2, <2>3 DEF Taken
  <2>5. At(s, Taken(s, q)) = v BY <2>1, <2>4
  <2> QED BY <1>2, <2>2, <2>3, <2>4, <2>5 DEF Decode
<1> QED BY <1>1, <1>2

Body(l, b, q) == IF l < 32 \/ l = DEL THEN <<QUOTE, Flip(l) + b>>
                 ELSE IF l = QUOTE \/ (q /\ l = QBIN) THEN <<QUOTE, l + b>>
                 ELSE <<l + b>>

\* Packet s begins with body, behind a prefix if k = 1.
InFront(s, q, k, body) ==
  /\ k = 1 => Prefixed(s, q)
  /\ \A i \in 1 .. Len(body) : At(s, k + i) = body[i]

\* ptchr undoes what gtchr does to a byte, whatever follows it in the packet and
\* whatever the two quote characters are: it takes exactly the characters gtchr
\* has put in, and writes the byte the line can carry.
THEOREM QuotingRoundTrip ==
  ASSUME NEW c \in Byte, NEW q \in BOOLEAN, NEW p \in BOOLEAN, NEW t \in Seq(Byte)
  PROVE  /\ Taken(Encode(c, q, p) \o t, q) = Len(Encode(c, q, p))
         /\ Decode(Encode(c, q, p) \o t, q) = Line(c, q, p)
<1>1. PICK l \in 0 .. 127 : l = Low(c) BY ByteParts
<1>2. PICK b \in {0, 128} : b = IF c > 127 /\ ~q /\ ~p THEN 128 ELSE 0 OBVIOUS
<1>3. PICK k \in {0, 1} : k = IF q /\ c > 127 THEN 1 ELSE 0 OBVIOUS
<1>4. PICK body : body = Body(l, b, q) OBVIOUS
<1>5. PICK e : e = Encode(c, q, p) OBVIOUS
<1>6. e = IF k = 1 THEN <<QBIN>> \o body ELSE body
  <2>1. Encode(c, q, p) = IF q /\ c > 127 THEN <<QBIN>> \o body ELSE body
    BY <1>1, <1>2, <1>4 DEF Encode, Control, Body
  <2> QED BY <1>3, <1>5, <2>1
<1>7. e \in Seq(Byte) BY <1>5, EncodeType
<1>8. body \in Seq(Byte)
  <2>1. l + b \in Byte BY DEF Byte
  <2>2. Flip(l) \in 0 .. 127 BY FlipType
  <2>3. Flip(l) + b \in Byte BY <2>2, EighthBit
  <2>4. QUOTE \in Byte BY FileAssumption DEF Printable, Byte
  <2> QED BY <1>4, <2>1, <2>3, <2>4 DEF Body
<1>9. QBIN \in Byte BY FileAssumption DEF Printable, Byte
<1>10. Len(e) = k + Len(body) /\ (\A i \in 1 .. Len(body) : e[k + i] = body[i])
  <2>1. CASE k = 0 BY <1>6, <1>8, <2>1
  <2>2. CASE k = 1 BY <1>6, <1>8, <1>9, <2>2
  <2> QED BY <2>1, <2>2
<1>13. PICK s : s = e \o t OBVIOUS
<1>11. \A i \in 1 .. Len(body) : At(s, k + i) = body[i]
  <2>1. SUFFICES ASSUME NEW i \in 1 .. Len(body) PROVE At(s, k + i) = body[i]
    OBVIOUS
  <2>2. k + i \in 1 .. Len(e) BY <1>8, <1>10
  <2>3. At(s, k + i) = e[k + i] BY <1>13, <1>7, <2>2, AtFront
  <2> QED BY <1>10, <2>3
<1>12. k = 1 => Prefixed(s, q)
  <2>1. SUFFICES ASSUME k = 1 PROVE Prefixed(s, q) OBVIOUS
  <2>2. e = <<QBIN>> \o body BY <1>6, <2>1
  <2>3. e[1] = QBIN /\ 1 \in 1 .. Len(e) BY <1>8, <1>9, <2>2
  <2> QED BY <1>13, <1>3, <1>7, <2>1, <2>3, AtFront DEF Prefixed
<1>14. InFront(s, q, k, body) BY <1>11, <1>12 DEF InFront
<1>16. /\ Taken(s, q) = k + Len(body)
       /\ Decode(s, q) = IF k = 1 /\ l + b < 128 THEN l + b + 128 ELSE l + b
  <2>1. l + b \in Byte BY DEF Byte
  <2>2. Flip(l) + b \in Byte
    <3>1. Flip(l) \in 0 .. 127 BY FlipType
    <3> QED BY <3>1, EighthBit
  <2>3. QUOTE \in 33 .. 126 /\ QBIN \in 33 .. 126 BY FileAssumption DEF Printable
  <2>4. CASE l < 32 \/ l = DEL
    <3>1. body = <<QUOTE, Flip(l) + b>> BY <1>4, <2>4 DEF Body
    <3>2. Len(body) = 2 /\ body[1] = QUOTE /\ body[2] = Flip(l) + b BY <3>1
    <3>3. At(s, k + 1) = QUOTE /\ At(s, k + 2) = Flip(l) + b BY <1>14, <3>2 DEF InFront
    <3>4. Unquote(Flip(l) + b, q) = l + b BY <2>4, ControlRead
    <3> QED BY <2>1, <2>2, <3>2, <3>3, <3>4, <1>14, QuotedRead DEF InFront
  <2>5. CASE ~(l < 32 \/ l = DEL) /\ (l = QUOTE \/ (q /\ l = QBIN))
    <3>1. body = <<QUOTE, l + b>> BY <1>4, <2>5 DEF Body
    <3>2. Len(body) = 2 /\ body[1] = QUOTE /\ body[2] = l + b BY <3>1
    <3>3. At(s, k + 1) = QUOTE /\ At(s, k + 2) = l + b BY <1>14, <3>2 DEF InFront
    <3>4. Unquote(l + b, q) = l + b BY <2>5, QuoteRead
    <3> QED BY <2>1, <3>2, <3>3, <3>4, <1>14, QuotedRead DEF InFront
  <2>6. CASE ~(l < 32 \/ l = DEL) /\ ~(l = QUOTE \/ (q /\ l = QBIN))
    <3>1. body = <<l + b>> BY <1>4, <2>6 DEF Body
    <3>2. Len(body) = 1 /\ body[1] = l + b BY <3>1
    <3>3. At(s, k + 1) = l + b BY <1>14, <3>2 DEF InFront
    <3>4. l + b # QUOTE /\ (q => l + b # QBIN) BY <2>3, <2>6
    <3> QED BY <2>1, <3>2, <3>3, <3>4, <1>14, PlainRead DEF InFront
  <2> QED BY <2>4, <2>5, <2>6
<1>15. Line(c, q, p) = IF k = 1 /\ l + b < 128 THEN l + b + 128 ELSE l + b
  <2>1. c \in 0 .. 255 BY DEF Byte
  <2>2. CASE c < 128
    <3>1. l = c /\ b = 0 /\ k = 0 BY <1>1, <1>2, <1>3, <2>1, <2>2, ByteParts
    <3> QED BY <2>1, <2>2, <3>1 DEF Line
  <2>3. CASE c > 127 /\ q
    <3>1. l = c - 128 /\ b = 0 /\ k = 1 BY <1>1, <1>2, <1>3, <2>1, <2>3, ByteParts
    <3> QED BY <2>1, <2>3, <3>1 DEF Line
  <2>4. CASE c > 127 /\ ~q /\ p
    <3>1. l = c - 128 /\ b = 0 /\ k = 0 BY <1>1, <1>2, <1>3, <2>1, <2>4, ByteParts
    <3> QED BY <2>1, <2>4, <3>1 DEF Line
  <2>5. CASE c > 127 /\ ~q /\ ~p
    <3>1. l = c - 128 /\ b = 128 /\ k = 0 BY <1>1, <1>2, <1>3, <2>1, <2>5, ByteParts
    <3> QED BY <2>1, <2>5, <3>1 DEF Line
  <2> QED BY <2>1, <2>2, <2>3, <2>4, <2>5
<1> QED BY <1>13, <1>5, <1>10, <1>15, <1>16

-----------------------------------------------------------------------------
(***************************************************************************)
(* Packets.                                                                *)
(***************************************************************************)

Record == [1 .. BUFSIZ -> Byte]

\* The choices made at the start.
ChoicesOK ==
  /\ file \in Seq(Record)
  /\ binary \in BOOLEAN /\ qbin \in BOOLEAN /\ parity \in BOOLEAN

\* What the loop of gtchr keeps: its budget and the packet add up, and the budget
\* is overdrawn by two at most, since a character is put in whole.
Budget ==
  pc = "fill" => /\ temp1 \in -2 .. SPSIZ - 5
                 /\ Len(data) + temp1 = SPSIZ - 5

\* Between its calls gtchr has as much of the record as chrcnt says, unless it is
\* to read one first.
Kept == pc \in {"enter", "fill", "put"} /\ ~filflg => Len(dma) = chrcnt

FileInv ==
  /\ TypeOK /\ ChoicesOK /\ Budget /\ Kept
  /\ pc = "fill" => ~filflg
  /\ Len(rdma) <= BUFSIZ
  /\ PacketFits /\ NoEmptyPacket

\* A record is a sequence of BUFSIZ bytes.
LEMMA RecordIsSeq ==
  ASSUME NEW r \in Record
  PROVE  /\ r \in Seq(Byte) /\ Len(r) = BUFSIZ /\ r # << >>
         /\ Head(r) \in Byte /\ Tail(r) \in Seq(Byte) /\ Len(Tail(r)) = BUFSIZ - 1
<1>1. r \in Seq(Byte) BY SeqDef, FileAssumption DEF Record
<1>2. Len(r) = BUFSIZ BY <1>1, LenProperties, FileAssumption DEF Record
<1>3. r # << >> BY <1>2, FileAssumption
<1> QED BY <1>1, <1>2, <1>3, HeadTailProperties

\* A sequence of BUFSIZ bytes is a record.
LEMMA SeqIsRecord ==
  ASSUME NEW r \in Seq(Byte), Len(r) = BUFSIZ
  PROVE  r \in Record
BY LenProperties DEF Record

\* Whatever ptchr takes from a packet, it makes a byte of it.
LEMMA DecodeType ==
  ASSUME NEW s \in Seq(Byte), NEW q \in BOOLEAN
  PROVE  Decode(s, q) \in Byte /\ Taken(s, q) \in 1 .. 3
<1>1. Taken(s, q) \in 1 .. 3 BY DEF Taken, Prefix
<1>2. PICK c : c = At(s, Taken(s, q)) OBVIOUS
<1>3. c \in Byte
  <2>1. PICK i \in 1 .. 3 : i = Taken(s, q) BY <1>1
  <2>2. At(s, i) \in Byte
    <3>1. CASE i <= Len(s) BY <3>1 DEF At
    <3>2. CASE ~(i <= Len(s)) BY <3>2 DEF At, Byte
    <3> QED BY <3>1, <3>2
  <2> QED BY <1>2, <2>1, <2>2
<1>4. Unquote(c, q) \in Byte
  <2>1. Low(c) \in 0 .. 127 /\ c - Low(c) \in {0, 128}
    <3>1. c \in 0 .. 255 BY <1>3 DEF Byte
    <3>2. CASE c < 128 BY <1>3, <3>1, <3>2, ByteParts
    <3>3. CASE c > 127 BY <1>3, <3>1, <3>3, ByteParts
    <3> QED BY <3>1, <3>2, <3>3
  <2>2. Flip(Low(c)) \in 0 .. 127 BY <2>1, FlipType
  <2>3. Flip(Low(c)) + (c - Low(c)) \in Byte BY <2>1, <2>2, EighthBit
  <2> QED BY <1>3, <2>3 DEF Unquote
<1>5. PICK v : v = IF Quoted(s, q) THEN Unquote(c, q) ELSE c OBVIOUS
<1>6. v \in Byte BY <1>3, <1>4, <1>5
<1>7. Decode(s, q) = IF Prefix(s, q) = 1 /\ v < 128 THEN v + 128 ELSE v
  BY <1>2, <1>5 DEF Decode
<1> QED BY <1>1, <1>6, <1>7 DEF Byte

\* The end of the file: what there is of a packet is not too long.
LEMMA GtceofKeeps ==
  ASSUME FileInv, pc = "fill", NEW s \in Seq(Byte), Len(s) + 3 <= SPSIZ,
         NEW e \in BOOLEAN, Gtceof(s, e)
  PROVE  /\ pc' \in {"put", "eof"} /\ temp1' = temp1 /\ temp1 \in Int
         /\ filflg' \in BOOLEAN /\ eoflag' \in BOOLEAN
         /\ pc' = "put" => filflg'
         /\ data' = s /\ rest' \in Seq(Byte)
         /\ rdma' = rdma /\ out' = out
         /\ PacketFits' /\ NoEmptyPacket'
BY DEF FileInv, TypeOK, Gtceof, Send, receiver, PacketFits, NoEmptyPacket

\* The byte the loop goes on to take, with a place left in the packet.
LEMMA TakeCharKeeps ==
  ASSUME FileInv, pc = "fill", temp1 > 0, NEW c \in Byte, TakeChar(c), UNCHANGED choices
  PROVE  /\ pc' \in {"fill", "put", "eof"} /\ temp1' \in Int
         /\ filflg' \in BOOLEAN /\ eoflag' \in BOOLEAN
         /\ pc' = "fill" => ~filflg'
         /\ pc' = "put" => filflg'
         /\ data' \in Seq(Byte) /\ rest' \in Seq(Byte)
         /\ rdma' = rdma /\ out' = out
         /\ Budget' /\ PacketFits' /\ NoEmptyPacket'
<1>1. Len(data) + temp1 = SPSIZ - 5 /\ temp1 \in 1 .. SPSIZ - 5
  BY FileAssumption DEF FileInv, Budget
<1>2. data \in Seq(Byte) /\ Len(data) \in Nat BY DEF FileInv, TypeOK
<1>3. qbin \in BOOLEAN /\ parity \in BOOLEAN /\ eoflag \in BOOLEAN
  BY DEF FileInv, ChoicesOK, TypeOK
<1>4. SPSIZ \in 6 .. 94 BY FileAssumption
<1>5. CASE IsCtrlZ(c) /\ ~binary
  <2>1. Dangling(c) \in Seq(Byte) /\ Len(Dangling(c)) \in 0 .. 1
    <3>1. QBIN \in Byte BY FileAssumption DEF Printable, Byte
    <3>2. CASE qbin /\ c > 127 BY <3>1, <3>2 DEF Dangling
    <3>3. CASE ~(qbin /\ c > 127) BY <3>3 DEF Dangling
    <3> QED BY <3>2, <3>3
  <2>2. PICK d \in Seq(Byte) : d = Dangling(c) BY <2>1
  <2>3. data \o d \in Seq(Byte) /\ Len(data \o d) + 3 <= SPSIZ
    <3>1. data \o d \in Seq(Byte) /\ Len(data \o d) = Len(data) + Len(d)
      BY <1>2, ConcatProperties
    <3>2. PICK m \in 0 .. 1 : m = Len(d) BY <2>1, <2>2
    <3>3. PICK n \in Nat : n = Len(data) BY <1>2
    <3>4. n + m + 3 <= SPSIZ BY <1>1, <1>4, <3>3
    <3> QED BY <3>1, <3>2, <3>3, <3>4
  <2>4. Gtceof(data \o d, eoflag) BY <1>5, <2>2 DEF TakeChar
  <2>5. pc' \in {"put", "eof"} BY <1>3, <2>3, <2>4, GtceofKeeps
  <2> QED BY <1>3, <2>3, <2>4, <2>5, GtceofKeeps DEF Budget
<1>6. CASE ~(IsCtrlZ(c) /\ ~binary)
  <2>1. PICK e : e = Encode(c, qbin, parity) OBVIOUS
  <2>2. e \in Seq(Byte) /\ Len(e) \in 1 .. 3
    BY <1>3, <2>1, EncodeLength, EncodeType
  <2>3. /\ data' = data \o e /\ temp1' = temp1 - Len(e)
        /\ pc' = pc /\ filflg' = filflg /\ eoflag' = eoflag
        /\ rest' = rest /\ rdma' = rdma /\ out' = out
    BY <1>6, <2>1 DEF TakeChar, receiver
  <2>4. data' \in Seq(Byte) /\ Len(data') = Len(data) + Len(e)
    BY <1>2, <2>2, <2>3
  <2>5. Budget' /\ PacketFits'
    <3>1. PICK m \in 1 .. 3 : m = Len(e) BY <2>2
    <3>2. temp1' = temp1 - m /\ Len(data') = Len(data) + m BY <2>3, <2>4, <3>1
    <3> QED BY <1>1, <1>2, <1>4, <3>2 DEF Budget, PacketFits
  <2>6. NoEmptyPacket' BY <2>3 DEF NoEmptyPacket
  <2> QED BY <1>1, <2>2, <2>3, <2>4, <2>5, <2>6 DEF FileInv, TypeOK
<1> QED BY <1>5, <1>6

\* gtchr begins a packet with the whole budget.
LEMMA BeginKeeps ==
  ASSUME Begin
  PROVE  /\ pc' = "fill" /\ data' \in Seq(Byte) /\ temp1' \in Int
         /\ Budget' /\ PacketFits' /\ NoEmptyPacket'
BY FileAssumption DEF Begin, Budget, PacketFits, NoEmptyPacket

\* inbuf reads a record of bytes.
LEMMA ReadRecord ==
  ASSUME ChoicesOK, rec \in 0 .. Len(file), More
  PROVE  rec + 1 \in 1 .. Len(file) /\ file[rec + 1] \in Record
BY DEF ChoicesOK, More

\* The initial state satisfies the invariant.
LEMMA FileInvInit == Init => FileInv
<1> SUFFICES ASSUME Init PROVE FileInv OBVIOUS
<1>1. file \in Seq(Record)
  <2>1. PICK n \in 0 .. MaxRecords : file \in [1 .. n -> [1 .. BUFSIZ -> Chars]]
    BY DEF Init, Files
  <2>2. [1 .. BUFSIZ -> Chars] \subseteq Record BY FileAssumption DEF Record
  <2>3. file \in [1 .. n -> Record] BY <2>1, <2>2
  <2> QED BY <2>1, <2>3, SeqDef, FileAssumption
<1>2. ChoicesOK BY <1>1 DEF Init, ChoicesOK
<1>3. TypeOK
  <2>1. Len(file) \in Nat BY <1>1
  <2>2. rec \in 0 .. Len(file) /\ chrcnt \in 0 .. BUFSIZ BY <2>1, FileAssumption DEF Init
  <2>3. filflg \in BOOLEAN /\ eoflag \in BOOLEAN BY Zenon DEF Init
  <2>4. dma \in Seq(Byte) /\ data \in Seq(Byte) /\ rest \in Seq(Byte) /\ rdma \in Seq(Byte)
    BY EmptySeq DEF Init
  <2>5. out \in Seq([1 .. BUFSIZ -> Byte]) BY EmptySeq DEF Init
  <2>6. pc = "enter" BY DEF Init
  <2>7. temp1 \in Int BY DEF Init
  <2> QED BY <2>2, <2>3, <2>4, <2>5, <2>6, <2>7 DEF TypeOK
<1> QED BY <1>2, <1>3, FileAssumption
        DEF Init, FileInv, Budget, Kept, PacketFits, NoEmptyPacket

\* Every step keeps it.
LEMMA FileInvNext == FileInv /\ [Next]_vars => FileInv'
<1> SUFFICES ASSUME FileInv, [Next]_vars PROVE FileInv' OBVIOUS
<1>0. BUFSIZ \in Nat /\ BUFSIZ > 1 BY FileAssumption
<1>1. CASE UNCHANGED vars
  BY <1>1 DEF FileInv, TypeOK, ChoicesOK, Budget, Kept, PacketFits, NoEmptyPacket,
              vars, choices, sender, receiver
<1>2. CASE Enter
  <2>1. Begin BY <1>2 DEF Enter
  <2> QED BY <1>2, <2>1, BeginKeeps
          DEF Enter, FileInv, TypeOK, ChoicesOK, Kept, choices, receiver
<1>3. CASE EnterRead
  <2>1. Begin BY <1>3 DEF EnterRead
  <2>2. rec + 1 \in 1 .. Len(file) /\ file[rec + 1] \in Record
    BY <1>3, ReadRecord DEF EnterRead, FileInv, TypeOK
  <2>3. dma' \in Seq(Byte) /\ Len(dma') = BUFSIZ
    BY <1>3, <2>2, RecordIsSeq DEF EnterRead
  <2>4. rec' \in 0 .. Len(file') /\ chrcnt' \in 0 .. BUFSIZ /\ Len(dma') = chrcnt'
    <3>1. Len(file) \in Nat BY DEF FileInv, ChoicesOK
    <3>2. rec' = rec + 1 /\ file' = file /\ chrcnt' = BUFSIZ
      BY <1>3 DEF EnterRead, choices
    <3> QED BY <1>0, <2>2, <2>3, <3>1, <3>2
  <2>5. TypeOK'
    BY <1>3, <2>1, <2>3, <2>4, BeginKeeps
    DEF EnterRead, FileInv, TypeOK, choices, receiver
  <2>6. ChoicesOK' BY <1>3 DEF EnterRead, FileInv, ChoicesOK, choices
  <2>7. Kept' BY <2>4 DEF Kept
  <2>8. filflg' = FALSE /\ rdma' = rdma BY <1>3 DEF EnterRead, receiver
  <2> QED BY <2>1, <2>5, <2>6, <2>7, <2>8, BeginKeeps DEF FileInv
<1>4. CASE EnterEof
  <2>1. chrcnt' \in 0 .. BUFSIZ /\ filflg' \in BOOLEAN
    <3>1. CASE eoflag BY <1>4, <3>1 DEF EnterEof, FileInv, TypeOK
    <3>2. CASE ~eoflag
      <4>1. filflg' = FALSE /\ chrcnt' = 0 BY <1>4, <3>2 DEF EnterEof
      <4>2. filflg' \in BOOLEAN BY <4>1, Zenon
      <4>3. chrcnt' \in 0 .. BUFSIZ BY <1>0, <4>1
      <4> QED BY <4>2, <4>3
    <3> QED BY <3>1, <3>2
  <2>2. /\ pc' = "eof" /\ eoflag' = TRUE
        /\ UNCHANGED <<choices, rec, dma, data, temp1, receiver>>
    BY <1>4 DEF EnterEof
  <2> QED BY <2>1, <2>2 DEF FileInv, TypeOK, ChoicesOK, Budget, Kept, PacketFits,
                            NoEmptyPacket, choices, receiver
<1>5. CASE FillFull
  <2>1. data # << >>
    BY <1>5, FileAssumption DEF FillFull, FileInv, Budget
  <2> QED BY <1>5, <2>1 DEF FillFull, Send, FileInv, TypeOK, ChoicesOK, Budget, Kept,
                            PacketFits, NoEmptyPacket, choices, sender
<1>6. CASE FillChar
  <2>1. /\ dma \in Seq(Byte) /\ Len(dma) = chrcnt /\ chrcnt \in 1 .. BUFSIZ
        /\ pc = "fill" /\ temp1 > 0
    BY <1>0, <1>6 DEF FillChar, FileInv, TypeOK
  <2>2. Head(dma) \in Byte /\ Tail(dma) \in Seq(Byte) /\ Len(Tail(dma)) = chrcnt - 1
    <3>1. dma # << >> BY <2>1
    <3> QED BY <2>1, <3>1, HeadTailProperties
  <2>3. TakeChar(Head(dma)) /\ UNCHANGED choices BY <1>6 DEF FillChar
  <2>4. dma' \in Seq(Byte) /\ Len(dma') = chrcnt' /\ chrcnt' \in 0 .. BUFSIZ
    BY <1>0, <1>6, <2>1, <2>2 DEF FillChar
  <2>5. rec' = rec BY <1>6 DEF FillChar
  <2> QED BY <2>1, <2>2, <2>3, <2>4, <2>5, TakeCharKeeps
          DEF FileInv, TypeOK, ChoicesOK, Kept, choices
<1>7. CASE FillRead
  <2>1. rec + 1 \in 1 .. Len(file) /\ file[rec + 1] \in Record
    BY <1>7, ReadRecord DEF FillRead, FileInv, TypeOK
  <2>2. /\ Head(file[rec + 1]) \in Byte /\ Tail(file[rec + 1]) \in Seq(Byte)
        /\ Len(Tail(file[rec + 1])) = BUFSIZ - 1
    BY <2>1, RecordIsSeq
  <2>3. /\ TakeChar(Head(file[rec + 1])) /\ UNCHANGED choices
        /\ pc = "fill" /\ temp1 > 0
    BY <1>7 DEF FillRead
  <2>4. dma' \in Seq(Byte) /\ Len(dma') = chrcnt' /\ chrcnt' \in 0 .. BUFSIZ
    BY <1>0, <1>7, <2>2 DEF FillRead
  <2>5. rec' = rec + 1 BY <1>7 DEF FillRead
  <2> QED BY <2>1, <2>2, <2>3, <2>4, <2>5, TakeCharKeeps
          DEF FileInv, TypeOK, ChoicesOK, Kept, choices
<1>8. CASE FillEof
  <2>1. /\ Gtceof(data, TRUE) /\ pc = "fill" /\ data \in Seq(Byte)
        /\ Len(data) + 3 <= SPSIZ
        /\ UNCHANGED <<choices, rec, dma, chrcnt>>
    BY <1>8 DEF FillEof, FileInv, TypeOK, PacketFits
  <2>2. pc' \in {"put", "eof"} BY <2>1, GtceofKeeps
  <2> QED BY <2>1, <2>2, GtceofKeeps DEF FileInv, TypeOK, ChoicesOK, Budget, Kept, choices
<1>9. CASE PutDone
  BY <1>9 DEF PutDone, FileInv, TypeOK, ChoicesOK, Budget, Kept, PacketFits, NoEmptyPacket,
              choices, sender, receiver
<1>10. CASE PutChar
  <2>1. Decode(rest, qbin) \in Byte /\ Taken(rest, qbin) \in 1 .. 3
    BY DecodeType DEF FileInv, TypeOK, ChoicesOK
  <2>2. rest' \in Seq(Byte)
    BY <1>10, <2>1 DEF PutChar, FileInv, TypeOK
  <2>3. rdma' \in Seq(Byte) /\ Len(rdma') <= BUFSIZ /\ out' \in Seq(Record)
    <3>1. /\ Put(Decode(rest, qbin)) /\ rdma \in Seq(Byte)
          /\ out \in Seq(Record)
      BY <1>10 DEF PutChar, FileInv, TypeOK, Record
    <3>2. PICK c \in Byte : c = Decode(rest, qbin) BY <2>1
    <3>3. CASE Len(rdma) < BUFSIZ /\ rdma' = Append(rdma, c) /\ UNCHANGED out
      BY <1>0, <3>1, <3>3, AppendProperties
    <3>4. CASE Len(rdma) = BUFSIZ /\ out' = Append(out, rdma) /\ rdma' = <<c>>
      BY <1>0, <3>1, <3>4, SeqIsRecord, AppendProperties
    <3> QED BY <3>1, <3>2, <3>3, <3>4 DEF Put
  <2> QED BY <1>10, <2>2, <2>3
          DEF PutChar, FileInv, TypeOK, ChoicesOK, Budget, Kept, PacketFits, NoEmptyPacket,
              Record, choices, sender
<1>11. CASE DiskFull
  BY <1>11 DEF DiskFull, FileInv, TypeOK, ChoicesOK, Budget, Kept, PacketFits, NoEmptyPacket,
               choices, sender, receiver
<1>12. CASE PutEof
  <2>1. rdma \in Seq(Byte) /\ Len(rdma) \in 0 .. BUFSIZ /\ out \in Seq(Record)
    BY <1>0 DEF FileInv, TypeOK, Record
  <2>2. Padded(rdma) \in Record
    <3>1. PICK n \in 0 .. BUFSIZ : n = BUFSIZ - Len(rdma) BY <1>0, <2>1
    <3>2. PICK f : f = [i \in 1 .. n |-> CtrlZ] OBVIOUS
    <3>3. f \in [1 .. n -> Byte] BY <3>2 DEF CtrlZ, Byte
    <3>4. f \in Seq(Byte) BY <3>3, <1>0, SeqDef
    <3>5. Len(f) = n BY <3>3, <3>4, LenProperties
    <3>6. rdma \o f \in Seq(Byte) /\ Len(rdma \o f) = BUFSIZ
      BY <1>0, <2>1, <3>1, <3>4, <3>5, ConcatProperties
    <3> QED BY <3>1, <3>2, <3>6, SeqIsRecord DEF Padded
  <2>3. out' \in Seq(Record) /\ rdma' = << >>
    BY <1>12, <2>1, <2>2, AppendProperties DEF PutEof
  <2> QED BY <1>0, <1>12, <2>3
          DEF PutEof, FileInv, TypeOK, ChoicesOK, Budget, Kept, PacketFits, NoEmptyPacket,
              Record, choices, sender
<1> QED BY <1>1, <1>2, <1>3, <1>4, <1>5, <1>6, <1>7, <1>8, <1>9, <1>10, <1>11, <1>12
        DEF Next

\* The invariant holds throughout.
LEMMA FileInvariant == Spec => []FileInv
BY FileInvInit, FileInvNext, PTL DEF Spec

\* The variables of gtchr, ptchr and outbuf keep their types, for every record
\* size, packet size and pair of quote characters.
THEOREM FileTypes == Spec => []TypeOK
BY FileInvariant, PTL DEF FileInv

\* No data packet is longer than the other end has asked for, and none is empty,
\* whatever the file, the file type, the parity and the quoting.
THEOREM PacketsFit == Spec => [](PacketFits /\ NoEmptyPacket)
BY FileInvariant, PTL DEF FileInv

-----------------------------------------------------------------------------
(***************************************************************************)
(* Records one behind the other.                                           *)
(***************************************************************************)

\* A set of numbers that is not empty has a least one.
LEMMA Least ==
  ASSUME NEW S, S \subseteq Nat, S # {}
  PROVE  \E x \in S : \A y \in S : x <= y
<1>1. \E x \in S : \A y \in S : ~(<<y, x>> \in OpToRel(<, Nat))
  BY NatLessThanWellFounded, WFMin
<1>2. PICK x \in S : \A y \in S : ~(<<y, x>> \in OpToRel(<, Nat))
  BY <1>1
<1>3. ASSUME NEW y \in S PROVE x <= y
  <2>1. x \in Nat /\ y \in Nat OBVIOUS
  <2>2. ~(y < x) BY <1>2, <2>1 DEF OpToRel
  <2> QED BY <2>1, <2>2
<1> QED BY <1>3

\* f puts the first m records of s one behind the other.
Joins(s, f, m) ==
  /\ f \in [1 .. m -> Seq(Byte)]
  /\ \A n \in 1 .. m : f[n] = IF n = 1 THEN s[1] ELSE f[n - 1] \o s[n]

LEMMA JoinsExist ==
  ASSUME NEW s \in Seq(Record)
  PROVE  \E f : Joins(s, f, Len(s))
<1>0. Len(s) \in Nat /\ \A n \in 1 .. Len(s) : s[n] \in Seq(Byte)
  <2>1. Len(s) \in Nat /\ \A n \in 1 .. Len(s) : s[n] \in Record
    OBVIOUS
  <2> QED BY <2>1, RecordIsSeq
<1> DEFINE Bad == {m \in Nat : m <= Len(s) /\ ~\E f : Joins(s, f, m)}
<1>1. Bad = {}
  <2> SUFFICES ASSUME Bad # {} PROVE FALSE
    OBVIOUS
  <2>1. PICK m \in Bad : \A x \in Bad : m <= x
    <3>1. Bad \subseteq Nat
      OBVIOUS
    <3> HIDE DEF Bad
    <3> QED BY <3>1, Least
  <2>2. CASE m = 0
    <3>1. [n \in 1 .. 0 |-> << >>] \in [1 .. 0 -> Seq(Byte)]
      OBVIOUS
    <3>2. Joins(s, [n \in 1 .. 0 |-> << >>], 0)
      BY <3>1 DEF Joins
    <3> QED BY <2>1, <2>2, <3>2
  <2>3. CASE m # 0
    <3>1. m \in Nat /\ m - 1 \in Nat /\ ~(m <= m - 1) /\ m - 1 <= Len(s) /\ m \in 1 .. Len(s)
      BY <1>0, <2>1, <2>3
    <3>2. m - 1 \notin Bad
      BY <2>1, <3>1
    <3>3. PICK f : Joins(s, f, m - 1)
      BY <3>1, <3>2
    <3> DEFINE e == IF m = 1 THEN s[1] ELSE f[m - 1] \o s[m]
               g == [n \in 1 .. m |-> IF n = m THEN e ELSE f[n]]
    <3>4. e \in Seq(Byte)
      <4>1. CASE m = 1
        BY <1>0, <3>1, <4>1
      <4>2. CASE m # 1
        <5>1. m - 1 \in 1 .. m - 1
          BY <3>1, <4>2
        <5>2. f[m - 1] \in Seq(Byte) /\ s[m] \in Seq(Byte)
          BY <1>0, <3>1, <3>3, <5>1 DEF Joins
        <5> QED BY <4>2, <5>2, ConcatProperties
      <4> QED BY <4>1, <4>2
    <3> HIDE DEF e
    <3>5. g \in [1 .. m -> Seq(Byte)]
      <4>1. \A n \in 1 .. m : n # m => n \in 1 .. m - 1
        BY <3>1
      <4> QED BY <3>3, <3>4, <4>1 DEF Joins
    <3>6. \A n \in 1 .. m : g[n] = IF n = 1 THEN s[1] ELSE g[n - 1] \o s[n]
      <4> TAKE n \in 1 .. m
      <4>1. CASE n = m
        <5>1. g[n] = e
          BY <4>1
        <5>2. n # 1 => n - 1 \in 1 .. m /\ n - 1 # m
          BY <3>1, <4>1
        <5>3. n # 1 => g[n - 1] = f[n - 1]
          BY <5>2
        <5> HIDE DEF g
        <5> QED BY <4>1, <5>1, <5>3 DEF e
      <4>2. CASE n # m
        <5>1. n \in 1 .. m - 1 /\ (n # 1 => n - 1 \in 1 .. m - 1 /\ n - 1 \in 1 .. m /\ n - 1 # m)
          BY <3>1, <4>2
        <5>2. f[n] = IF n = 1 THEN s[1] ELSE f[n - 1] \o s[n]
          BY <3>3, <5>1 DEF Joins
        <5>3. g[n] = f[n] /\ (n # 1 => g[n - 1] = f[n - 1])
          BY <4>2, <5>1
        <5> HIDE DEF g
        <5> QED BY <5>2, <5>3
      <4> QED BY <4>1, <4>2
    <3>7. Joins(s, g, m)
      <4> HIDE DEF g
      <4> QED BY <3>5, <3>6 DEF Joins
    <3> QED BY <2>1, <3>7
  <2> QED BY <2>2, <2>3
<1>2. Len(s) \notin Bad
  BY <1>1
<1> QED BY <1>0, <1>2

\* FlattenSeq gives the last of these.
LEMMA JoinsFlatten ==
  ASSUME NEW s \in Seq(Record), Len(s) # 0
  PROVE  \E f : Joins(s, f, Len(s)) /\ FlattenSeq(s) = f[Len(s)]
<1>0. Len(s) \in Nat
  OBVIOUS
<1> DEFINE Step(f) == [n \in 1 .. Len(s) |-> IF n = 1 THEN s[n] ELSE f[n - 1] \o s[n]]
           flatten == CHOOSE f : f = Step(f)
<1>1. PICK f : Joins(s, f, Len(s))
  BY JoinsExist
<1>2. f = Step(f)
  <2>1. \A n \in 1 .. Len(s) : f[n] = Step(f)[n]
    BY <1>1 DEF Joins
  <2>2. f = [n \in 1 .. Len(s) |-> f[n]]
    BY <1>1 DEF Joins
  <2> QED BY <2>1, <2>2
<1>3. flatten = Step(flatten)
  <2> HIDE DEF Step
  <2> QED BY <1>2
<1>4. FlattenSeq(s) = flatten[Len(s)]
  BY Zenon DEF FlattenSeq
<1>5. flatten = f
  <2> HIDE DEF flatten
  <2> DEFINE Bad == {n \in Nat : n \in 1 .. Len(s) /\ flatten[n] # f[n]}
  <2>1. Bad = {}
    <3> SUFFICES ASSUME Bad # {} PROVE FALSE
      OBVIOUS
    <3>1. PICK m \in Bad : \A x \in Bad : m <= x
      <4>1. Bad \subseteq Nat
        OBVIOUS
      <4> HIDE DEF Bad
      <4> QED BY <4>1, Least
    <3>2. m \in 1 .. Len(s) /\ flatten[m] # f[m]
      BY <3>1
    <3>3. flatten[m] = Step(flatten)[m] /\ f[m] = Step(f)[m]
      BY <1>2, <1>3
    <3>4. CASE m = 1
      BY <3>2, <3>3, <3>4
    <3>5. CASE m # 1
      <4>1. m - 1 \in 1 .. Len(s) /\ m - 1 \in Nat /\ ~(m <= m - 1)
        BY <1>0, <3>2, <3>5
      <4>2. m - 1 \notin Bad
        BY <3>1, <4>1
      <4>3. flatten[m - 1] = f[m - 1]
        BY <4>1, <4>2
      <4> QED BY <3>2, <3>3, <3>5, <4>3
    <3> QED BY <3>4, <3>5
  <2>2. \A n \in 1 .. Len(s) : flatten[n] = f[n]
    BY <2>1
  <2>3. flatten = [n \in 1 .. Len(s) |-> flatten[n]]
    BY <1>3
  <2>4. f = [n \in 1 .. Len(s) |-> f[n]]
    BY <1>1 DEF Joins
  <2> HIDE DEF Step
  <2> QED BY <2>2, <2>3, <2>4
<1> QED BY <1>1, <1>4, <1>5

\* Each record has its place among them.
LEMMA Rows ==
  ASSUME NEW n \in Nat
  PROVE  /\ n * BUFSIZ \in Nat /\ (n + 1) * BUFSIZ = (n * BUFSIZ) + BUFSIZ
         /\ 0 * BUFSIZ = 0 /\ 1 * BUFSIZ = BUFSIZ
<1>1. BUFSIZ \in Nat
  BY FileAssumption
<1> QED BY <1>1

LEMMA RowsUp ==
  ASSUME NEW m \in Nat, NEW n \in Nat, m <= n
  PROVE  m * BUFSIZ <= n * BUFSIZ
<1>1. BUFSIZ \in Nat
  BY FileAssumption
<1>2. PICK d \in Nat : n = m + d
  BY n - m \in Nat
<1>3. n * BUFSIZ = (m * BUFSIZ) + (d * BUFSIZ) /\ d * BUFSIZ \in Nat /\ m * BUFSIZ \in Nat
  BY <1>1, <1>2
<1> QED BY <1>3

\* The first n records fill n times BUFSIZ places, byte j of record r + 1 the
\* j-th after those of r records.
Laid(s, t, n) ==
  /\ t \in Seq(Byte) /\ Len(t) = n * BUFSIZ
  /\ \A r \in 0 .. n - 1, j \in 1 .. BUFSIZ : t[(r * BUFSIZ) + j] = s[r + 1][j]

LEMMA LaidMore ==
  ASSUME NEW s, NEW t, NEW n \in Nat, Laid(s, t, n), s[n + 1] \in Record
  PROVE  Laid(s, t \o s[n + 1], n + 1)
<1> DEFINE u == s[n + 1]
           v == t \o u
<1>1. t \in Seq(Byte) /\ Len(t) = n * BUFSIZ /\ n * BUFSIZ \in Nat
  BY Rows DEF Laid
<1>2. u \in Seq(Byte) /\ Len(u) = BUFSIZ /\ BUFSIZ \in Nat
  BY RecordIsSeq, FileAssumption
<1>3. s[n + 1] = u
  OBVIOUS
<1> HIDE DEF u
<1>4. /\ v \in Seq(Byte) /\ Len(v) = Len(t) + Len(u)
      /\ \A i \in 1 .. Len(t) + Len(u) : v[i] = IF i <= Len(t) THEN t[i] ELSE u[i - Len(t)]
  BY <1>1, <1>2, ConcatProperties
<1>5. (n + 1) * BUFSIZ = (n * BUFSIZ) + BUFSIZ
  BY Rows
<1> HIDE DEF v
<1>6. ASSUME NEW r \in 0 .. n, NEW j \in 1 .. BUFSIZ PROVE v[(r * BUFSIZ) + j] = s[r + 1][j]
  <2>1. r \in Nat /\ r * BUFSIZ \in Nat
    <3>1. r \in Nat
      OBVIOUS
    <3> QED BY <3>1, Rows
  <2>2. CASE r = n
    <3> DEFINE a == n * BUFSIZ
    <3>1. a + j \in 1 .. a + BUFSIZ /\ ~(a + j <= a) /\ (a + j) - a = j
      BY <1>1, <1>2
    <3> QED BY <1>1, <1>2, <1>3, <1>4, <2>2, <3>1
  <2>3. CASE r # n
    <3>1. r \in 0 .. n - 1 /\ r + 1 \in Nat /\ r + 1 <= n
      BY <2>1, <2>3
    <3>2. (r * BUFSIZ) + BUFSIZ <= n * BUFSIZ
      BY <2>1, <3>1, Rows, RowsUp
    <3>3. (r * BUFSIZ) + j \in 1 .. Len(t)
      BY <1>1, <1>2, <2>1, <3>2
    <3>4. (r * BUFSIZ) + j \in 1 .. Len(t) + Len(u) /\ (r * BUFSIZ) + j <= Len(t)
      BY <1>1, <1>2, <3>3
    <3>5. v[(r * BUFSIZ) + j] = t[(r * BUFSIZ) + j]
      BY <1>4, <3>4
    <3> QED BY <3>1, <3>5 DEF Laid
  <2> QED BY <2>2, <2>3
<1>7. \A r \in 0 .. (n + 1) - 1 : r \in 0 .. n
  OBVIOUS
<1> QED BY <1>1, <1>2, <1>4, <1>5, <1>6, <1>7 DEF Laid, v, u

LEMMA JoinsLaid ==
  ASSUME NEW s \in Seq(Record), NEW f, Joins(s, f, Len(s)), NEW n \in 1 .. Len(s)
  PROVE  Laid(s, f[n], n)
<1>0. Len(s) \in Nat /\ \A m \in 1 .. Len(s) : s[m] \in Record
  OBVIOUS
<1> DEFINE Bad == {m \in Nat : m \in 1 .. Len(s) /\ ~Laid(s, f[m], m)}
<1>1. Bad = {}
  <2> SUFFICES ASSUME Bad # {} PROVE FALSE
    OBVIOUS
  <2>1. PICK m \in Bad : \A x \in Bad : m <= x
    <3>1. Bad \subseteq Nat
      OBVIOUS
    <3> HIDE DEF Bad
    <3> QED BY <3>1, Least
  <2>2. m \in 1 .. Len(s) /\ ~Laid(s, f[m], m) /\ m \in Nat
    BY <2>1
  <2>3. f[m] = IF m = 1 THEN s[1] ELSE f[m - 1] \o s[m]
    BY <2>2 DEF Joins
  <2>4. CASE m = 1
    <3>1. f[1] = s[1] /\ s[1] \in Record
      BY <1>0, <2>2, <2>3, <2>4
    <3>2. s[1] \in Seq(Byte) /\ Len(s[1]) = BUFSIZ
      BY <3>1, RecordIsSeq
    <3>3. 1 * BUFSIZ = BUFSIZ /\ 0 * BUFSIZ = 0
      BY Rows
    <3>4. ASSUME NEW r \in 0 .. 1 - 1, NEW j \in 1 .. BUFSIZ
          PROVE  f[1][(r * BUFSIZ) + j] = s[r + 1][j]
      <4>1. r = 0 /\ (r * BUFSIZ) + j = j
        BY <3>3
      <4> QED BY <3>1, <4>1
    <3>5. Laid(s, f[1], 1)
      BY <3>1, <3>2, <3>3, <3>4 DEF Laid
    <3> QED BY <2>2, <2>4, <3>5
  <2>5. CASE m # 1
    <3>1. m - 1 \in Nat /\ m - 1 \in 1 .. Len(s) /\ ~(m <= m - 1) /\ (m - 1) + 1 = m
      BY <1>0, <2>2, <2>5
    <3>2. Laid(s, f[m - 1], m - 1)
      BY <2>1, <3>1
    <3>3. s[m] \in Record
      BY <1>0, <2>2
    <3>4. Laid(s, f[m - 1] \o s[m], m)
      BY <3>1, <3>2, <3>3, LaidMore
    <3> QED BY <2>2, <2>3, <2>5, <3>4
  <2> QED BY <2>4, <2>5
<1>2. n \in Nat
  OBVIOUS
<1> QED BY <1>1, <1>2

LEMMA FlattenLaid ==
  ASSUME NEW s \in Seq(Record)
  PROVE  Laid(s, FlattenSeq(s), Len(s))
<1>0. Len(s) \in Nat
  OBVIOUS
<1>1. CASE Len(s) = 0
  <2>1. FlattenSeq(s) = << >>
    <3>1. s = << >>
      BY <1>1
    <3> QED BY <1>1, <3>1 DEF FlattenSeq
  <2>2. 0 * BUFSIZ = 0 /\ << >> \in Seq(Byte) /\ Len(<< >>) = 0
    BY Rows
  <2>4. 0 .. 0 - 1 = {}
    OBVIOUS
  <2> QED BY <1>1, <2>1, <2>2, <2>4 DEF Laid
<1>2. CASE Len(s) # 0
  <2>1. PICK f : Joins(s, f, Len(s)) /\ FlattenSeq(s) = f[Len(s)]
    BY <1>2, JoinsFlatten
  <2>2. Len(s) \in 1 .. Len(s)
    BY <1>0, <1>2
  <2> QED BY <2>1, <2>2, JoinsLaid
<1> QED BY <1>1, <1>2

\* One record more.
LEMMA FlattenAppend ==
  ASSUME NEW s \in Seq(Record), NEW r \in Record
  PROVE  FlattenSeq(Append(s, r)) = FlattenSeq(s) \o r
<1> DEFINE t == Append(s, r)
<1>1. /\ t \in Seq(Record) /\ Len(t) = Len(s) + 1 /\ Len(s) \in Nat
      /\ \A i \in 1 .. Len(s) : t[i] = s[i]
      /\ t[Len(s) + 1] = r
  BY AppendProperties
<1> HIDE DEF t
<1>2. PICK g : Joins(t, g, Len(t)) /\ FlattenSeq(t) = g[Len(t)]
  BY <1>1, JoinsFlatten
<1>3. r \in Seq(Byte)
  BY RecordIsSeq
<1>4. CASE Len(s) = 0
  <2>1. s = << >> /\ Len(t) = 1 /\ t[1] = r
    BY <1>1, <1>4
  <2>2. FlattenSeq(s) = << >>
    BY <1>4, <2>1 DEF FlattenSeq
  <2>3. 1 \in 1 .. Len(t)
    BY <2>1
  <2>4. g[1] = t[1]
    BY <1>2, <2>3 DEF Joins
  <2> QED BY <1>2, <1>3, <2>1, <2>2, <2>4, ConcatEmptySeq DEF t
<1>5. CASE Len(s) # 0
  <2>1. PICK f : Joins(s, f, Len(s)) /\ FlattenSeq(s) = f[Len(s)]
    BY <1>5, JoinsFlatten
  <2> DEFINE Bad == {n \in Nat : n \in 1 .. Len(s) /\ g[n] # f[n]}
  <2>2. Bad = {}
    <3> SUFFICES ASSUME Bad # {} PROVE FALSE
      OBVIOUS
    <3>1. PICK m \in Bad : \A x \in Bad : m <= x
      <4>1. Bad \subseteq Nat
        OBVIOUS
      <4> HIDE DEF Bad
      <4> QED BY <4>1, Least
    <3>2. m \in 1 .. Len(s) /\ m \in 1 .. Len(t) /\ g[m] # f[m]
      BY <1>1, <3>1
    <3>3. /\ g[m] = IF m = 1 THEN t[1] ELSE g[m - 1] \o t[m]
          /\ f[m] = IF m = 1 THEN s[1] ELSE f[m - 1] \o s[m]
      BY <1>2, <2>1, <3>2 DEF Joins
    <3>4. t[m] = s[m]
      BY <1>1, <3>2
    <3>5. CASE m = 1
      BY <3>2, <3>3, <3>4, <3>5
    <3>6. CASE m # 1
      <4>1. m - 1 \in 1 .. Len(s) /\ m - 1 \in Nat /\ ~(m <= m - 1)
        BY <1>1, <3>2, <3>6
      <4>2. g[m - 1] = f[m - 1]
        BY <3>1, <4>1
      <4> QED BY <3>2, <3>3, <3>4, <3>6, <4>2
    <3> QED BY <3>5, <3>6
  <2>3. Len(s) \in 1 .. Len(s) /\ Len(s) \in Nat /\ Len(t) \in 1 .. Len(t) /\ Len(t) # 1 /\ Len(t) - 1 = Len(s)
    BY <1>1, <1>5
  <2>4. g[Len(s)] = f[Len(s)]
    BY <2>2, <2>3
  <2>5. g[Len(t)] = g[Len(s)] \o t[Len(t)]
    BY <1>2, <2>3 DEF Joins
  <2>6. t[Len(t)] = r
    BY <1>1
  <2> QED BY <1>2, <2>1, <2>4, <2>5, <2>6 DEF t
<1> QED BY <1>4, <1>5

-----------------------------------------------------------------------------
(***************************************************************************)
(* What a packet stands for.                                               *)
(***************************************************************************)

\* Packet p holds, with quoting q and parity b, the bytes of s behind the w-th up
\* to the n-th: u[i] is what is left of it behind byte i.
Packs(s, q, b, w, n, p, u) ==
  /\ u \in [w .. n -> Seq(Byte)]
  /\ u[w] = p /\ u[n] = << >>
  /\ \A i \in w + 1 .. n : u[i - 1] = Encode(s[i], q, b) \o u[i]
Packed(s, q, b, w, n, p) == \E u : Packs(s, q, b, w, n, p, u)

LEMMA PackedNone ==
  ASSUME NEW s, NEW q, NEW b, NEW w \in Nat
  PROVE  Packed(s, q, b, w, w, << >>)
<1> DEFINE u == [i \in w .. w |-> << >>]
<1>1. u \in [w .. w -> Seq(Byte)] /\ u[w] = << >> /\ w + 1 .. w = {}
  BY EmptySeq
<1> HIDE DEF u
<1>2. Packs(s, q, b, w, w, << >>, u)
  BY <1>1 DEF Packs
<1> QED BY <1>2 DEF Packed

\* gtchr puts one more byte in.
LEMMA PackedMore ==
  ASSUME NEW s \in Seq(Byte), NEW q \in BOOLEAN, NEW b \in BOOLEAN, NEW w \in Nat, NEW n \in Nat,
         w <= n, n < Len(s), NEW p, Packed(s, q, b, w, n, p)
  PROVE  Packed(s, q, b, w, n + 1, p \o Encode(s[n + 1], q, b))
<1> DEFINE e == Encode(s[n + 1], q, b)
<1>1. PICK u : Packs(s, q, b, w, n, p, u)
  BY DEF Packed
<1>2. e \in Seq(Byte)
  <2>1. s[n + 1] \in Byte
    OBVIOUS
  <2> QED BY <2>1, EncodeType
<1>0. e = Encode(s[n + 1], q, b)
  OBVIOUS
<1> HIDE DEF e
<1> DEFINE v == [i \in w .. n + 1 |-> IF i = n + 1 THEN << >> ELSE u[i] \o e]
<1>3. \A i \in w .. n : u[i] \in Seq(Byte)
  BY <1>1 DEF Packs
<1>4. \A i \in w .. n : i \in w .. n + 1 /\ i # n + 1
  OBVIOUS
<1>5. \A i \in w .. n : v[i] = u[i] \o e
  BY <1>4
<1>6. n + 1 \in w .. n + 1 /\ v[n + 1] = << >>
  OBVIOUS
<1>7. v \in [w .. n + 1 -> Seq(Byte)]
  <2>1. \A i \in w .. n + 1 : (IF i = n + 1 THEN << >> ELSE u[i] \o e) \in Seq(Byte)
    <3> TAKE i \in w .. n + 1
    <3>1. CASE i = n + 1
      BY <3>1, EmptySeq
    <3>2. CASE i # n + 1
      <4>1. i \in w .. n
        BY <3>2
      <4>2. u[i] \o e \in Seq(Byte)
        BY <1>2, <1>3, <4>1, ConcatProperties
      <4> QED BY <3>2, <4>2
    <3> QED BY <3>1, <3>2
  <2> QED BY <2>1
<1> HIDE DEF v
<1>8. \A i \in w + 1 .. n + 1 : v[i - 1] = Encode(s[i], q, b) \o v[i]
  <2> TAKE i \in w + 1 .. n + 1
  <2>1. i - 1 \in w .. n
    OBVIOUS
  <2>2. v[i - 1] = u[i - 1] \o e
    BY <1>5, <2>1
  <2>3. CASE i = n + 1
    <3>1. u[i - 1] = << >>
      BY <1>1, <2>3 DEF Packs
    <3> QED BY <1>0, <1>2, <1>6, <2>2, <2>3, <3>1, ConcatEmptySeq
  <2>4. CASE i # n + 1
    <3>1. i \in w + 1 .. n /\ i \in w .. n
      BY <2>4
    <3>2. u[i - 1] = Encode(s[i], q, b) \o u[i] /\ u[i] \in Seq(Byte)
      BY <1>1, <1>3, <3>1 DEF Packs
    <3>3. Encode(s[i], q, b) \in Seq(Byte)
      <4>1. s[i] \in Byte
        BY <3>1
      <4> QED BY <4>1, EncodeType
    <3>4. (Encode(s[i], q, b) \o u[i]) \o e = Encode(s[i], q, b) \o (u[i] \o e)
      <4>1. \A d \in Seq(Byte), x \in Seq(Byte) : (d \o x) \o e = d \o (x \o e)
        BY <1>2, ConcatAssociative
      <4> QED BY <3>2, <3>3, <4>1
    <3> QED BY <1>5, <2>2, <3>1, <3>2, <3>4
  <2> QED BY <2>3, <2>4
<1>9. v[w] = p \o e
  <2>1. w \in w .. n /\ u[w] = p
    BY <1>1 DEF Packs
  <2> QED BY <1>5, <2>1
<1>10. Packs(s, q, b, w, n + 1, p \o e, v)
  BY <1>6, <1>7, <1>8, <1>9 DEF Packs
<1> QED BY <1>0, <1>10 DEF Packed

\* ptchr takes the first byte out, ...
LEMMA PackedTake ==
  ASSUME NEW s \in Seq(Byte), NEW q \in BOOLEAN, NEW b \in BOOLEAN, NEW w \in Nat, NEW n \in Nat,
         w <= n, n <= Len(s), NEW p, Packed(s, q, b, w, n, p), p # << >>
  PROVE  /\ w < n
         /\ Decode(p, q) = Line(s[w + 1], q, b)
         /\ Packed(s, q, b, w + 1, n, SubSeq(p, Taken(p, q) + 1, Len(p)))
<1>1. PICK u : Packs(s, q, b, w, n, p, u)
  BY DEF Packed
<1>2. w < n
  <2>1. w # n
    BY <1>1 DEF Packs
  <2> QED BY <2>1
<1> DEFINE c == s[w + 1]
           e == Encode(c, q, b)
           t == u[w + 1]
<1>3. c \in Byte /\ e \in Seq(Byte) /\ Len(e) \in 1 .. 3
  <2>1. c \in Byte
    BY <1>2
  <2> QED BY <2>1, EncodeType, EncodeLength
<1>4. t \in Seq(Byte) /\ p = e \o t
  <2>1. w + 1 \in w .. n /\ w + 1 \in w + 1 .. n /\ (w + 1) - 1 = w
    BY <1>2
  <2>2. u[w] = e \o u[w + 1] /\ u[w + 1] \in Seq(Byte) /\ u[w] = p
    BY <1>1, <2>1 DEF Packs
  <2> QED BY <2>2
<1>5. Taken(e \o t, q) = Len(e) /\ Decode(e \o t, q) = Line(c, q, b)
  BY <1>3, <1>4, QuotingRoundTrip
<1>6. SubSeq(p, Len(e) + 1, Len(p)) = t
  <2> HIDE DEF e, t
  <2>1. /\ p \in Seq(Byte) /\ Len(p) = Len(e) + Len(t) /\ Len(t) \in Nat
        /\ \A i \in 1 .. Len(e) + Len(t) : p[i] = IF i <= Len(e) THEN e[i] ELSE t[i - Len(e)]
    BY <1>3, <1>4, ConcatProperties
  <2> DEFINE m == Len(e)
             k == Len(p)
             x == SubSeq(p, m + 1, k)
  <2>2. m \in 1 .. 3 /\ k \in Nat /\ k = m + Len(t) /\ \A i \in m + 1 .. k : p[i] \in Byte
    BY <1>3, <2>1
  <2> HIDE DEF m, k
  <2>3. /\ x \in Seq(Byte) /\ Len(x) = IF m + 1 <= k THEN k - (m + 1) + 1 ELSE 0
        /\ \A i \in 1 .. k - (m + 1) + 1 : x[i] = p[(m + 1) + i - 1]
    <3>1. m + 1 \in Int /\ k \in Int
      BY <2>2
    <3> QED BY <2>2, <3>1, SubSeqProperties
  <2> HIDE DEF x
  <2>4. Len(x) = Len(t)
    BY <2>1, <2>2, <2>3
  <2>5. \A i \in 1 .. Len(t) : x[i] = t[i]
    <3> TAKE i \in 1 .. Len(t)
    <3>1. i \in 1 .. k - (m + 1) + 1 /\ (m + 1) + i - 1 = m + i
      BY <2>1, <2>2
    <3>2. m + i \in 1 .. m + Len(t) /\ ~(m + i <= m) /\ (m + i) - m = i
      BY <2>1, <2>2
    <3>3. p[m + i] = t[i]
      BY <2>1, <3>2 DEF m
    <3> QED BY <2>3, <3>1, <3>3
  <2>6. x = t
    BY <1>4, <2>3, <2>4, <2>5, SeqEqual
  <2> QED BY <2>6 DEF x, m, k
<1>7. Packed(s, q, b, w + 1, n, t)
  <2> DEFINE v == [i \in w + 1 .. n |-> u[i]]
  <2>1. \A i \in w + 1 .. n : i \in w .. n /\ u[i] \in Seq(Byte)
    BY <1>1 DEF Packs
  <2>2. v \in [w + 1 .. n -> Seq(Byte)]
    BY <2>1
  <2>3. w + 1 \in w + 1 .. n /\ n \in w + 1 .. n
    BY <1>2
  <2>4. v[w + 1] = t /\ v[n] = << >>
    BY <1>1, <2>3 DEF Packs
  <2>5. \A i \in (w + 1) + 1 .. n : v[i - 1] = Encode(s[i], q, b) \o v[i]
    <3> TAKE i \in (w + 1) + 1 .. n
    <3>1. i \in w + 1 .. n /\ i - 1 \in w + 1 .. n
      OBVIOUS
    <3> QED BY <1>1, <3>1 DEF Packs
  <2> HIDE DEF v, t
  <2>6. Packs(s, q, b, w + 1, n, t, v)
    BY <2>2, <2>4, <2>5 DEF Packs
  <2> QED BY <2>6 DEF Packed
<1> HIDE DEF e, t, c
<1>8. Taken(p, q) = Len(e) /\ Decode(p, q) = Line(c, q, b)
  BY <1>4, <1>5
<1> QED BY <1>2, <1>6, <1>7, <1>8 DEF c

\* ... until there is none.
LEMMA PackedEmpty ==
  ASSUME NEW s \in Seq(Byte), NEW q \in BOOLEAN, NEW b \in BOOLEAN, NEW w \in Nat, NEW n \in Nat,
         w <= n, n <= Len(s), Packed(s, q, b, w, n, << >>)
  PROVE  w = n
<1>1. SUFFICES ASSUME w < n PROVE FALSE
  OBVIOUS
<1>2. PICK u : Packs(s, q, b, w, n, << >>, u)
  BY DEF Packed
<1>3. w + 1 \in w .. n /\ w + 1 \in w + 1 .. n /\ (w + 1) - 1 = w /\ w + 1 \in 1 .. Len(s)
  BY <1>1
<1>4. Encode(s[w + 1], q, b) \o u[w + 1] = << >> /\ u[w + 1] \in Seq(Byte)
  BY <1>2, <1>3 DEF Packs
<1>5. s[w + 1] \in Byte
  BY <1>3
<1>6. Encode(s[w + 1], q, b) \in Seq(Byte) /\ Len(Encode(s[w + 1], q, b)) \in 1 .. 3
  BY <1>5, EncodeType, EncodeLength
<1>7. Encode(s[w + 1], q, b) = << >>
  BY <1>4, <1>6, ConcatEqualIffEmpty
<1> QED BY <1>6, <1>7

-----------------------------------------------------------------------------
(***************************************************************************)
(* What the receiver has.                                                  *)
(***************************************************************************)

\* The file, its records one behind the other.
Whole == FlattenSeq(file)

LEMMA WholeLaid == ChoicesOK => Laid(file, Whole, Len(file)) /\ Len(file) \in Nat
BY FlattenLaid DEF ChoicesOK, Whole

LEMMA WrittenType ==
  ASSUME NEW o \in Seq(Record), NEW r \in Seq(Byte)
  PROVE  FlattenSeq(o) \in Seq(Byte) /\ FlattenSeq(o) \o r \in Seq(Byte)
<1>1. FlattenSeq(o) \in Seq(Byte)
  BY FlattenLaid DEF Laid
<1> QED BY <1>1, ConcatProperties

LEMMA LineType ==
  ASSUME NEW c \in Byte, NEW q, NEW p
  PROVE  Line(c, q, p) \in Byte
BY DEF Line, Byte

\* The text of a file whose first n bytes hold no ^Z.
LEMMA TextIs ==
  ASSUME NEW s \in Seq(Byte), NEW n \in 0 .. Len(s), ~binary => \A i \in 1 .. n : s[i] # CtrlZ
  PROVE  /\ Text(s) \in Seq(Byte) /\ n <= Len(Text(s))
         /\ \A i \in 1 .. n : Text(s)[i] = s[i]
         /\ n = Len(s) \/ (n < Len(s) /\ ~binary /\ s[n + 1] = CtrlZ) => Len(Text(s)) = n
<1>0. Len(s) \in Nat /\ n \in Nat /\ n <= Len(s)
  OBVIOUS
<1>1. CASE binary \/ CtrlZ \notin ToSet(s)
  <2>1. Text(s) = s
    BY <1>1 DEF Text
  <2>2. n < Len(s) /\ ~binary => s[n + 1] # CtrlZ
    <3>1. n < Len(s) => n + 1 \in DOMAIN s
      OBVIOUS
    <3> QED BY <1>1, <3>1 DEF ToSet
  <2> QED BY <1>0, <2>1, <2>2
<1>2. CASE ~(binary \/ CtrlZ \notin ToSet(s))
  <2> DEFINE I == {i \in 1 .. Len(s) : s[i] = CtrlZ}
             k == Min(I)
  <2>1. I # {} /\ I \subseteq Nat
    <3>1. PICK i \in DOMAIN s : s[i] = CtrlZ
      BY <1>2 DEF ToSet
    <3>2. DOMAIN s = 1 .. Len(s)
      OBVIOUS
    <3> QED BY <3>1, <3>2
  <2>2. k \in I /\ \A j \in I : k <= j
    <3> HIDE DEF I
    <3>1. \E x \in I : \A y \in I : x <= y
      BY <2>1, Least
    <3> QED BY <3>1 DEF Min
  <2>3. SelectInSeq(s, LAMBDA c : c = CtrlZ) = k
    BY <2>1 DEF SelectInSeq
  <2>4. Text(s) = SubSeq(s, 1, k - 1)
    BY <1>2, <2>3 DEF Text
  <2>5. k \in 1 .. Len(s) /\ s[k] = CtrlZ
    BY <2>2
  <2>6. n < k
    <3>1. k \in 1 .. n => s[k] # CtrlZ
      BY <1>2
    <3> QED BY <1>0, <2>5, <3>1
  <2>7. n < Len(s) /\ s[n + 1] = CtrlZ => k <= n + 1
    <3>1. n < Len(s) => n + 1 \in 1 .. Len(s)
      BY <1>0
    <3> QED BY <2>2, <3>1
  <2> HIDE DEF k, I
  <2> DEFINE t == SubSeq(s, 1, k - 1)
  <2>8. t \in Seq(Byte) /\ Len(t) = k - 1 /\ \A i \in 1 .. k - 1 : t[i] = s[i]
    BY <2>5
  <2> HIDE DEF t
  <2>9. \A i \in 1 .. n : i \in 1 .. k - 1
    BY <1>0, <2>5, <2>6
  <2>10. n # Len(s)
    BY <1>0, <2>5, <2>6
  <2>11. Text(s) = t
    BY <2>4 DEF t
  <2> QED BY <1>0, <2>5, <2>6, <2>7, <2>8, <2>9, <2>10, <2>11
<1> QED BY <1>1, <1>2

\* What is to arrive of it.
LEMMA SentIs ==
  ASSUME ChoicesOK, NEW n \in 0 .. Len(Whole), ~binary => \A i \in 1 .. n : Whole[i] # CtrlZ
  PROVE  /\ Sent \in Seq(Byte) /\ n <= Len(Sent)
         /\ \A i \in 1 .. n : Sent[i] = Line(Whole[i], qbin, parity)
         /\ n = Len(Whole) \/ (n < Len(Whole) /\ ~binary /\ Whole[n + 1] = CtrlZ) => Len(Sent) = n
<1> DEFINE t == Text(Whole)
           f == [i \in 1 .. Len(t) |-> Line(t[i], qbin, parity)]
<1>0. Whole \in Seq(Byte)
  BY WholeLaid DEF Laid
<1>1. /\ t \in Seq(Byte) /\ n <= Len(t)
      /\ \A i \in 1 .. n : t[i] = Whole[i]
      /\ n = Len(Whole) \/ (n < Len(Whole) /\ ~binary /\ Whole[n + 1] = CtrlZ) => Len(t) = n
  BY <1>0, TextIs
<1>2. Sent = f
  <2>1. DOMAIN t = 1 .. Len(t)
    BY <1>1
  <2> QED BY <2>1 DEF Sent, Whole
<1> HIDE DEF t
<1>3. f \in Seq(Byte) /\ Len(f) = Len(t)
  <2>1. \A i \in 1 .. Len(t) : Line(t[i], qbin, parity) \in Byte
    BY <1>1, LineType
  <2>2. f \in [1 .. Len(t) -> Byte] /\ Len(t) \in Nat
    BY <1>1, <2>1
  <2> HIDE DEF f
  <2>3. f \in Seq(Byte)
    BY <2>2, SeqDef
  <2> QED BY <2>2, <2>3, LenProperties
<1>4. \A i \in 1 .. n : f[i] = Line(Whole[i], qbin, parity)
  <2>1. \A i \in 1 .. n : i \in 1 .. Len(t)
    BY <1>1
  <2> QED BY <1>1, <2>1
<1> HIDE DEF f
<1> QED BY <1>1, <1>2, <1>3, <1>4

\* The sender's place: gtchr has n bytes of the file behind it.
Place(n) ==
  /\ pc \in {"enter", "fill", "put"} /\ ~filflg =>
       /\ ~eoflag /\ rec > 0
       /\ n + chrcnt = rec * BUFSIZ
       /\ \A i \in 1 .. chrcnt : dma[i] = file[rec][(BUFSIZ - chrcnt) + i]
  /\ pc \in {"enter", "fill", "put"} /\ filflg /\ ~eoflag => pc = "enter" /\ rec = 0 /\ n = 0
  /\ eoflag \/ pc \in {"eof", "done"} =>
       n = Len(Whole) \/ (n < Len(Whole) /\ ~binary /\ Whole[n + 1] = CtrlZ)

\* None of them is the end of the text.
Clean(n) == ~binary => \A i \in 1 .. n : Whole[i] # CtrlZ

Packet == IF pc = "fill" THEN data ELSE IF pc = "put" THEN rest ELSE << >>

\* Of these the receiver has the first, and the packet under way the others.
Under(n) ==
  /\ Len(Written) <= n
  /\ \A i \in 1 .. Len(Written) : Written[i] = Line(Whole[i], qbin, parity)
  /\ rdma = << >> => out = << >>
  /\ pc # "aborted" => Packed(Whole, qbin, parity, Len(Written), n, Packet)

Filled == \E n \in 0 .. BUFSIZ : /\ Written = Sent \o [i \in 1 .. n |-> CtrlZ]
                                 /\ n = BUFSIZ => Sent = << >>

FlowAt(n) ==
  /\ n \in 0 .. Len(Whole) /\ Place(n) /\ Clean(n)
  /\ pc # "done" => Under(n)
  /\ pc = "done" => Filled

\* The invariant of a transfer.
FlowInv == ~HighCtrlZ => \E n \in Nat : FlowAt(n)

\* Then what is written is a beginning of what is sent.
LEMMA Beginning ==
  ASSUME FileInv, NEW n \in Nat, FlowAt(n)
  PROVE  Arrives
<1>1. CASE pc = "done"
  BY <1>1 DEF FlowAt, Filled, Arrives
<1>2. CASE pc # "done"
  <2>1. ChoicesOK /\ out \in Seq(Record) /\ rdma \in Seq(Byte)
    BY DEF FileInv, TypeOK, Record
  <2>2. Written \in Seq(Byte)
    BY <2>1, WrittenType DEF Written
  <2>3. /\ Sent \in Seq(Byte) /\ n <= Len(Sent)
        /\ \A i \in 1 .. n : Sent[i] = Line(Whole[i], qbin, parity)
    BY <2>1, SentIs DEF FlowAt, Clean
  <2>4. /\ Len(Written) <= n
        /\ \A i \in 1 .. Len(Written) : Written[i] = Line(Whole[i], qbin, parity)
    BY <1>2 DEF FlowAt, Under
  <2>5. PICK s \in Seq(Byte) : s = Written
    BY <2>2
  <2>6. PICK t \in Seq(Byte) : t = Sent
    BY <2>3
  <2>7. Len(s) <= Len(t) /\ \A i \in 1 .. Len(s) : s[i] = t[i]
    BY <2>3, <2>4, <2>5, <2>6
  <2>8. IsPrefix(s, t)
    <3> DEFINE x == SubSeq(s, 1, Len(s))
               y == SubSeq(t, 1, Len(s))
    <3>1. /\ x \in Seq(Byte) /\ Len(x) = Len(s) /\ \A i \in 1 .. Len(s) : x[i] = s[i]
          /\ y \in Seq(Byte) /\ Len(y) = Len(s) /\ \A i \in 1 .. Len(s) : y[i] = t[i]
      BY <2>7
    <3> HIDE DEF x, y
    <3>2. x = y
      BY <2>7, <3>1, SeqEqual
    <3> QED BY <2>7, <3>2 DEF x, y, IsPrefix
  <2> QED BY <1>2, <2>5, <2>6, <2>8 DEF Arrives
<1> QED BY <1>1, <1>2

-----------------------------------------------------------------------------
(***************************************************************************)
(* Step by step.                                                           *)
(***************************************************************************)

LEMMA ChoicesStay ==
  ASSUME UNCHANGED choices
  PROVE  /\ Whole' = Whole /\ Sent' = Sent /\ HighCtrlZ' = HighCtrlZ
         /\ file' = file /\ binary' = binary /\ qbin' = qbin /\ parity' = parity
<1>1. file' = file /\ binary' = binary /\ qbin' = qbin /\ parity' = parity
  BY DEF choices
<1>2. Sent' = Sent
  BY <1>1 DEF Sent, Text, SelectInSeq
<1>3. HighCtrlZ' = HighCtrlZ
  BY <1>1 DEF HighCtrlZ
<1>4. Whole' = Whole
  BY <1>1 DEF Whole
<1> QED BY <1>1, <1>2, <1>3, <1>4

\* Byte j of record r + 1.
LEMMA ByteAt ==
  ASSUME ChoicesOK, ~HighCtrlZ, NEW r \in 0 .. Len(file) - 1, NEW j \in 1 .. BUFSIZ
  PROVE  /\ Whole[(r * BUFSIZ) + j] = file[r + 1][j] /\ file[r + 1][j] \in Byte
         /\ r * BUFSIZ \in Nat /\ (r * BUFSIZ) + j \in 1 .. Len(Whole)
         /\ IsCtrlZ(file[r + 1][j]) /\ ~binary =>
              file[r + 1][j] = CtrlZ /\ Dangling(file[r + 1][j]) = << >>
<1>1. Laid(file, Whole, Len(file)) /\ Len(file) \in Nat
  BY WholeLaid
<1>2. r \in Nat /\ r + 1 \in Nat /\ r + 1 <= Len(file) /\ r + 1 \in 1 .. Len(file)
  BY <1>1
<1>3. Whole[(r * BUFSIZ) + j] = file[r + 1][j]
  BY <1>1 DEF Laid
<1>4. r * BUFSIZ \in Nat /\ (r * BUFSIZ) + BUFSIZ <= Len(file) * BUFSIZ /\ Len(file) * BUFSIZ = Len(Whole)
  BY <1>1, <1>2, Rows, RowsUp DEF Laid
<1>5. (r * BUFSIZ) + j \in 1 .. Len(Whole)
  <2>1. BUFSIZ \in Nat
    BY FileAssumption
  <2> QED BY <1>4, <2>1
<1> DEFINE c == file[r + 1][j]
<1>6. c \in Byte /\ DOMAIN file[r + 1] = 1 .. BUFSIZ
  <2>1. file[r + 1] \in Record
    BY <1>2 DEF ChoicesOK
  <2> QED BY <2>1 DEF Record
<1>7. ~binary /\ qbin => c # 128 + CtrlZ
  <2>1. r + 1 \in DOMAIN file
    BY <1>2 DEF ChoicesOK
  <2> QED BY <1>6, <2>1 DEF HighCtrlZ, ToSet
<1> HIDE DEF c
<1>8. IsCtrlZ(c) /\ ~binary => c = CtrlZ
  BY <1>6, <1>7 DEF IsCtrlZ, Low, CtrlZ, Byte
<1>9. c = CtrlZ => Dangling(c) = << >>
  BY DEF Dangling, CtrlZ
<1> QED BY <1>3, <1>4, <1>5, <1>6, <1>8, <1>9 DEF c

\* The text ends here: what there is of a packet is sent.
LEMMA EndFlows ==
  ASSUME FileInv, pc = "fill", NEW n \in Nat, FlowAt(n), UNCHANGED choices,
         NEW e \in BOOLEAN, Gtceof(data, e),
         n = Len(Whole) \/ (n < Len(Whole) /\ ~binary /\ Whole[n + 1] = CtrlZ)
  PROVE  FlowAt(n)'
<1>1. /\ Whole' = Whole /\ file' = file /\ binary' = binary /\ qbin' = qbin /\ parity' = parity
  BY ChoicesStay
<1>2. UNCHANGED <<rdma, out>>
  BY DEF Gtceof, Send, receiver
<1>3. Written' = Written
  BY <1>2 DEF Written
<1>4. Under(n) /\ Packed(Whole, qbin, parity, Len(Written), n, data)
  BY DEF FlowAt, Under, Packet
<1>5. CASE data = << >>
  <2>1. pc' = "eof"
    BY <1>5 DEF Gtceof
  <2>2. Packet' = data
    BY <1>5, <2>1 DEF Packet
  <2>3. Under(n)'
    BY <1>1, <1>2, <1>3, <1>4, <2>2 DEF Under
  <2>4. Place(n)' /\ Clean(n)'
    BY <1>1, <2>1 DEF Place, Clean, FlowAt
  <2> QED BY <1>1, <2>1, <2>3, <2>4 DEF FlowAt
<1>6. CASE data # << >>
  <2>1. pc' = "put" /\ rest' = data /\ filflg' = TRUE /\ eoflag' = TRUE
    BY <1>6 DEF Gtceof, Send
  <2>2. Packet' = data
    BY <2>1 DEF Packet
  <2>3. Under(n)'
    BY <1>1, <1>2, <1>3, <1>4, <2>2 DEF Under
  <2>4. Place(n)' /\ Clean(n)'
    BY <1>1, <2>1 DEF Place, Clean, FlowAt
  <2> QED BY <1>1, <2>1, <2>3, <2>4 DEF FlowAt
<1> QED BY <1>5, <1>6

\* gtchr's way with the next byte.
LEMMA TakeFlows ==
  ASSUME FileInv, ~HighCtrlZ, pc = "fill", NEW n \in Nat, FlowAt(n), UNCHANGED choices,
         NEW r \in 0 .. Len(file) - 1, NEW j \in 1 .. BUFSIZ,
         n + 1 = (r * BUFSIZ) + j, TakeChar(file[r + 1][j]),
         rec' = r + 1, chrcnt' = BUFSIZ - j,
         \A i \in 1 .. BUFSIZ - j : dma'[i] = file[r + 1][j + i]
  PROVE  \E m \in Nat : FlowAt(m)'
<1> DEFINE c == file[r + 1][j]
<1>1. /\ Whole' = Whole /\ file' = file /\ binary' = binary /\ qbin' = qbin /\ parity' = parity
  BY ChoicesStay
<1>2. /\ Whole[n + 1] = c /\ c \in Byte /\ n + 1 \in 1 .. Len(Whole)
      /\ IsCtrlZ(c) /\ ~binary => c = CtrlZ /\ Dangling(c) = << >>
  <2>1. ChoicesOK
    BY DEF FileInv
  <2>2. /\ Whole[(r * BUFSIZ) + j] = c /\ c \in Byte /\ (r * BUFSIZ) + j \in 1 .. Len(Whole)
        /\ IsCtrlZ(c) /\ ~binary => c = CtrlZ /\ Dangling(c) = << >>
    BY <2>1, ByteAt
  <2> QED BY <2>2
<1>3. Whole \in Seq(Byte) /\ Len(Whole) \in Nat
  BY WholeLaid DEF FileInv, Laid
<1>4. n < Len(Whole) /\ n + 1 \in 0 .. Len(Whole)
  BY <1>2, <1>3
<1>5. data \in Seq(Byte) /\ eoflag \in BOOLEAN /\ qbin \in BOOLEAN /\ parity \in BOOLEAN
  BY DEF FileInv, TypeOK, ChoicesOK
<1>9. TakeChar(c)
  OBVIOUS
<1> HIDE DEF c
<1>6. CASE IsCtrlZ(c) /\ ~binary
  <2>1. Gtceof(data, eoflag)
    <3>1. Gtceof(data \o << >>, eoflag)
      BY <1>2, <1>6, <1>9 DEF TakeChar
    <3>2. data \o << >> = data
      BY <1>5, ConcatEmptySeq
    <3> QED BY <3>1, <3>2
  <2>2. FlowAt(n)'
    BY <1>2, <1>4, <1>5, <1>6, <2>1, EndFlows
  <2> QED BY <2>2
<1>7. CASE ~(IsCtrlZ(c) /\ ~binary)
  <2>1. /\ data' = data \o Encode(c, qbin, parity)
        /\ UNCHANGED <<pc, filflg, eoflag, receiver>>
    BY <1>7, <1>9 DEF TakeChar
  <2>2. pc' = "fill" /\ filflg' = FALSE /\ eoflag' = FALSE /\ UNCHANGED <<rest, rdma, out>>
    <3>1. filflg = FALSE /\ filflg \in BOOLEAN
      BY DEF FileInv, TypeOK
    <3>2. eoflag = FALSE
      BY <1>5, <3>1 DEF FlowAt, Place
    <3> QED BY <2>1, <3>1, <3>2 DEF receiver
  <2>3. Written' = Written
    BY <2>2 DEF Written
  <2>4. Under(n) /\ Packed(Whole, qbin, parity, Len(Written), n, data)
    BY DEF FlowAt, Under, Packet
  <2>5. Written \in Seq(Byte)
    BY WrittenType DEF FileInv, TypeOK, Record, Written
  <2>6. Len(Written) \in Nat /\ Len(Written) <= n
    BY <2>4, <2>5 DEF Under
  <2>7. Packed(Whole, qbin, parity, Len(Written), n + 1, data')
    BY <1>2, <1>3, <1>4, <1>5, <2>1, <2>4, <2>6, PackedMore
  <2>8. Packet' = data'
    BY <2>2 DEF Packet
  <2>9. Under(n + 1)'
    <3>1. Len(Written) <= n + 1
      BY <2>6
    <3> QED BY <1>1, <2>2, <2>3, <2>4, <2>7, <2>8, <3>1 DEF Under
  <2>10. Clean(n + 1)'
    <3>1. ~binary => c # CtrlZ
      BY <1>7 DEF IsCtrlZ, CtrlZ, Low
    <3>2. \A i \in 1 .. n + 1 : i = n + 1 \/ i \in 1 .. n
      OBVIOUS
    <3>3. Clean(n)
      BY DEF FlowAt
    <3> QED BY <1>1, <1>2, <3>1, <3>2, <3>3 DEF Clean
  <2>11. Place(n + 1)'
    <3>1. r \in Nat /\ BUFSIZ \in Nat /\ r * BUFSIZ \in Nat /\ (r + 1) * BUFSIZ = (r * BUFSIZ) + BUFSIZ
      <4>1. r \in Nat /\ BUFSIZ \in Nat
        BY FileAssumption
      <4> QED BY <4>1, Rows
    <3>2. rec' > 0 /\ (n + 1) + chrcnt' = rec' * BUFSIZ
      <4> DEFINE a == r * BUFSIZ
                 d == (r + 1) * BUFSIZ
      <4>1. a \in Nat /\ d = a + BUFSIZ /\ n + 1 = a + j
        BY <3>1
      <4>2. rec' * BUFSIZ = d
        OBVIOUS
      <4> HIDE DEF a, d
      <4> QED BY <3>1, <4>1, <4>2
    <3>3. \A i \in 1 .. chrcnt' : dma'[i] = file'[rec'][(BUFSIZ - chrcnt') + i]
      <4>1. BUFSIZ - chrcnt' = j
        BY <3>1
      <4> QED BY <1>1, <4>1
    <3> QED BY <2>2, <3>2, <3>3 DEF Place
  <2>12. FlowAt(n + 1)'
    BY <1>1, <1>4, <2>2, <2>9, <2>10, <2>11 DEF FlowAt
  <2> QED BY <2>12
<1> QED BY <1>6, <1>7

\* ptchr takes a byte out of the packet.
LEMMA PutFlows ==
  ASSUME FileInv, PutChar, NEW n \in Nat, FlowAt(n)
  PROVE  FlowAt(n)'
<1>1. /\ Whole' = Whole /\ file' = file /\ binary' = binary /\ qbin' = qbin /\ parity' = parity
      /\ UNCHANGED <<pc, sender>> /\ pc = "put" /\ rest # << >>
  BY ChoicesStay DEF PutChar
<1>2. /\ out \in Seq(Record) /\ rdma \in Seq(Byte) /\ rest \in Seq(Byte)
      /\ qbin \in BOOLEAN /\ parity \in BOOLEAN /\ ChoicesOK
  BY DEF FileInv, TypeOK, Record, ChoicesOK
<1>3. Whole \in Seq(Byte) /\ Len(Whole) \in Nat
  BY <1>2, WholeLaid DEF Laid
<1>4. Written \in Seq(Byte) /\ Len(Written) \in Nat
  BY <1>2, WrittenType DEF Written
<1>5. Under(n) /\ Packed(Whole, qbin, parity, Len(Written), n, rest) /\ n <= Len(Whole)
  BY <1>1 DEF FlowAt, Under, Packet
<1> DEFINE c == Decode(rest, qbin)
<1>6. /\ Len(Written) < n
      /\ c = Line(Whole[Len(Written) + 1], qbin, parity)
      /\ Packed(Whole, qbin, parity, Len(Written) + 1, n, rest')
  <2>1. rest' = SubSeq(rest, Taken(rest, qbin) + 1, Len(rest))
    BY DEF PutChar
  <2>2. Len(Written) <= n
    BY <1>5 DEF Under
  <2> QED BY <1>1, <1>2, <1>3, <1>4, <1>5, <2>1, <2>2, PackedTake
<1>7. c \in Byte /\ Put(c)
  BY <1>2, DecodeType DEF PutChar
<1> HIDE DEF c
<1>8. Written' = Append(Written, c) /\ rdma' # << >>
  <2>1. FlattenSeq(out) \in Seq(Byte)
    BY <1>2, WrittenType
  <2>2. CASE Len(rdma) < BUFSIZ /\ rdma' = Append(rdma, c) /\ UNCHANGED out
    <3>1. rdma' = rdma \o <<c>> /\ rdma' # << >> /\ <<c>> \in Seq(Byte)
      BY <1>2, <1>7, <2>2, AppendIsConcat, AppendProperties
    <3>2. FlattenSeq(out) \o (rdma \o <<c>>) = (FlattenSeq(out) \o rdma) \o <<c>>
      BY <1>2, <2>1, <3>1, ConcatAssociative
    <3>3. Written' = Written \o <<c>>
      BY <2>2, <3>1, <3>2 DEF Written
    <3> QED BY <1>4, <1>7, <3>1, <3>3, AppendIsConcat
  <2>3. CASE Len(rdma) = BUFSIZ /\ out' = Append(out, rdma) /\ rdma' = <<c>>
    <3>1. rdma \in Record
      BY <1>2, <2>3, SeqIsRecord
    <3>2. FlattenSeq(out') = FlattenSeq(out) \o rdma
      BY <1>2, <2>3, <3>1, FlattenAppend
    <3>3. Written' = Written \o <<c>>
      BY <2>3, <3>2 DEF Written
    <3> QED BY <1>4, <1>7, <2>3, <3>3, AppendIsConcat
  <2> QED BY <1>7, <2>2, <2>3 DEF Put
<1>9. /\ Len(Written') = Len(Written) + 1
      /\ \A i \in 1 .. Len(Written) : Written'[i] = Written[i]
      /\ Written'[Len(Written) + 1] = c
  BY <1>4, <1>7, <1>8, AppendProperties
<1>10. Under(n)'
  <2>1. Len(Written') <= n
    BY <1>4, <1>6, <1>9
  <2>2. \A i \in 1 .. Len(Written') : Written'[i] = Line(Whole[i], qbin, parity)
    <3> TAKE i \in 1 .. Len(Written')
    <3>1. CASE i = Len(Written) + 1
      BY <1>6, <1>9, <3>1
    <3>2. CASE i # Len(Written) + 1
      <4>1. i \in 1 .. Len(Written)
        BY <1>4, <1>9, <3>2
      <4> QED BY <1>5, <1>9, <4>1 DEF Under
    <3> QED BY <3>1, <3>2
  <2>3. Packet' = rest'
    BY <1>1 DEF Packet
  <2> QED BY <1>1, <1>6, <1>8, <1>9, <2>1, <2>2, <2>3 DEF Under
<1>11. Place(n)' /\ Clean(n)'
  BY <1>1 DEF FlowAt, Place, Clean, sender
<1> QED BY <1>1, <1>10, <1>11 DEF FlowAt

\* rdata's end of the file.
LEMMA EofFlows ==
  ASSUME FileInv, PutEof, NEW n \in Nat, FlowAt(n)
  PROVE  FlowAt(n)'
<1>1. /\ Whole' = Whole /\ file' = file /\ binary' = binary /\ Sent' = Sent
      /\ pc = "eof" /\ pc' = "done" /\ out' = Append(out, Padded(rdma)) /\ rdma' = << >>
  BY ChoicesStay DEF PutEof
<1>2. /\ out \in Seq(Record) /\ rdma \in Seq(Byte) /\ Len(rdma) <= BUFSIZ
      /\ qbin \in BOOLEAN /\ parity \in BOOLEAN /\ ChoicesOK
  BY DEF FileInv, TypeOK, Record, ChoicesOK
<1>3. Whole \in Seq(Byte) /\ Len(Whole) \in Nat
  BY <1>2, WholeLaid DEF Laid
<1>4. Written \in Seq(Byte) /\ Len(Written) \in Nat
  BY <1>2, WrittenType DEF Written
<1>5. Under(n) /\ Packed(Whole, qbin, parity, Len(Written), n, << >>) /\ n <= Len(Whole)
  BY <1>1 DEF FlowAt, Under, Packet
<1>6. Len(Written) = n
  <2>1. Len(Written) <= n
    BY <1>5 DEF Under
  <2> QED BY <1>2, <1>3, <1>4, <1>5, <2>1, PackedEmpty
<1>7. Place(n) /\ Clean(n) /\ n \in 0 .. Len(Whole)
  BY DEF FlowAt
<1>8. Sent \in Seq(Byte) /\ Len(Sent) = n /\ \A i \in 1 .. n : Sent[i] = Line(Whole[i], qbin, parity)
  BY <1>1, <1>2, <1>7, SentIs DEF Place, Clean
<1>9. Written = Sent
  <2>1. \A i \in 1 .. n : Written[i] = Sent[i]
    BY <1>5, <1>6, <1>8 DEF Under
  <2> QED BY <1>4, <1>6, <1>8, <2>1, SeqEqual
<1>10. PICK k \in 0 .. BUFSIZ : k = BUFSIZ - Len(rdma)
  BY <1>2, FileAssumption
<1> DEFINE f == [i \in 1 .. k |-> CtrlZ]
<1>11. f \in Seq(Byte) /\ Len(f) = k
  <2>1. f \in [1 .. k -> Byte]
    BY DEF CtrlZ, Byte
  <2> HIDE DEF f
  <2>2. k \in Nat
    BY FileAssumption
  <2> QED BY <2>1, <2>2, SeqDef, LenProperties
<1>12. Padded(rdma) = rdma \o f
  BY <1>10 DEF Padded
<1> HIDE DEF f
<1>13. rdma \o f \in Record
  <2>1. rdma \o f \in Seq(Byte) /\ Len(rdma \o f) = Len(rdma) + Len(f)
    BY <1>2, <1>11, ConcatProperties
  <2>2. Len(rdma) + Len(f) = BUFSIZ
    BY <1>2, <1>10, <1>11, FileAssumption
  <2> QED BY <2>1, <2>2, SeqIsRecord
<1>14. Written' = Sent \o f
  <2>1. FlattenSeq(out) \in Seq(Byte)
    BY <1>2, WrittenType
  <2>2. FlattenSeq(out') = FlattenSeq(out) \o (rdma \o f)
    BY <1>1, <1>2, <1>12, <1>13, FlattenAppend
  <2>3. FlattenSeq(out) \o (rdma \o f) = Written \o f
    <3>1. \A d \in Seq(Byte), x \in Seq(Byte), y \in Seq(Byte) : (d \o x) \o y = d \o (x \o y)
      BY ConcatAssociative
    <3>2. (FlattenSeq(out) \o rdma) \o f = FlattenSeq(out) \o (rdma \o f)
      BY <1>2, <1>11, <2>1, <3>1
    <3> QED BY <3>2 DEF Written
  <2>4. FlattenSeq(out') \in Seq(Byte)
    BY <1>4, <1>11, <2>2, <2>3, ConcatProperties
  <2>5. Written' = FlattenSeq(out') \o << >>
    BY <1>1 DEF Written
  <2> QED BY <1>9, <2>2, <2>3, <2>4, <2>5, ConcatEmptySeq
<1>15. k = BUFSIZ => Sent = << >>
  <2> SUFFICES ASSUME k = BUFSIZ PROVE Sent = << >>
    OBVIOUS
  <2>1. Len(rdma) = 0
    BY <1>2, <1>10, FileAssumption
  <2>2. rdma = << >>
    BY <1>2, <2>1
  <2>3. out = << >>
    BY <1>5, <2>2 DEF Under
  <2>4. FlattenSeq(out) = << >>
    BY <2>3 DEF FlattenSeq
  <2> QED BY <1>9, <2>2, <2>4, EmptySeq, ConcatEmptySeq DEF Written
<1>16. Filled'
  BY <1>1, <1>14, <1>15 DEF Filled, f
<1>17. Place(n)' /\ Clean(n)'
  BY <1>1, <1>7 DEF Place, Clean
<1> QED BY <1>1, <1>7, <1>16, <1>17 DEF FlowAt

\* The initial state satisfies it, ...
LEMMA FlowInit == ASSUME FileInv, Init PROVE FlowInv
<1>1. /\ pc = "enter" /\ filflg = TRUE /\ eoflag = FALSE /\ rec = 0
      /\ rdma = << >> /\ out = << >> /\ ChoicesOK
  BY DEF Init, FileInv
<1>2. Whole \in Seq(Byte) /\ 0 \in 0 .. Len(Whole)
  <2>1. Whole \in Seq(Byte)
    BY <1>1, WholeLaid DEF Laid
  <2> QED BY <2>1
<1>3. Written = << >> /\ Len(Written) = 0
  <2>1. FlattenSeq(out) = << >>
    BY <1>1 DEF FlattenSeq
  <2>2. Written = << >> \o << >>
    BY <1>1, <2>1 DEF Written
  <2> QED BY <2>2, EmptySeq, ConcatEmptySeq
<1>4. Under(0)
  <2>1. Packed(Whole, qbin, parity, 0, 0, << >>)
    BY PackedNone
  <2>2. Packet = << >>
    BY <1>1 DEF Packet
  <2>3. 1 .. 0 = {} /\ 0 <= 0
    OBVIOUS
  <2> QED BY <1>1, <1>3, <2>1, <2>2, <2>3 DEF Under
<1>5. Place(0) /\ Clean(0)
  BY <1>1 DEF Place, Clean
<1>6. FlowAt(0)
  BY <1>1, <1>2, <1>4, <1>5 DEF FlowAt
<1> QED BY <1>6 DEF FlowInv

\* A step that leaves the receiver and the packet alone leaves what is under way.
LEMMA UnderStays ==
  ASSUME UNCHANGED <<choices, rdma, out>>, NEW n \in Nat, FlowAt(n), pc # "done", pc' # "done",
         pc' # "aborted" => pc # "aborted" /\ Packet' = Packet
  PROVE  /\ Under(n)' /\ Clean(n)' /\ (n \in 0 .. Len(Whole))'
         /\ Whole' = Whole /\ file' = file /\ binary' = binary
<1>1. /\ Whole' = Whole /\ file' = file /\ binary' = binary /\ qbin' = qbin /\ parity' = parity
  BY ChoicesStay
<1>2. Written' = Written
  BY DEF Written
<1>3. Under(n)'
  BY <1>1, <1>2 DEF FlowAt, Under
<1> QED BY <1>1, <1>3 DEF FlowAt, Clean

\* ... and every step keeps it.
LEMMA FlowNext == ASSUME FileInv, FlowInv, [Next]_vars PROVE FlowInv'
<1>1. CASE UNCHANGED vars
  <2>1. UNCHANGED <<choices, pc, rec, dma, chrcnt, filflg, eoflag, data, rest, rdma, out>>
    BY <1>1 DEF vars, sender, receiver
  <2>2. Whole' = Whole /\ HighCtrlZ' = HighCtrlZ /\ Sent' = Sent /\ Written' = Written
    BY <2>1, ChoicesStay DEF Written
  <2>3. ASSUME NEW n \in Nat, FlowAt(n) PROVE FlowAt(n)'
    <3>1. Packet' = Packet
      BY <2>1 DEF Packet
    <3>2. Filled' = Filled
      BY <2>2 DEF Filled
    <3>3. Under(n)' = Under(n)
      BY <2>1, <2>2, <3>1 DEF Under, choices
    <3>4. Place(n)' = Place(n) /\ Clean(n)' = Clean(n)
      BY <2>1, <2>2 DEF Place, Clean, choices
    <3> QED BY <2>1, <2>2, <2>3, <3>2, <3>3, <3>4 DEF FlowAt
  <2> QED BY <2>2, <2>3 DEF FlowInv
<1>2. CASE Next
  <2>1. UNCHANGED choices
    BY <1>2 DEF Next, Enter, EnterRead, EnterEof, FillFull, FillChar, FillRead, FillEof,
                PutChar, PutDone, DiskFull, PutEof
  <2>2. HighCtrlZ' = HighCtrlZ
    BY <2>1, ChoicesStay
  <2> SUFFICES ASSUME ~HighCtrlZ PROVE \E n \in Nat : FlowAt(n)'
    BY <2>2 DEF FlowInv
  <2>3. PICK n \in Nat : FlowAt(n)
    BY DEF FlowInv
  <2>4. /\ ChoicesOK /\ rec \in 0 .. Len(file) /\ Len(file) \in Nat /\ chrcnt \in 0 .. BUFSIZ
        /\ filflg \in BOOLEAN /\ eoflag \in BOOLEAN /\ data \in Seq(Byte)
        /\ BUFSIZ \in Nat /\ BUFSIZ > 1
    <3>1. ChoicesOK /\ rec \in 0 .. Len(file) /\ chrcnt \in 0 .. BUFSIZ /\ data \in Seq(Byte)
      BY DEF FileInv, TypeOK
    <3>2. filflg \in BOOLEAN /\ eoflag \in BOOLEAN
      BY DEF FileInv, TypeOK
    <3>3. Len(file) \in Nat
      BY <3>1, WholeLaid
    <3> QED BY <3>1, <3>2, <3>3, FileAssumption
  <2>5. Place(n)
    BY <2>3 DEF FlowAt
  <2>6. CASE Enter
    <3>1. /\ pc = "enter" /\ pc' = "fill" /\ data' = << >> /\ filflg = FALSE
          /\ UNCHANGED <<choices, rec, dma, chrcnt, filflg, eoflag, rdma, out>>
      BY <2>4, <2>6 DEF Enter, Begin, receiver
    <3>2. Packet' = Packet
      BY <3>1 DEF Packet
    <3>3. /\ Under(n)' /\ Clean(n)' /\ (n \in 0 .. Len(Whole))'
          /\ Whole' = Whole /\ file' = file /\ binary' = binary
      BY <2>3, <3>1, <3>2, UnderStays
    <3>4. Place(n)'
      BY <2>5, <3>1, <3>3 DEF Place
    <3> QED BY <3>1, <3>3, <3>4 DEF FlowAt
  <2>7. CASE EnterRead
    <3>1. /\ pc = "enter" /\ pc' = "fill" /\ data' = << >> /\ filflg = TRUE /\ eoflag = FALSE
          /\ rec' = rec + 1 /\ dma' = file[rec + 1] /\ chrcnt' = BUFSIZ /\ filflg' = FALSE
          /\ UNCHANGED <<choices, eoflag, rdma, out>>
      BY <2>4, <2>7 DEF EnterRead, Begin, More, receiver
    <3>2. Packet' = Packet
      BY <3>1 DEF Packet
    <3>3. /\ Under(n)' /\ Clean(n)' /\ (n \in 0 .. Len(Whole))'
          /\ Whole' = Whole /\ file' = file /\ binary' = binary
      BY <2>3, <3>1, <3>2, UnderStays
    <3>4. rec = 0 /\ n = 0
      BY <2>5, <3>1 DEF Place
    <3>5. rec' = 1 /\ 1 * BUFSIZ = BUFSIZ
      BY <2>4, <3>1, <3>4
    <3>6. n + chrcnt' = rec' * BUFSIZ /\ rec' > 0
      BY <2>4, <3>1, <3>4, <3>5
    <3>7. \A i \in 1 .. chrcnt' : dma'[i] = file'[rec'][(BUFSIZ - chrcnt') + i]
      <4>1. \A i \in 1 .. BUFSIZ : (BUFSIZ - BUFSIZ) + i = i
        BY <2>4
      <4> QED BY <3>1, <3>3, <4>1
    <3>8. Place(n)'
      BY <3>1, <3>6, <3>7 DEF Place
    <3> QED BY <3>1, <3>3, <3>8 DEF FlowAt
  <2>8. CASE EnterEof
    <3>1. /\ pc = "enter" /\ pc' = "eof" /\ filflg = TRUE /\ ~More
          /\ UNCHANGED <<choices, rdma, out>>
      BY <2>4, <2>8 DEF EnterEof, receiver
    <3>2. Packet' = Packet
      BY <3>1 DEF Packet
    <3>3. /\ Under(n)' /\ Clean(n)' /\ (n \in 0 .. Len(Whole))'
          /\ Whole' = Whole /\ file' = file /\ binary' = binary
      BY <2>3, <3>1, <3>2, UnderStays
    <3>4. n = Len(Whole) \/ (n < Len(Whole) /\ ~binary /\ Whole[n + 1] = CtrlZ)
      <4>1. CASE eoflag
        BY <2>5, <4>1 DEF Place
      <4>2. CASE ~eoflag
        <5>1. rec = 0 /\ n = 0
          BY <2>4, <2>5, <3>1, <4>2 DEF Place
        <5>2. Len(file) = 0
          BY <2>4, <3>1, <4>2, <5>1 DEF More
        <5>3. Len(Whole) = 0 * BUFSIZ
          BY <2>4, <5>2, WholeLaid DEF Laid
        <5> QED BY <2>4, <5>1, <5>3
      <4> QED BY <4>1, <4>2
    <3>5. Place(n)'
      BY <3>1, <3>3, <3>4 DEF Place
    <3> QED BY <3>1, <3>3, <3>5 DEF FlowAt
  <2>9. CASE FillFull
    <3>1. /\ pc = "fill" /\ pc' = "put" /\ rest' = data
          /\ UNCHANGED <<choices, rec, dma, chrcnt, filflg, eoflag, rdma, out>>
      BY <2>9 DEF FillFull, Send, sender
    <3>2. Packet' = Packet
      BY <3>1 DEF Packet
    <3>3. /\ Under(n)' /\ Clean(n)' /\ (n \in 0 .. Len(Whole))'
          /\ Whole' = Whole /\ file' = file /\ binary' = binary
      BY <2>3, <3>1, <3>2, UnderStays
    <3>4. Place(n)'
      BY <2>4, <2>5, <3>1, <3>3 DEF Place
    <3> QED BY <3>1, <3>3, <3>4 DEF FlowAt
  <2>10. CASE FillChar
    <3>1. /\ pc = "fill" /\ chrcnt > 0 /\ filflg = FALSE
          /\ chrcnt' = chrcnt - 1 /\ dma' = Tail(dma) /\ rec' = rec /\ TakeChar(Head(dma))
      BY <2>4, <2>10 DEF FillChar, FileInv
    <3>2. /\ ~eoflag /\ rec > 0 /\ n + chrcnt = rec * BUFSIZ
          /\ \A i \in 1 .. chrcnt : dma[i] = file[rec][(BUFSIZ - chrcnt) + i]
      BY <2>5, <3>1 DEF Place
    <3>3. dma \in Seq(Byte) /\ Len(dma) = chrcnt /\ dma # << >>
      <4>1. dma \in Seq(Byte) /\ Len(dma) = chrcnt
        BY <3>1 DEF FileInv, TypeOK
      <4> QED BY <2>4, <3>1, <4>1
    <3> DEFINE r == rec - 1
               j == (BUFSIZ - chrcnt) + 1
    <3>4. r \in 0 .. Len(file) - 1 /\ j \in 1 .. BUFSIZ /\ rec = r + 1
      BY <2>4, <3>1, <3>2
    <3>5. n + 1 = (r * BUFSIZ) + j
      <4>1. r \in Nat
        BY <3>4, <2>4
      <4>2. (r + 1) * BUFSIZ = (r * BUFSIZ) + BUFSIZ /\ r * BUFSIZ \in Nat
        BY <4>1, Rows
      <4>3. n + chrcnt = (r * BUFSIZ) + BUFSIZ
        BY <3>2, <3>4, <4>2
      <4> QED BY <2>4, <4>2, <4>3
    <3>6. Head(dma) = file[r + 1][j]
      <4>1. Head(dma) = dma[1] /\ 1 \in 1 .. chrcnt
        BY <2>4, <3>1, <3>3
      <4> QED BY <3>2, <3>4, <4>1
    <3>7. chrcnt' = BUFSIZ - j
      BY <2>4, <3>1
    <3>8. \A i \in 1 .. BUFSIZ - j : dma'[i] = file[r + 1][j + i]
      <4> TAKE i \in 1 .. BUFSIZ - j
      <4>1. i \in 1 .. chrcnt - 1 /\ i + 1 \in 1 .. chrcnt /\ (BUFSIZ - chrcnt) + (i + 1) = j + i
        BY <2>4, <3>1
      <4>2. Tail(dma)[i] = dma[i + 1]
        BY <3>3, <4>1, HeadTailProperties
      <4>3. dma[i + 1] = file[rec][(BUFSIZ - chrcnt) + (i + 1)]
        BY <3>2, <4>1
      <4> QED BY <3>1, <3>4, <4>1, <4>2, <4>3
    <3>9. rec' = r + 1 /\ TakeChar(file[r + 1][j])
      BY <3>1, <3>4, <3>6
    <3> HIDE DEF r, j
    <3> QED BY <2>1, <2>3, <3>1, <3>4, <3>5, <3>7, <3>8, <3>9, TakeFlows
  <2>11. CASE FillRead
    <3>1. /\ pc = "fill" /\ chrcnt = 0 /\ filflg = FALSE /\ More
          /\ rec' = rec + 1 /\ dma' = Tail(file[rec + 1]) /\ chrcnt' = BUFSIZ - 1
          /\ TakeChar(Head(file[rec + 1]))
      BY <2>4, <2>11 DEF FillRead, FileInv
    <3>2. n + chrcnt = rec * BUFSIZ
      BY <2>5, <3>1 DEF Place
    <3>3. rec \in 0 .. Len(file) - 1 /\ 1 \in 1 .. BUFSIZ
      BY <2>4, <3>1 DEF More
    <3>4. n + 1 = (rec * BUFSIZ) + 1
      BY <3>1, <3>2
    <3>5. file[rec + 1] \in Record
      BY <2>4, <3>1, ReadRecord
    <3>6. file[rec + 1] \in Seq(Byte) /\ Len(file[rec + 1]) = BUFSIZ /\ file[rec + 1] # << >>
      BY <3>5, RecordIsSeq
    <3>7. Head(file[rec + 1]) = file[rec + 1][1]
      BY <3>6
    <3>8. \A i \in 1 .. BUFSIZ - 1 : dma'[i] = file[rec + 1][1 + i]
      <4> TAKE i \in 1 .. BUFSIZ - 1
      <4>1. Tail(file[rec + 1])[i] = file[rec + 1][i + 1]
        <5>1. i \in 1 .. Len(Tail(file[rec + 1]))
          BY <3>5, RecordIsSeq
        <5> QED BY <3>6, <5>1, HeadTailProperties
      <4>2. i + 1 = 1 + i
        OBVIOUS
      <4> QED BY <3>1, <4>1, <4>2
    <3> QED BY <2>1, <2>3, <3>1, <3>3, <3>4, <3>7, <3>8, TakeFlows
  <2>12. CASE FillEof
    <3>1. pc = "fill" /\ chrcnt = 0 /\ ~More /\ filflg = FALSE /\ Gtceof(data, TRUE)
      BY <2>4, <2>12 DEF FillEof, FileInv
    <3>2. ~eoflag /\ n + chrcnt = rec * BUFSIZ
      BY <2>5, <3>1 DEF Place
    <3>3. rec = Len(file)
      BY <2>4, <3>1, <3>2 DEF More
    <3>4. Len(Whole) = Len(file) * BUFSIZ
      BY <2>4, WholeLaid DEF Laid
    <3>5. n = Len(Whole)
      BY <3>1, <3>2, <3>3, <3>4
    <3>6. FlowAt(n)'
      BY <2>1, <2>3, <3>1, <3>5, EndFlows, Zenon
    <3> QED BY <3>6
  <2>13. CASE PutDone
    <3>1. /\ pc = "put" /\ rest = << >> /\ pc' = "enter"
          /\ UNCHANGED <<choices, rec, dma, chrcnt, filflg, eoflag, rdma, out>>
      BY <2>13 DEF PutDone, sender, receiver
    <3>2. Packet' = Packet
      BY <3>1 DEF Packet
    <3>3. /\ Under(n)' /\ Clean(n)' /\ (n \in 0 .. Len(Whole))'
          /\ Whole' = Whole /\ file' = file /\ binary' = binary
      BY <2>3, <3>1, <3>2, UnderStays
    <3>4. Place(n)'
      BY <2>4, <2>5, <3>1, <3>3 DEF Place
    <3> QED BY <3>1, <3>3, <3>4 DEF FlowAt
  <2>14. CASE DiskFull
    <3>1. /\ pc \in {"eof", "put"} /\ pc' = "aborted"
          /\ UNCHANGED <<choices, rec, dma, chrcnt, filflg, eoflag, rdma, out>>
      BY <2>14 DEF DiskFull, sender, receiver
    <3>2. /\ Under(n)' /\ Clean(n)' /\ (n \in 0 .. Len(Whole))'
          /\ Whole' = Whole /\ file' = file /\ binary' = binary
      BY <2>3, <3>1, UnderStays
    <3>3. Place(n)'
      BY <2>5, <3>1, <3>2 DEF Place
    <3> QED BY <3>1, <3>2, <3>3 DEF FlowAt
  <2>15. CASE PutChar
    BY <2>3, <2>15, PutFlows
  <2>16. CASE PutEof
    BY <2>3, <2>16, EofFlows
  <2> QED BY <1>2, <2>6, <2>7, <2>8, <2>9, <2>10, <2>11, <2>12, <2>13, <2>14, <2>15, <2>16
          DEF Next
<1> QED BY <1>1, <1>2

\* Every byte arrives (gtchr and inbuf on one side, ptchr, outbuf and rdata's end
\* of the file on the other): at every moment the receiver has written a beginning
\* of the file's text, and when it closes the file all of it, filled up with ^Z -
\* for every file, record size, packet size and pair of quote characters, in
\* binary and ASCII mode, with and without eighth-bit quoting and parity.
THEOREM EverythingArrives == Spec => []FileArrives
<1>1. FileInv /\ FlowInv => FileArrives
  <2> SUFFICES ASSUME FileInv, FlowInv, ~HighCtrlZ PROVE Arrives
    BY DEF FileArrives
  <2>1. PICK n \in Nat : FlowAt(n)
    BY DEF FlowInv
  <2> QED BY <2>1, Beginning
<1> QED BY <1>1, FileInvInit, FileInvNext, FlowInit, FlowNext, PTL DEF Spec
===============================================================================
