------------------------------ MODULE KermitFile ------------------------------
(***************************************************************************)
(* A file on its way from disk to disk: kermit/c86fil.a86, gtchr and inbuf *)
(* at the sending end, ptchr and outbuf at the receiving one, and the end  *)
(* of the file in rdata.                                                   *)
(*                                                                         *)
(* A file is a sequence of records of BUFSIZ bytes.  gtchr fills a data    *)
(* packet, quoting control characters and, when agreed, characters with    *)
(* the eighth bit; ptchr empties it.  The two take turns: KermitLink is    *)
(* what makes each packet arrive once, this module is what is in it.       *)
(***************************************************************************)
EXTENDS Integers, Sequences, SequencesExt

CONSTANTS
  BUFSIZ,      \* bytes of a record (128)
  SPSIZ,       \* spsiz: the packet size the receiving end has asked for
  QUOTE,       \* squote, rquote: '#'
  QBIN,        \* dqbin: '&'
  Chars,       \* bytes that occur in files
  MaxRecords,  \* bound: records of a file
  DiskFills    \* whether the receiver's disk may be full

Byte == 0 .. 255
CtrlZ == 26
DEL == 127

\* The quote characters are printable, and no control character is quoted into
\* one of them.
Printable == 33 .. 62 \cup 96 .. 126

ASSUME FileAssumption ==
  /\ BUFSIZ \in Nat /\ BUFSIZ > 1
  /\ SPSIZ \in 6 .. 94
  /\ QUOTE \in Printable /\ QBIN \in Printable /\ QUOTE # QBIN
  /\ Chars \subseteq Byte /\ MaxRecords \in Nat /\ DiskFills \in BOOLEAN

VARIABLES
  file,      \* the records sent, binary, qbin and parity: fixed at the start
  binary,    \* SET FILE-TYPE BINARY, or ASCII: the file ends at a ^Z
  qbin,      \* ebquot is a quote character: the ends have agreed to use it
  parity,    \* the line has seven bits
  pc,        \* gtchr entered or in its loop; ptchr; rdata's end of file
  rec,       \* records read from the file
  dma, chrcnt,       \* sender: what is left of the record; chrcnt
  filflg, eoflag,    \* nothing read yet; nothing more to read
  data, temp1,       \* the packet, and the budget of gtchr's loop
  rest,              \* what ptchr has not yet taken of the packet
  rdma,              \* receiver: the record being filled
  out                \* records written

choices == <<file, binary, qbin, parity>>
sender == <<rec, dma, chrcnt, filflg, eoflag, data, temp1>>
receiver == <<rest, rdma, out>>
vars == <<choices, pc, sender, receiver>>

-----------------------------------------------------------------------------
(***************************************************************************)
(* Quoting.                                                                *)
(***************************************************************************)

Low(c) == c % 128
Flip(c) == (c + 64) % 128

Control(c) == Low(c) < 32 \/ Low(c) = DEL

\* (faulty form of Encode: the eighth-bit prefix itself is not quoted)
EncodeBare(c, q, p) ==
  LET bit == IF c > 127 /\ ~q /\ ~p THEN 128 ELSE 0
      body == IF Control(c) THEN <<QUOTE, Flip(Low(c)) + bit>>
              ELSE IF Low(c) = QUOTE THEN <<QUOTE, Low(c) + bit>>
              ELSE <<Low(c) + bit>>
  IN IF q /\ c > 127 THEN <<QBIN>> \o body ELSE body

\* One turn of gtchr's loop: what becomes of byte c with eighth-bit quoting q
\* and parity p.  Without quoting, parity drops the eighth bit.
Encode(c, q, p) ==
  LET bit == IF c > 127 /\ ~q /\ ~p THEN 128 ELSE 0
      body == IF Control(c) THEN <<QUOTE, Flip(Low(c)) + bit>>
              ELSE IF Low(c) = QUOTE \/ (q /\ Low(c) = QBIN) THEN <<QUOTE, Low(c) + bit>>
              ELSE <<Low(c) + bit>>
  IN IF q /\ c > 127 THEN <<QBIN>> \o body ELSE body

\* rpack has put a zero behind the packet's data.
At(s, i) == IF i <= Len(s) THEN s[i] ELSE 0

\* One turn of ptchr's loop: how many characters of packet s are taken, and the
\* byte they stand for.
Prefix(s, q) == IF q /\ At(s, 1) = QBIN THEN 1 ELSE 0
Quoted(s, q) == At(s, Prefix(s, q) + 1) = QUOTE
Taken(s, q) == Prefix(s, q) + IF Quoted(s, q) THEN 2 ELSE 1
Unquote(c, q) ==
  IF Low(c) = QUOTE \/ (q /\ Low(c) = QBIN) THEN c ELSE Flip(Low(c)) + (c - Low(c))
Decode(s, q) ==
  LET c == At(s, Taken(s, q))
      v == IF Quoted(s, q) THEN Unquote(c, q) ELSE c
  IN IF Prefix(s, q) = 1 /\ v < 128 THEN v + 128 ELSE v

\* gtchr stops an ASCII file at a ^Z - and, the eighth bit being off by then when
\* it is quoted, at a ^Z with the eighth bit, whose prefix is in the packet.
IsCtrlZ(c) == IF qbin THEN Low(c) = CtrlZ ELSE c = CtrlZ
Dangling(c) == IF qbin /\ c > 127 THEN <<QBIN>> ELSE << >>

-----------------------------------------------------------------------------
Files == UNION {[1 .. n -> [1 .. BUFSIZ -> Chars]] : n \in 0 .. MaxRecords}

\* sfile and rfile have opened the file; init1.
Init ==
  /\ file \in Files
  /\ binary \in BOOLEAN /\ qbin \in BOOLEAN /\ parity \in BOOLEAN
  /\ pc = "enter"
  /\ rec = 0 /\ dma = << >> /\ chrcnt = BUFSIZ
  /\ filflg = TRUE /\ eoflag = FALSE
  /\ data = << >> /\ temp1 = 0
  /\ rest = << >> /\ rdma = << >> /\ out = << >>

-----------------------------------------------------------------------------
(***************************************************************************)
(* The sender: gtchr, inbuf.                                               *)
(***************************************************************************)

More == ~eoflag /\ rec < Len(file)

\* (faulty form of Begin: more is kept for the overhead than there is)
BeginTight == pc' = "fill" /\ data' = << >> /\ temp1' = SPSIZ - 8

\* A packet is begun: the budget leaves two places for the prefixes of its last
\* character.
Begin == pc' = "fill" /\ data' = << >> /\ temp1' = SPSIZ - 5

\* gtchr goes on with the record in the buffer.
Enter ==
  /\ pc = "enter" /\ ~filflg
  /\ Begin
  /\ UNCHANGED <<choices, rec, dma, chrcnt, filflg, eoflag, receiver>>

\* gtchr reads the first record.
EnterRead ==
  /\ pc = "enter" /\ filflg /\ More
  /\ Begin
  /\ rec' = rec + 1 /\ dma' = file[rec + 1] /\ chrcnt' = BUFSIZ
  /\ filflg' = FALSE
  /\ UNCHANGED <<choices, eoflag, receiver>>

\* There is none: the end of the file, without a packet.
EnterEof ==
  /\ pc = "enter" /\ filflg /\ ~More
  /\ pc' = "eof" /\ eoflag' = TRUE
  /\ IF eoflag THEN UNCHANGED <<filflg, chrcnt>> ELSE filflg' = FALSE /\ chrcnt' = 0
  /\ UNCHANGED <<choices, rec, dma, data, temp1, receiver>>

\* The packet goes to the other end.
Send(s) == pc' = "put" /\ rest' = s /\ UNCHANGED <<rdma, out>>

\* gtceof: what there is of a packet is sent first, and the next call finds the
\* flags.  e: inbuf has found the end.
Gtceof(s, e) ==
  /\ data' = s /\ eoflag' = (e \/ s # << >>)
  /\ IF s = << >> THEN pc' = "eof" /\ UNCHANGED <<filflg, receiver>>
                  ELSE filflg' = TRUE /\ Send(s)
  /\ UNCHANGED temp1

\* (faulty form of TakeChar: the budget is not charged for the prefixes)
TakeCharFree(c) ==
  IF IsCtrlZ(c) /\ ~binary THEN Gtceof(data \o Dangling(c), eoflag)
  ELSE /\ data' = data \o Encode(c, qbin, parity)
       /\ temp1' = temp1 - 1
       /\ UNCHANGED <<pc, filflg, eoflag, receiver>>

\* The loop's way with byte c.  (Its look ahead for trailing ^Z, gtch51, is never
\* reached: eoflag is set only when the buffer is used up.)
TakeChar(c) ==
  IF IsCtrlZ(c) /\ ~binary THEN Gtceof(data \o Dangling(c), eoflag)
  ELSE /\ data' = data \o Encode(c, qbin, parity)
       /\ temp1' = temp1 - Len(Encode(c, qbin, parity))
       /\ UNCHANGED <<pc, filflg, eoflag, receiver>>

FillFull ==
  /\ pc = "fill" /\ temp1 < 1
  /\ Send(data)
  /\ UNCHANGED <<choices, sender>>

FillChar ==
  /\ pc = "fill" /\ temp1 > 0 /\ chrcnt > 0
  /\ chrcnt' = chrcnt - 1 /\ dma' = Tail(dma)
  /\ TakeChar(Head(dma))
  /\ UNCHANGED <<choices, rec>>

\* (faulty form of FillRead: the count of a full buffer, though the first byte
\* is taken without counting)
FillReadUncounted ==
  /\ pc = "fill" /\ temp1 > 0 /\ chrcnt = 0 /\ More
  /\ rec' = rec + 1 /\ dma' = Tail(file[rec + 1]) /\ chrcnt' = BUFSIZ
  /\ TakeChar(Head(file[rec + 1]))
  /\ UNCHANGED choices

\* The next record; inbuf has counted the byte the loop goes on to take ("Fix
\* boundary error").
FillRead ==
  /\ pc = "fill" /\ temp1 > 0 /\ chrcnt = 0 /\ More
  /\ rec' = rec + 1 /\ dma' = Tail(file[rec + 1]) /\ chrcnt' = BUFSIZ - 1
  /\ TakeChar(Head(file[rec + 1]))
  /\ UNCHANGED choices

FillEof ==
  /\ pc = "fill" /\ temp1 > 0 /\ chrcnt = 0 /\ ~More
  /\ Gtceof(data, TRUE)
  /\ UNCHANGED <<choices, rec, dma, chrcnt>>

-----------------------------------------------------------------------------
(***************************************************************************)
(* The receiver: ptchr, outbuf, the end of the file in rdata.              *)
(***************************************************************************)

PutDone ==
  /\ pc = "put" /\ rest = << >>
  /\ pc' = "enter"
  /\ UNCHANGED <<choices, sender, receiver>>

Put(c) ==
  \/ Len(rdma) < BUFSIZ /\ rdma' = Append(rdma, c) /\ UNCHANGED out
  \/ Len(rdma) = BUFSIZ /\ out' = Append(out, rdma) /\ rdma' = <<c>>

PutChar ==
  /\ pc = "put" /\ rest # << >>
  /\ Put(Decode(rest, qbin))
  /\ rest' = SubSeq(rest, Taken(rest, qbin) + 1, Len(rest))
  /\ UNCHANGED <<choices, pc, sender>>

\* outbuf finds the disk full: the transfer is aborted.
DiskFull ==
  /\ DiskFills
  /\ pc = "eof" \/ (pc = "put" /\ rest # << >> /\ Len(rdma) = BUFSIZ)
  /\ pc' = "aborted"
  /\ UNCHANGED <<choices, sender, receiver>>

Padded(s) == s \o [i \in 1 .. BUFSIZ - Len(s) |-> CtrlZ]

\* The last record is filled up with ^Z and written; also the first of an empty
\* file.
PutEof ==
  /\ pc = "eof" /\ pc' = "done"
  /\ out' = Append(out, Padded(rdma))
  /\ rdma' = << >>
  /\ UNCHANGED <<choices, sender, rest>>

Next ==
  \/ Enter \/ EnterRead \/ EnterEof
  \/ FillFull \/ FillChar \/ FillRead \/ FillEof
  \/ PutChar \/ PutDone \/ DiskFull \/ PutEof

Spec == Init /\ [][Next]_vars

\* Neither end waits for anything but the other.
FairSpec == Spec /\ WF_vars(Next)

-----------------------------------------------------------------------------
(***************************************************************************)
(* Properties.                                                             *)
(***************************************************************************)

TypeOK ==
  /\ pc \in {"enter", "fill", "put", "eof", "done", "aborted"}
  /\ rec \in 0 .. Len(file) /\ chrcnt \in 0 .. BUFSIZ
  /\ dma \in Seq(Byte) /\ (pc = "fill" => Len(dma) = chrcnt)
  /\ temp1 \in Int /\ filflg \in BOOLEAN /\ eoflag \in BOOLEAN
  /\ data \in Seq(Byte) /\ rest \in Seq(Byte) /\ rdma \in Seq(Byte)
  /\ out \in Seq([1 .. BUFSIZ -> Byte])

\* A data packet - LEN, number, type, data and checksum - is never longer than the
\* size the other end has asked for, although a prefixed character is put in
\* whole when one place is left.
PacketFits == Len(data) + 3 <= SPSIZ

\* No data packet is empty ("fix ASCII extra buffers at eof").
NoEmptyPacket == pc = "put" => data # << >>

\* What the file is on the other side: all of it, or in ASCII mode what is before
\* the first ^Z; without eighth bits if the line has none and they are not quoted.
Line(c, q, p) == IF c > 127 /\ p /\ ~q THEN c - 128 ELSE c
Text(s) == IF binary \/ CtrlZ \notin ToSet(s) THEN s
           ELSE SubSeq(s, 1, SelectInSeq(s, LAMBDA c : c = CtrlZ) - 1)
Sent == LET s == Text(FlattenSeq(file)) IN [i \in DOMAIN s |-> Line(s[i], qbin, parity)]

Written == FlattenSeq(out) \o rdma

\* At every moment the receiver has a beginning of the file, and at the end all
\* of it, filled up with ^Z to a record (an empty file becomes a record of ^Z).
Arrives ==
  /\ pc # "done" => IsPrefix(Written, Sent)
  /\ pc = "done" => \E n \in 0 .. BUFSIZ :
       /\ Written = Sent \o [i \in 1 .. n |-> CtrlZ]
       /\ n = BUFSIZ => Sent = << >>

\* So it is unless an ASCII file with eighth-bit quoting holds a ^Z with the
\* eighth bit.
HighCtrlZ == ~binary /\ qbin /\ \E i \in DOMAIN file : 128 + CtrlZ \in ToSet(file[i])
FileArrives == ~HighCtrlZ => Arrives

\* The file ends: the two ends reach its last record, or the disk is full.
Ends == <>(pc \in {"done", "aborted"})
===============================================================================
