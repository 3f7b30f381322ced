------------------------------ MODULE KermitLink ------------------------------
(***************************************************************************)
(* The Kermit protocol automaton of kermit/c86pro.a86: one end runs the    *)
(* SEND command, the other the RECEIVE command (both are this program),    *)
(* over a serial line that loses and damages packets.                      *)
(*                                                                         *)
(* Each handler of the source (sinit, sfile, ... rinit, rfile, rdata)      *)
(* waits in rpack for one packet, so it is cut there in two: what it does  *)
(* before the wait, ending with wait = TRUE, and what it does with the     *)
(* packet, the time-out or the key that ends the wait.                     *)
(*                                                                         *)
(* Data.  A file is its place in the sorted send list, a data packet       *)
(* carries one chunk of a file, named by file and position; quoting,       *)
(* records and names are not modelled here.  A damaged packet fails its    *)
(* checksum.  rpack ends by emptying the receive ring (cfibf), so taking   *)
(* a packet may also drop any number of the packets behind it: the ones    *)
(* that had already arrived.                                               *)
(***************************************************************************)
EXTENDS Integers, Sequences

CONSTANTS
  PKTMOD,      \* packet numbers are modulo this (64)
  MAXTRY,      \* maxtry: tries of a packet (5)
  IMXTRY,      \* imxtry: tries of the send-init packet (16)
  FileLen,     \* number of chunks of each file of the send list
  Lossy,       \* directions of the line that lose and damage packets
  MaxFaults,   \* bound: packets lost or damaged
  Timers,      \* ends whose user waits out a silent line (SET TIMER ON, or
               \* a carriage return typed)
  MaxEarly,    \* bound: time-outs while a packet is still under way
  Keys,        \* keys the two users may press: "X", "Z" (file or batch
               \* interruption), "C" (abort)
  MaxKeys,     \* bound: keys pressed
  Echo,        \* ends whose packets the other host echoes back
  DiskFills    \* whether the receiver's disk may be full

Ends == {"snd", "rcv"}
Files == DOMAIN FileLen

\* A packet has too few tries for the packet numbers to come round meanwhile.
ASSUME LinkAssumption ==
  /\ PKTMOD \in Nat /\ MAXTRY \in Nat \ {0} /\ IMXTRY \in Nat \ {0}
  /\ MAXTRY + 2 < PKTMOD /\ IMXTRY + 2 < PKTMOD
  /\ FileLen \in Seq(Nat) /\ FileLen # << >>
  /\ Lossy \subseteq Ends /\ Timers \subseteq Ends /\ Echo \subseteq Ends
  /\ MaxFaults \in Nat /\ MaxEarly \in Nat /\ MaxKeys \in Nat
  /\ Keys \subseteq {"X", "Z", "C"}
  /\ DiskFills \in BOOLEAN

VARIABLES
  snd,     \* the sending end
  rcv,     \* the receiving end
  disk,    \* the receiver's files
  line,    \* line[e]: packets under way to end e, oldest first
  faults, early, keys,  \* what has been used of the three bounds
  skipped  \* history: the sender took a NAK for an acknowledgement

vars == <<snd, rcv, disk, line, faults, early, keys, skipped>>

None == ""
NoChunk == <<0, 0>>

Packet(type, num) == [type |-> type, num |-> num, item |-> NoChunk, flag |-> None]
Damaged == Packet("bad", 0)
ErrorPacket == Packet("E", 0)

After(n) == (n + 1) % PKTMOD
Before(n) == IF n = 0 THEN PKTMOD - 1 ELSE n - 1

-----------------------------------------------------------------------------
(***************************************************************************)
(* The line.                                                               *)
(***************************************************************************)

Peer(e) == IF e = "snd" THEN "rcv" ELSE "snd"

Running(e) == (IF e = "snd" THEN snd.state ELSE rcv.state) \notin {"A", "C"}

\* What may be left of a queue when its first n packets are gone and cfibf
\* has dropped those that had arrived behind them.
Leftovers(q, n) == {SubSeq(q, k, Len(q)) : k \in n + 1 .. Len(q) + 1}

\* End e has packet p put on the line (spack) when rest is what is left of its
\* own incoming queue.  An end that has stopped reads no more; the next command
\* will begin with cfibf.
Transmit(e, p, rest) ==
  line' = [line EXCEPT
             ![Peer(e)] = IF Running(Peer(e)) THEN Append(@, p) ELSE @,
             ![e] = IF e \in Echo THEN Append(rest, p) ELSE rest]

Leave(e, rest) == line' = [line EXCEPT ![e] = rest]

Arrived(e) == Head(line[e])

-----------------------------------------------------------------------------
(***************************************************************************)
(* Initial state: "send" and "read" up to their main loops.                *)
(***************************************************************************)
Init ==
  /\ snd = [state |-> "S", wait |-> FALSE, pktnum |-> 0, numtry |-> 0,
            cxzflg |-> None, file |-> 1, chunk |-> 0]
  /\ rcv = [state |-> "R", wait |-> FALSE, pktnum |-> 0, numtry |-> 0,
            oldtry |-> 0, cxzflg |-> None, file |-> 0, last |-> None]
  /\ disk = [f \in Files |-> [status |-> "absent", chunks |-> << >>]]
  /\ line = [e \in Ends |-> << >>]
  /\ faults = 0 /\ early = 0 /\ keys = 0
  /\ skipped = FALSE

bounds == <<faults, early, keys>>

-----------------------------------------------------------------------------
(***************************************************************************)
(* Sender.                                                                 *)
(***************************************************************************)

\* abort (and fatal, error): an error packet, then the abort state.
SAbort(rest) ==
  /\ Transmit("snd", ErrorPacket, rest)
  /\ snd' = [snd EXCEPT !.state = "A", !.wait = FALSE]
  /\ UNCHANGED <<rcv, disk, bounds, skipped>>

Tries == IF snd.state = "S" THEN IMXTRY ELSE MAXTRY

\* The packet each state sends.
SPacket ==
  CASE snd.state = "S" -> Packet("S", 0)
    [] snd.state = "F" -> [Packet("F", snd.pktnum) EXCEPT !.item = <<snd.file, 0>>]
    [] snd.state = "D" -> [Packet("D", snd.pktnum) EXCEPT !.item = <<snd.file, snd.chunk>>]
    [] snd.state = "Z" -> [Packet("Z", snd.pktnum) EXCEPT
                             !.flag = IF snd.cxzflg = None THEN None ELSE "D"]
    [] snd.state = "B" -> Packet("B", snd.pktnum)

\* sdata sees an interruption and gives up the file.
SInterrupted ==
  /\ snd.state = "D" /\ ~snd.wait
  /\ snd.cxzflg # None
  /\ snd' = [snd EXCEPT !.state = "Z"]
  /\ UNCHANGED <<rcv, disk, line, bounds, skipped>>

SReady ==
  /\ snd.state \in {"S", "F", "D", "Z", "B"} /\ ~snd.wait
  /\ ~(snd.state = "D" /\ snd.cxzflg # None)

\* (faulty form of STry: the try is not counted)
STryUncounted ==
  /\ SReady /\ snd.numtry < Tries
  /\ snd' = [snd EXCEPT !.wait = TRUE]
  /\ Transmit("snd", SPacket, line["snd"])
  /\ UNCHANGED <<rcv, disk, bounds, skipped>>

\* First half of sinit, sfile, sdata, seof and seot: count the try and send.
\* sfile clears the interruption flag, on every try.
STry ==
  /\ SReady
  /\ snd.numtry < Tries
  /\ snd' = [snd EXCEPT !.wait = TRUE, !.numtry = @ + 1,
                        !.cxzflg = IF snd.state = "F" THEN None ELSE @]
  /\ Transmit("snd", SPacket, line["snd"])
  /\ UNCHANGED <<rcv, disk, bounds, skipped>>

SGiveUp ==
  /\ SReady
  /\ snd.numtry >= Tries
  /\ SAbort(line["snd"])

\* (faulty form of SNext: the last chunk of a file is forgotten)
SNextShort(n, flag) ==
  LET base == [snd EXCEPT !.wait = FALSE, !.pktnum = n, !.numtry = 0]
      chunk == IF snd.chunk + 1 < FileLen[snd.file]
               THEN [base EXCEPT !.state = "D", !.chunk = @ + 1]
               ELSE [base EXCEPT !.state = "Z"]
  IN CASE snd.state = "S" -> [base EXCEPT !.state = "F"]
       [] snd.state \in {"F", "D"} -> chunk
       [] snd.state = "Z" -> IF snd.file = Len(FileLen) THEN [base EXCEPT !.state = "B"]
                             ELSE [base EXCEPT !.state = "F", !.file = @ + 1, !.chunk = 0]
       [] snd.state = "B" -> [base EXCEPT !.state = "C"]

\* What an accepted packet leads to, the sender then being at number n:
\* gtchr's next chunk, the end of the file, the next file, the end.
SNext(n, flag) ==
  LET base == [snd EXCEPT !.wait = FALSE, !.pktnum = n, !.numtry = 0]
      more == snd.chunk < FileLen[snd.file]
      chunk == IF more THEN [base EXCEPT !.state = "D", !.chunk = @ + 1]
                       ELSE [base EXCEPT !.state = "Z"]
      last == snd.cxzflg = "Z" \/ snd.file = Len(FileLen)
  IN CASE snd.state = "S" -> [base EXCEPT !.state = "F"]
       [] snd.state = "F" -> chunk
       [] snd.state = "D" -> IF flag # None THEN [base EXCEPT !.cxzflg = flag]
                                            ELSE chunk
       [] snd.state = "Z" -> IF last THEN [base EXCEPT !.state = "B"]
                             ELSE [base EXCEPT !.state = "F", !.file = @ + 1,
                                               !.chunk = 0, !.cxzflg = None]
       [] snd.state = "B" -> [base EXCEPT !.state = "C"]

SWaits == snd.wait /\ line["snd"] # << >>

\* rpack skips a packet of the type last sent: an echo.
SEcho ==
  /\ SWaits /\ Arrived("snd").type = snd.state
  /\ Leave("snd", Tail(line["snd"]))
  /\ UNCHANGED <<snd, rcv, disk, bounds, skipped>>

\* (faulty form of SAck: a NAK of the present number counts as well)
SAckOrNak(rest) ==
  /\ SWaits
  /\ Arrived("snd").type \in {"Y", "N"} /\ Arrived("snd").num = snd.pktnum
  /\ snd' = SNext(After(snd.pktnum), Arrived("snd").flag)
  /\ Leave("snd", rest)
  /\ UNCHANGED <<rcv, disk, bounds, skipped>>

SAck(rest) ==
  /\ SWaits
  /\ Arrived("snd").type = "Y" /\ Arrived("snd").num = snd.pktnum
  /\ snd' = SNext(After(snd.pktnum), Arrived("snd").flag)
  /\ Leave("snd", rest)
  /\ UNCHANGED <<rcv, disk, bounds, skipped>>

\* A NAK of the number after the present one counts as an acknowledgement.
\* chkpom leaves that number in AX and incpkt increments AX.
SNakOfNext(rest) ==
  /\ SWaits /\ snd.state # "S"
  /\ Arrived("snd").type = "N" /\ Arrived("snd").num = After(snd.pktnum)
  /\ snd' = SNext(After(After(snd.pktnum)), None)
  /\ skipped' = TRUE
  /\ Leave("snd", rest)
  /\ UNCHANGED <<rcv, disk, bounds>>

\* A damaged answer, an acknowledgement or a NAK of some other number: the
\* state is kept and the packet sent again.
SRetry(rest) ==
  /\ SWaits
  /\ LET p == Arrived("snd") IN
       \/ p = Damaged
       \/ p.type = "Y" /\ p.num # snd.pktnum
       \/ p.type = "N" /\ (snd.state = "S" \/ p.num # After(snd.pktnum))
  /\ snd' = [snd EXCEPT !.wait = FALSE]
  /\ Leave("snd", rest)
  /\ UNCHANGED <<rcv, disk, bounds, skipped>>

\* An error packet, or one that is no answer.
SError(rest) ==
  /\ SWaits
  /\ Arrived("snd").type \notin {"Y", "N", "bad", snd.state}
  /\ SAbort(rest)

-----------------------------------------------------------------------------
(***************************************************************************)
(* Receiver.                                                               *)
(***************************************************************************)

RAbort(rest) ==
  /\ Transmit("rcv", ErrorPacket, rest)
  /\ rcv' = [rcv EXCEPT !.state = "A", !.wait = FALSE, !.last = "E"]
  /\ UNCHANGED <<snd, bounds, skipped>>

\* Reply with packet p and return to the loop with the record r.
Reply(r, p, rest) ==
  /\ rcv' = [r EXCEPT !.wait = FALSE, !.last = p.type]
  /\ Transmit("rcv", p, rest)
  /\ UNCHANGED <<snd, bounds, skipped>>

Nak(r, rest) == Reply(r, Packet("N", rcv.pktnum), rest)

\* (faulty form of Upack: no return to zero after the last number)
UpackNoWrap(r, p, rest) ==
  Reply([r EXCEPT !.oldtry = rcv.numtry, !.numtry = 0, !.pktnum = rcv.pktnum + 1],
        p, rest)

\* upack: the tries of this packet become those of the previous one.
Upack(r, p, rest) ==
  Reply([r EXCEPT !.oldtry = rcv.numtry, !.numtry = 0, !.pktnum = After(rcv.pktnum)],
        p, rest)

\* Common start of rinit, rfile and rdata.
RTry ==
  /\ rcv.state \in {"R", "F", "D"} /\ ~rcv.wait
  /\ rcv.numtry < (IF rcv.state = "R" THEN IMXTRY ELSE MAXTRY)
  /\ rcv' = [rcv EXCEPT !.wait = TRUE, !.numtry = @ + 1]
  /\ UNCHANGED <<snd, disk, line, bounds, skipped>>

RGiveUp ==
  /\ rcv.state \in {"R", "F", "D"} /\ ~rcv.wait
  /\ rcv.numtry >= (IF rcv.state = "R" THEN IMXTRY ELSE MAXTRY)
  /\ RAbort(line["rcv"])
  /\ UNCHANGED disk

RWaits == rcv.wait /\ line["rcv"] # << >>

REcho ==
  /\ RWaits /\ Arrived("rcv").type = rcv.last
  /\ Leave("rcv", Tail(line["rcv"]))
  /\ UNCHANGED <<snd, rcv, disk, bounds, skipped>>

\* The next packet is one of these types, and no echo.
RGets(states, types) ==
  /\ RWaits /\ rcv.state \in states
  /\ Arrived("rcv").type \in types \ {rcv.last}

RBad(rest) ==
  /\ RGets({"R", "F", "D"}, {"bad"})
  /\ Nak(rcv, rest)
  /\ UNCHANGED disk

\* rinit takes the send-init packet, whatever its number.
RInit(rest) ==
  /\ RGets({"R"}, {"S"})
  /\ LET n == Arrived("rcv").num IN
       Reply([rcv EXCEPT !.state = "F", !.oldtry = rcv.numtry, !.numtry = 0,
                         !.pktnum = After(n)],
             Packet("Y", n), rest)
  /\ UNCHANGED disk

Expected == Arrived("rcv").num = rcv.pktnum

\* A packet that must carry the expected number and does not.
RUnexpected(rest) ==
  /\ RGets({"F"}, {"F", "B"}) \/ RGets({"D"}, {"Z"})
  /\ ~Expected
  /\ Nak(rcv, rest)
  /\ UNCHANGED disk

\* chkpol returns without skipping when the number IS the previous one, and
\* its callers take that return for a wrong number.
ChkpolSkips == Arrived("rcv").num # Before(rcv.pktnum)

\* A packet that belongs to the previous state: send-init or end-of-file when
\* a file header is due, a file header or data of another number in a file.
RPrevious(rest) ==
  /\ \/ RGets({"F"}, {"S", "Z"})
     \/ RGets({"D"}, {"F"})
     \/ RGets({"D"}, {"D"}) /\ ~Expected
  /\ LET tries == IF Arrived("rcv").type = "S" THEN IMXTRY ELSE MAXTRY
         r == [rcv EXCEPT !.oldtry = @ + 1]
     IN CASE rcv.oldtry >= tries -> RAbort(rest)
          [] rcv.oldtry < tries /\ ChkpolSkips ->
               Reply([r EXCEPT !.numtry = 0], Packet("Y", Arrived("rcv").num), rest)
          [] rcv.oldtry < tries /\ ~ChkpolSkips -> Nak(r, rest)
  /\ UNCHANGED disk

\* rfile opens the file of a file header (gofil), or finds the disk full.
RFile(rest) ==
  /\ RGets({"F"}, {"F"}) /\ Expected
  /\ LET f == Arrived("rcv").item[1] IN
       \/ /\ Upack([rcv EXCEPT !.state = "D", !.file = f],
                   Packet("Y", rcv.pktnum), rest)
          /\ disk' = [disk EXCEPT ![f] = [status |-> "open", chunks |-> << >>]]
       \/ DiskFills /\ RAbort(rest) /\ UNCHANGED disk

\* rfile sees the end of the transmission.
RBreak(rest) ==
  /\ RGets({"F"}, {"B"}) /\ Expected
  /\ Reply([rcv EXCEPT !.state = "C"], Packet("Y", rcv.pktnum), rest)
  /\ UNCHANGED disk

\* (faulty form of RData: a packet of any number is written)
RDataAnyNumber(rest) ==
  /\ RGets({"D"}, {"D"})
  /\ Upack(rcv, Packet("Y", Arrived("rcv").num), rest)
  /\ disk' = [disk EXCEPT ![rcv.file].chunks = Append(@, Arrived("rcv").item)]

\* (faulty form of RData: ptchr's failure is not looked at)
RDataUnchecked(rest) ==
  /\ RGets({"D"}, {"D"}) /\ Expected
  /\ Upack(rcv, Packet("Y", rcv.pktnum), rest)
  /\ \/ disk' = [disk EXCEPT ![rcv.file].chunks = Append(@, Arrived("rcv").item)]
     \/ DiskFills /\ UNCHANGED disk

\* rdata writes the chunk (ptchr) - or, interrupted, answers with the flag
\* and does not write.
RData(rest) ==
  /\ RGets({"D"}, {"D"}) /\ Expected
  /\ IF rcv.cxzflg = None
     THEN \/ /\ Upack(rcv, Packet("Y", rcv.pktnum), rest)
             /\ disk' = [disk EXCEPT ![rcv.file].chunks = Append(@, Arrived("rcv").item)]
          \/ DiskFills /\ RAbort(rest) /\ UNCHANGED disk
     ELSE /\ Upack(rcv, [Packet("Y", rcv.pktnum) EXCEPT !.flag = rcv.cxzflg], rest)
          /\ UNCHANGED disk

\* (faulty form of REof: the interruption flag is cleared whatever it is)
REofForgets(rest) ==
  /\ RGets({"D"}, {"Z"}) /\ Expected
  /\ Upack([rcv EXCEPT !.state = "F", !.cxzflg = None], Packet("Y", rcv.pktnum), rest)
  /\ disk' = [disk EXCEPT ![rcv.file] =
       IF rcv.cxzflg = None THEN [@ EXCEPT !.status = "kept"]
                            ELSE [status |-> "deleted", chunks |-> << >>]]

\* rdata ends the file.  Its own interruption deletes it; the test of the
\* packet's discard flag is followed by an unconditional jump (jmp rdat3b),
\* so a discarded file is closed and kept.
REof(rest) ==
  /\ RGets({"D"}, {"Z"}) /\ Expected
  /\ IF rcv.cxzflg = None
     THEN \/ /\ Upack([rcv EXCEPT !.state = "F"], Packet("Y", rcv.pktnum), rest)
             /\ disk' = [disk EXCEPT ![rcv.file].status = "kept"]
          \/ DiskFills /\ RAbort(rest) /\ UNCHANGED disk
     ELSE /\ Upack([rcv EXCEPT !.state = "F",
                               !.cxzflg = IF @ = "X" THEN None ELSE @],
                   Packet("Y", rcv.pktnum), rest)
          /\ disk' = [disk EXCEPT ![rcv.file] = [status |-> "deleted", chunks |-> << >>]]

\* An error packet, or a type the state has no use for.
RError(rest) ==
  /\ \/ RGets({"R"}, {"F", "D", "Z", "B", "E", "Y", "N"})
     \/ RGets({"F"}, {"D", "E", "Y", "N"})
     \/ RGets({"D"}, {"S", "B", "E", "Y", "N"})
  /\ RAbort(rest)
  /\ UNCHANGED disk

-----------------------------------------------------------------------------
(***************************************************************************)
(* Time-outs, keys and the line's faults.                                  *)
(***************************************************************************)

\* Nothing is under way to an end that still reads its line.
Silent == \A e \in Ends : Running(e) => line[e] = << >>

\* The wait ends by the timer or by a carriage return (rptimo).  While a packet
\* is under way this is an early time-out, and these are bounded.
MayTimeOut(e) ==
  /\ e \in Timers
  /\ \/ Silent /\ UNCHANGED early
     \/ ~Silent /\ early < MaxEarly /\ early' = early + 1

STimeOut(rest) ==
  /\ snd.wait /\ MayTimeOut("snd")
  /\ snd' = [snd EXCEPT !.wait = FALSE]
  /\ Leave("snd", rest)
  /\ UNCHANGED <<rcv, disk, faults, keys, skipped>>

RTimeOut(rest) ==
  /\ rcv.wait /\ MayTimeOut("rcv")
  /\ rcv' = [rcv EXCEPT !.wait = FALSE, !.last = "N"]
  /\ Transmit("rcv", Packet("N", rcv.pktnum), rest)
  /\ UNCHANGED <<snd, disk, faults, keys, skipped>>

\* kabort, polled in the wait: ^X and ^Z set the flag, ^C aborts.
SKey(k) ==
  /\ snd.wait /\ keys < MaxKeys /\ keys' = keys + 1
  /\ IF k = "C"
     THEN /\ snd' = [snd EXCEPT !.state = "A", !.wait = FALSE]
          /\ Transmit("snd", ErrorPacket, line["snd"])
     ELSE snd' = [snd EXCEPT !.cxzflg = k] /\ UNCHANGED line
  /\ UNCHANGED <<rcv, disk, faults, early, skipped>>

RKey(k) ==
  /\ rcv.wait /\ keys < MaxKeys /\ keys' = keys + 1
  /\ IF k = "C"
     THEN /\ rcv' = [rcv EXCEPT !.state = "A", !.wait = FALSE, !.last = "E"]
          /\ Transmit("rcv", ErrorPacket, line["rcv"])
     ELSE rcv' = [rcv EXCEPT !.cxzflg = k] /\ UNCHANGED line
  /\ UNCHANGED <<snd, disk, faults, early, skipped>>

Fault(e, q) ==
  /\ e \in Lossy /\ faults < MaxFaults /\ faults' = faults + 1
  /\ line' = [line EXCEPT ![e] = q]
  /\ UNCHANGED <<snd, rcv, disk, early, keys, skipped>>

Lose(e) == \E i \in 1..Len(line[e]) :
  Fault(e, SubSeq(line[e], 1, i - 1) \o SubSeq(line[e], i + 1, Len(line[e])))

Damage(e) == \E i \in 1..Len(line[e]) :
  line[e][i] # Damaged /\ Fault(e, [line[e] EXCEPT ![i] = Damaged])

-----------------------------------------------------------------------------
SAnswer == \E rest \in Leftovers(line["snd"], 1) :
  SAck(rest) \/ SNakOfNext(rest) \/ SRetry(rest) \/ SError(rest)

RAnswer == \E rest \in Leftovers(line["rcv"], 1) :
  \/ RBad(rest) \/ RInit(rest) \/ RUnexpected(rest) \/ RPrevious(rest)
  \/ RFile(rest) \/ RBreak(rest) \/ RData(rest) \/ REof(rest) \/ RError(rest)

SStep == SInterrupted \/ STry \/ SGiveUp \/ SEcho \/ SAnswer
RStep == RTry \/ RGiveUp \/ REcho \/ RAnswer
SWaitEnds == \E rest \in Leftovers(line["snd"], 0) : STimeOut(rest)
RWaitEnds == \E rest \in Leftovers(line["rcv"], 0) : RTimeOut(rest)

Next ==
  \/ SStep \/ RStep \/ SWaitEnds \/ RWaitEnds
  \/ \E k \in Keys : SKey(k) \/ RKey(k)
  \/ \E e \in Ends : Lose(e) \/ Damage(e)

Spec == Init /\ [][Next]_vars

\* The main loops run on, and a wait on a silent line is ended.
FairSpec ==
  /\ Spec
  /\ WF_vars(SStep) /\ WF_vars(RStep) /\ WF_vars(SWaitEnds) /\ WF_vars(RWaitEnds)

-----------------------------------------------------------------------------
(***************************************************************************)
(* Properties.                                                             *)
(***************************************************************************)

Types == {"S", "F", "D", "Z", "B", "Y", "N", "E", "bad"}
Flags == {None, "X", "Z", "D"}
Chunks == (Files \X Nat) \cup {NoChunk}
MostTries == IF IMXTRY > MAXTRY THEN IMXTRY ELSE MAXTRY
Packets == [type : Types, num : 0 .. PKTMOD - 1, item : Chunks, flag : Flags]

SndType == [state : {"S", "F", "D", "Z", "B", "C", "A"}, wait : BOOLEAN,
            pktnum : 0 .. PKTMOD - 1, numtry : 0 .. MostTries,
            cxzflg : {None, "X", "Z"}, file : Files, chunk : Nat]
RcvType == [state : {"R", "F", "D", "C", "A"}, wait : BOOLEAN,
            pktnum : 0 .. PKTMOD - 1, numtry : 0 .. MostTries, oldtry : 0 .. MostTries,
            cxzflg : {None, "X", "Z"}, file : Files \cup {0}, last : {None, "Y", "N", "E"}]
FileType == [status : {"absent", "open", "kept", "deleted"}, chunks : Seq(Chunks)]

\* Numbers stay below PKTMOD, tries within their limits, and the line holds
\* well-formed packets.
TypeOK ==
  /\ snd \in SndType /\ rcv \in RcvType
  /\ disk \in [Files -> FileType]
  /\ line \in [Ends -> Seq(Packets)]
  /\ faults \in 0 .. MaxFaults /\ early \in 0 .. MaxEarly /\ keys \in 0 .. MaxKeys
  /\ skipped \in BOOLEAN

Interrupted == Keys \cap {"X", "Z"} # {}

\* What the receiver has of a file is a beginning of it: no chunk is lost,
\* doubled or out of place, whatever the line does, and also after the sender
\* has run ahead by taking a NAK for an acknowledgement (SNakOfNext): the
\* receiver then acknowledges data it drops, but gives up (oldtry, maxtry)
\* before the numbers come round.
FilesAreBeginnings ==
  \A f \in Files : \A i \in DOMAIN disk[f].chunks :
                disk[f].chunks[i] = <<f, i>>

\* A file the receiver closes and keeps is the whole file.
KeptIsWhole ==
  ~Interrupted => \A f \in Files :
    disk[f].status = "kept" => Len(disk[f].chunks) = FileLen[f]

\* The two packet numbers never part: the sender is at the receiver's number or
\* at the one before, which is what chkpeq and chkpol can tell apart.  Two
\* things part them: SNakOfNext, and the sender's user, whose ^X or ^Z turns data
\* into an end of file of the same number (SInterrupted), so that the answer to
\* the one is taken for the answer to the other.
NumbersTogether ==
  ~skipped /\ ~Interrupted /\
  snd.state \notin {"A", "C"} /\ rcv.state \notin {"R", "A", "C"} =>
    snd.pktnum \in {rcv.pktnum, Before(rcv.pktnum)}

\* The sender reports completion only if the receiver has completed too and
\* every file was closed or, at the receiver's request, deleted.
SenderDoneMeansAllDone ==
  snd.state = "C" =>
    /\ rcv.state = "C"
    /\ \A f \in Files :
         disk[f].status \in IF Interrupted THEN {"kept", "deleted", "absent"} ELSE {"kept"}

\* A receiver interrupted by its user keeps no file, and of a group none of the
\* files that follow.
ReceiverInterrupt ==
  [][rcv.cxzflg # None =>
       /\ \A f \in Files : disk'[f].status = "kept" => disk[f].status = "kept"
       /\ rcv.cxzflg = "Z" => rcv'.cxzflg # None]_vars

\* When only packets towards the receiver are lost or damaged, fewer of them
\* than a packet has tries, and the sender's wait is timed out, the transfer is
\* the error-free one: each step is a step of KermitTransfer or none, and it
\* completes.
Transfer == INSTANCE KermitTransfer WITH
  done <- {e \in Ends : (IF e = "snd" THEN snd.state ELSE rcv.state) = "C"}
ErrorFree == Transfer!Spec

\* Both ends stop, complete or aborted, whatever is lost.
BothStop == <>(snd.state \in {"A", "C"} /\ rcv.state \in {"A", "C"})

\* "is it D as in Discard?" (rdata): a file whose end of file carries the discard
\* flag is not kept.
DiscardIsObeyed == [][\A f \in Files :
  disk[f].status = "open" /\ disk'[f].status = "kept" =>
    Arrived("rcv").flag # "D"]_vars
=============================================================================
