----------------------------- MODULE KermitRing -----------------------------
(***************************************************************************)
(* The receive ring of CP/M-86 Kermit (kermit/c86xibm.a86): the interrupt  *)
(* routine mnproc is the producer, the main line is the consumer (instat   *)
(* then inchr) and also empties the ring (cfibf).                          *)
(*                                                                         *)
(* Granularity.  The interrupt can be taken between any two instructions   *)
(* of the main line at which interrupts are enabled.  inchr brackets its   *)
(* update with cli/sti, so it is one step; instat is one comparison;       *)
(* cfibf is three stores with interrupts enabled, so it is three steps.    *)
(* mnproc runs with interrupts off, so it is one step.                     *)
(*                                                                         *)
(* A pointer into mnchrs is its index 0..MNCHND-1.  Parity stripping in    *)
(* inchr is left out: a byte is opaque.                                    *)
(***************************************************************************)
EXTENDS Integers, Sequences

CONSTANTS
  MNCHND,  \* number of slots of the ring (256 in the code)
  Byte     \* the characters that can arrive

ASSUME RingAssumption == MNCHND \in Nat \ {0} /\ Byte # {}

VARIABLES
  mnchrs,  \* the slots
  mnchrn,  \* count of characters in the ring
  mnchip,  \* input pointer: slot last written
  mnchop,  \* output pointer: slot last read
  al,      \* the character inchr returned last
  pc,      \* where the main line is
  queue,   \* history: characters stored and neither read nor cleared
  raced    \* history: mnproc stored one inside the last cfibf, before its
           \* second store

vars == <<mnchrs, mnchrn, mnchip, mnchop, al, pc, queue, raced>>

Slots == 0..MNCHND - 1

\* Advancing a pointer: "inc bx / cmp bx, offset mnchrs+mnchnd / jb".
Advance(i) == IF i + 1 < MNCHND THEN i + 1 ELSE 0

\* mnchrs is reserved storage (rb), so its first contents are arbitrary.
Init ==
  /\ mnchrs \in [Slots -> Byte]
  /\ mnchrn = 0
  /\ mnchip = MNCHND - 1
  /\ mnchop = MNCHND - 1
  /\ al \in Byte
  /\ pc = "main"
  /\ queue = << >>
  /\ raced = FALSE

-----------------------------------------------------------------------------
(***************************************************************************)
(* Faulty forms of the steps below, each a slip the assembler would not    *)
(* notice; the mutants put one in the place of the real step.              *)
(***************************************************************************)

\* The character is fetched before the pointer is advanced.
InchrEarly ==
  /\ pc = "inchr"
  /\ mnchrn' = mnchrn - 1
  /\ mnchop' = Advance(mnchop)
  /\ al' = mnchrs[mnchop]
  /\ pc' = "main"
  /\ queue' = Tail(queue)
  /\ UNCHANGED <<mnchrs, mnchip, raced>>

\* The input pointer is not put back.
Cfibf2Missing ==
  /\ pc = "cfibf1"
  /\ pc' = "cfibf2"
  /\ UNCHANGED <<mnchrs, mnchrn, mnchip, mnchop, al, queue, raced>>

-----------------------------------------------------------------------------
\* Interrupt: a received character is stored, or dropped when the ring is
\* full.
Mnproc(b) ==
  /\ mnchrn # MNCHND
  /\ mnchrn' = mnchrn + 1
  /\ mnchip' = Advance(mnchip)
  /\ mnchrs' = [mnchrs EXCEPT ![mnchip'] = b]
  /\ queue' = Append(queue, b)
  /\ raced' = (raced \/ pc = "cfibf1")
  /\ UNCHANGED <<mnchop, al, pc>>

\* Main line: a character is available, so the caller goes on to inchr.
Instat ==
  /\ pc = "main"
  /\ mnchrn # 0
  /\ pc' = "inchr"
  /\ UNCHANGED <<mnchrs, mnchrn, mnchip, mnchop, al, queue, raced>>

\* Main line, interrupts off: take the next character.
Inchr ==
  /\ pc = "inchr"
  /\ mnchrn' = mnchrn - 1
  /\ mnchop' = Advance(mnchop)
  /\ al' = mnchrs[mnchop']
  /\ pc' = "main"
  /\ queue' = Tail(queue)
  /\ UNCHANGED <<mnchrs, mnchip, raced>>

\* Main line: the three stores of cfibf.
Cfibf1 ==
  /\ pc = "main"
  /\ mnchrn' = 0
  /\ pc' = "cfibf1"
  /\ queue' = << >>
  /\ raced' = FALSE
  /\ UNCHANGED <<mnchrs, mnchip, mnchop, al>>

Cfibf2 ==
  /\ pc = "cfibf1"
  /\ mnchip' = MNCHND - 1
  /\ pc' = "cfibf2"
  /\ UNCHANGED <<mnchrs, mnchrn, mnchop, al, queue, raced>>

Cfibf3 ==
  /\ pc = "cfibf2"
  /\ mnchop' = MNCHND - 1
  /\ pc' = "main"
  /\ UNCHANGED <<mnchrs, mnchrn, mnchip, al, queue, raced>>

Next ==
  \/ \E b \in Byte : Mnproc(b)
  \/ Instat \/ Inchr
  \/ Cfibf1 \/ Cfibf2 \/ Cfibf3

Spec == Init /\ [][Next]_vars

-----------------------------------------------------------------------------
TypeOK ==
  /\ mnchrs \in [Slots -> Byte]
  /\ mnchrn \in 0..MNCHND
  /\ mnchip \in Slots
  /\ mnchop \in Slots
  /\ al \in Byte
  /\ pc \in {"main", "inchr", "cfibf1", "cfibf2"}
  /\ queue \in Seq(Byte)
  /\ raced \in BOOLEAN

\* The slot i places after slot p.
SlotAfter(p, i) == IF p + i < MNCHND THEN p + i ELSE p + i - MNCHND

\* The pointer the next inchr will start from: the last store of cfibf is
\* still to come at "cfibf2".
ReadBase == IF pc = "cfibf2" THEN MNCHND - 1 ELSE mnchop

\* The ring holds exactly the unread characters, oldest first, between the
\* two pointers - unless an interrupt fell inside the last cfibf.
RingHoldsQueue ==
  ~raced /\ pc # "cfibf1" =>
    /\ mnchip = SlotAfter(ReadBase, mnchrn)
    /\ \A i \in 1..mnchrn : mnchrs[SlotAfter(ReadBase, i)] = queue[i]

\* instat and inchr never underflow the ring, whatever the interrupts do: the
\* count says how many characters were stored since the last clear and not
\* yet read, also after a cfibf an interrupt fell into.
CountIsUnread ==
  /\ mnchrn = Len(queue)
  /\ pc = "inchr" => mnchrn > 0

\* inchr returns the oldest unread character when no interrupt fell into the
\* last cfibf.
InchrInOrder == [][Inchr /\ ~raced => al' = Head(queue)]_vars

=============================================================================
