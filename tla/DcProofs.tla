------------------------------ MODULE DcProofs ------------------------------
(***************************************************************************)
(* Proofs about DcMachine: whatever is typed, for tables of every size,    *)
(* stkerr is set only when the stack is empty, no level that has ended is  *)
(* left below another, registers, arrays and stack refer to blocks that    *)
(* are alive as long as nothing has spoiled one (spoiled), and the entries *)
(* of the symbol table are all accounted for.                              *)
(***************************************************************************)
EXTENDS DcMachine, FiniteSetTheorems, SequenceTheorems, TLAPS

\* What a character is, what a value is, and one with a block that is alive.
Char == Console \cup {"nop"}
Flats == [kind : {"num", "str", "some", "bytes", "none", "freed"}, n : Int, body : Seq(Char)]
Rows == [kind : {"row"}, e : Flats, length : {"full", "longer", "odd"}]
Value == Flats \cup Rows
LiveFlats == {v \in Flats : v.kind \notin {"none", "freed"}}
Live == LiveFlats \cup {v \in Rows : v.e \in LiveFlats}

\* What is on the stack and in a register that does not hold arrays as long as nothing is
\* spoiled, and after; and what is in one that does.
Held == IF spoiled THEN Value ELSE Live
HeldRows == IF spoiled THEN Value
            ELSE {v \in Rows : v.e \in LiveFlats \/ (v.e = Nothing /\ v.length = "odd")}
Kept(x) == IF x \in Arrays THEN HeldRows ELSE Held

\* A stack with its flag; input levels of which only the top one may have ended.
StackRight(s, e, V) == s \in Seq(V) /\ Len(s) <= STKSZ /\ e \in BOOLEAN /\ (e => s = << >>)
Levels(rs) == rs \in Seq(Seq(Char)) /\ \A i \in 1 .. Len(rs) - 1 : rs[i] # << >>

\* The inductive invariant.
DcInv ==
  /\ spoiled \in BOOLEAN /\ sfree \in Nat
  /\ StackRight(stack, stkerr, Held)
  /\ regs \in [Registers -> Seq(Value)]
  /\ \A x \in Registers : regs[x] \in Seq(Kept(x))
  /\ Levels(readstk)
  /\ EntriesCounted

-----------------------------------------------------------------------------
(***************************************************************************)
(* Values.                                                                 *)
(***************************************************************************)

\* Numbers, strings and results are alive; the marks for no block and for a
\* released one are values that are not.
LEMMA LiveValues ==
  /\ \A n \in Int : Num(n) \in Live
  /\ \A s \in Seq(Char) : Str(s) \in Live
  /\ Some \in Live /\ Bytes \in Live
  /\ Nothing \in Flats \ Live /\ Freed \in Flats \ Live
<1>1. << >> \in Seq(Char) OBVIOUS
<1> QED BY <1>1 DEF Live, LiveFlats, Flats, Rows, Num, Str, Some, Bytes, Nothing, Freed

\* A result of arithmetic is alive.
LEMMA ClipLive == ASSUME NEW n \in Int PROVE Clip(n) \in Live
BY LiveValues DEF Clip

\* And so is that of two operands.
LEMMA BothLive ==
  ASSUME NEW p, NEW q, NEW n, p.kind = "num" /\ q.kind = "num" => n \in Int
  PROVE  Both(p, q, n) \in Live
BY LiveValues, ClipLive DEF Both

\* What is held has a number or a body.
LEMMA HeldParts ==
  ASSUME spoiled \in BOOLEAN
  PROVE  /\ Live \subseteq Held /\ Held \subseteq Value
         /\ \A x : Kept(x) \subseteq Value
         /\ \A v \in Value : v.kind = "num" => v.n \in Int
         /\ \A v \in Value : v.kind = "str" => v.body \in Seq(Char)
BY DEF Held, HeldRows, Kept, Live, LiveFlats, Value, Flats, Rows

\* A copy of what is held, byte by byte, has no elements.
LEMMA FlatCopy ==
  ASSUME spoiled \in BOOLEAN, NEW v \in Held
  PROVE  Flat(v) \in Held /\ Flat(v) \in Flats /\ (~spoiled => Flat(v) \in LiveFlats)
<1>1. Bytes \in Live /\ Bytes \in LiveFlats /\ Bytes \in Flats
  BY LiveValues DEF Bytes, Live, Rows, LiveFlats, Flats
<1> QED BY <1>1 DEF Flat, Held, Value, Live, LiveFlats, Flats, Rows

-----------------------------------------------------------------------------
(***************************************************************************)
(* Input levels.                                                           *)
(***************************************************************************)

\* What is left of levels when some at the top are left.
LEMMA LevelsPrefix ==
  ASSUME NEW rs, Levels(rs), NEW n \in 0 .. Len(rs)
  PROVE  /\ Levels(SubSeq(rs, 1, n))
         /\ Len(SubSeq(rs, 1, n)) = n
         /\ \A i \in 1 .. n : SubSeq(rs, 1, n)[i] = rs[i]
BY DEF Levels

\* The levels at the top that have ended are left, and the top one has not ended.
LEMMA UnendedLevels ==
  ASSUME NEW rs, Levels(rs)
  PROVE  /\ Levels(Unended(rs))
         /\ Unended(rs) # << >> => Last(Unended(rs)) # << >>
<1> DEFINE S == {0} \cup {i \in DOMAIN rs : rs[i] # << >>}
           top == IF Len(rs) > 0 /\ rs[Len(rs)] # << >> THEN Len(rs) ELSE IF Len(rs) > 0 THEN Len(rs) - 1 ELSE 0
<1>1. rs \in Seq(Seq(Char)) /\ Len(rs) \in Nat /\ DOMAIN rs = 1 .. Len(rs) BY DEF Levels
<1>2. top \in S /\ \A y \in S : top >= y
  <2>1. CASE Len(rs) = 0 BY <2>1, <1>1
  <2>2. CASE Len(rs) > 0 BY <2>2, <1>1 DEF Levels
  <2> QED BY <2>1, <2>2, <1>1
<1>3. Max(S) \in S /\ \A y \in S : Max(S) >= y BY <1>2 DEF Max
<1>4. Max(S) \in 0 .. Len(rs) BY <1>3, <1>1
<1> HIDE DEF S, top
<1>5. Unended(rs) = SubSeq(rs, 1, Max(S)) BY DEF Unended, S
<1>6. Levels(Unended(rs)) /\ Len(Unended(rs)) = Max(S) /\ \A i \in 1 .. Max(S) : Unended(rs)[i] = rs[i]
  BY <1>4, <1>5, LevelsPrefix
<1>7. ASSUME Unended(rs) # << >> PROVE Last(Unended(rs)) # << >>
  <2>1. Max(S) # 0 BY <1>5, <1>6, <1>7 DEF Levels
  <2>2. rs[Max(S)] # << >> BY <1>3, <2>1 DEF S
  <2> QED BY <2>1, <2>2, <1>4, <1>6 DEF Last
<1> QED BY <1>6, <1>7

\* A character is read, and the levels that remain are levels.
LEMMA ReadcLevels ==
  ASSUME NEW rs, Levels(rs), NEW m \in Readc(rs)
  PROVE  m.c \in Char /\ Levels(m.rs)
<1> DEFINE r == Unended(rs)
<1>1. Levels(r) /\ (r # << >> => Last(r) # << >>) BY UnendedLevels
<1> HIDE DEF r
<1>2. CASE r = << >> BY <1>1, <1>2 DEF Readc, Char, r
<1>3. CASE r # << >>
  <2>0. m \in {[c |-> Head(Last(r)), rs |-> [r EXCEPT ![Len(r)] = Tail(@)]]}
    BY <1>3, Zenon DEF Readc, r
  <2>1. m.c = Head(Last(r)) /\ m.rs = [r EXCEPT ![Len(r)] = Tail(@)] BY <2>0
  <2>2. r \in Seq(Seq(Char)) /\ Len(r) \in 1 .. Len(r) /\ Last(r) = r[Len(r)] /\ r[Len(r)] \in Seq(Char)
    BY <1>1, <1>3 DEF Levels, Last
  <2>3. Head(Last(r)) \in Char /\ Tail(r[Len(r)]) \in Seq(Char) BY <1>1, <1>3, <2>2
  <2> QED BY <1>1, <2>1, <2>2, <2>3 DEF Levels
<1> QED BY <1>2, <1>3

\* The string executed is above the level that has not ended.
LEMMA ExecuteLevels ==
  ASSUME NEW rs, Levels(rs), NEW v \in Value, Execute(rs, v)
  PROVE  Levels(readstk')
<1> DEFINE level == IF rs # << >> /\ Last(rs) = << >> THEN Front(rs) ELSE rs
<1>1. Levels(level) /\ \A i \in 1 .. Len(level) : level[i] # << >>
  <2>1. CASE rs # << >> /\ Last(rs) = << >>
    <3>1. Len(rs) - 1 \in 0 .. Len(rs) /\ level = SubSeq(rs, 1, Len(rs) - 1) BY <2>1 DEF Levels, Front
    <3> HIDE DEF level
    <3> QED BY <3>1, LevelsPrefix DEF Levels
  <2>2. CASE rs = << >> BY <2>2
  <2>3. CASE rs # << >> /\ Last(rs) # << >> BY <2>3 DEF Levels, Last
  <2> QED BY <2>1, <2>2, <2>3
<1>2. Bodies(v) \subseteq Seq(Char)
  <2>1. CASE v.kind = "str"
    <3>1. v.body \in Seq(Char) BY <2>1 DEF Value, Flats, Rows
    <3> QED BY <2>1, <3>1 DEF Bodies
  <2>2. CASE v.kind # "str"
    <3>1. <<"nop">> \in Seq(Char) /\ \A x \in Console \cup {"nop"} : <<x>> \in Seq(Char) BY DEF Char
    <3> QED BY <2>2, <3>1 DEF Bodies
  <2> QED BY <2>1, <2>2
<1>3. PICK body \in Bodies(v) : readstk' = Append(level, body) BY DEF Execute
<1> HIDE DEF level
<1> QED BY <1>1, <1>2, <1>3 DEF Levels

-----------------------------------------------------------------------------
(***************************************************************************)
(* The stack.                                                              *)
(***************************************************************************)

\* What is left below the last one.
LEMMA FrontParts ==
  ASSUME NEW V, NEW s \in Seq(V), s # << >>
  PROVE  /\ Len(s) \in Nat \ {0} /\ Last(s) \in V
         /\ Front(s) \in Seq(V) /\ Len(Front(s)) = Len(s) - 1
         /\ \A i \in 1 .. Len(s) - 1 : Front(s)[i] = s[i]
<1>1. Len(s) \in Nat \ {0} /\ \A i \in 1 .. Len(s) : s[i] \in V OBVIOUS
<1> DEFINE n == Len(s) - 1
<1>2. n \in Nat /\ \A i \in 1 .. n : s[i] \in V BY <1>1
<1> HIDE DEF n
<1>3. /\ SubSeq(s, 1, n) \in Seq(V)
      /\ Len(SubSeq(s, 1, n)) = n
      /\ \A i \in 1 .. n : SubSeq(s, 1, n)[i] = s[i]
  BY <1>2, SubSeqProperties
<1> QED BY <1>1, <1>3 DEF Front, Last, n

\* What the operands are and what is below them.
LEMMA Operands ==
  ASSUME NEW V, StackRight(stack, stkerr, V), stack # << >>
  PROVE  /\ Len(stack) \in Nat \ {0} /\ Top \in V /\ ~stkerr
         /\ StackRight(Front(stack), FALSE, V)
         /\ Len(stack) >= 2 => Second \in V /\ StackRight(Front(Front(stack)), FALSE, V)
<1>1. Len(stack) \in Nat \ {0} /\ Top \in V /\ ~stkerr BY DEF StackRight, Top, Last
<1>2. /\ Front(stack) \in Seq(V) /\ Len(Front(stack)) = Len(stack) - 1
      /\ \A i \in 1 .. Len(stack) - 1 : Front(stack)[i] = stack[i]
  BY FrontParts DEF StackRight
<1>3. STKSZ \in Nat BY DcAssumption
<1>4. StackRight(Front(stack), FALSE, V) BY <1>1, <1>2, <1>3 DEF StackRight
<1>5. ASSUME Len(stack) >= 2 PROVE Second \in V /\ StackRight(Front(Front(stack)), FALSE, V)
  <2>1. Second \in V BY <1>1, <1>5 DEF StackRight, Second
  <2>2. Front(Front(stack)) \in Seq(V) /\ Len(Front(Front(stack))) = Len(stack) - 2
    <3>1. Front(stack) # << >> BY <1>1, <1>2, <1>5
    <3> QED BY <1>1, <1>2, <3>1, FrontParts
  <2> QED BY <2>1, <2>2, <1>1, <1>3, <1>5 DEF StackRight
<1> QED BY <1>1, <1>4, <1>5

\* pushp leaves a stack, its flag set only if it is empty.
LEMMA PushRight ==
  ASSUME NEW V, NEW s, NEW v \in V, StackRight(s, stkerr, V), Push(s, v)
  PROVE  StackRight(stack', stkerr', V)
<1>1. STKSZ \in Nat BY DcAssumption
<1>2. CASE StackFull(s) BY <1>2 DEF Push, Pushed, StackRight
<1>3. CASE ~StackFull(s)
  <2>1. stack' = Append(s, v) /\ stkerr' = FALSE BY <1>3 DEF Push, Pushed
  <2>2. s \in Seq(V) /\ Len(s) \in Nat /\ Len(s) <= STKSZ BY DEF StackRight
  <2>3. Append(s, v) \in Seq(V) /\ Len(Append(s, v)) = Len(s) + 1 BY <2>2
  <2>4. Len(s) + 1 <= STKSZ BY <1>1, <1>3, <2>2 DEF StackFull
  <2> QED BY <2>1, <2>3, <2>4 DEF StackRight
<1> QED BY <1>2, <1>3

\* Too few operands: the flag says whether there are any.
LEMMA ShortRight ==
  ASSUME NEW V, StackRight(stack, stkerr, V), Short
  PROVE  StackRight(stack', stkerr', V)
BY DEF StackRight, Short

\* A step on the stack alone keeps the rest.
LEMMA OthersKept ==
  ASSUME DcInv, UNCHANGED others, StackRight(stack', stkerr', Held), Levels(readstk')
  PROVE  DcInv'
<1>1. UNCHANGED <<regs, sfree, spoiled>> BY DEF others
<1>2. Held' = Held /\ \A x : Kept(x)' = Kept(x) BY <1>1 DEF Held, HeldRows, Kept
<1>3. SavedCells' = SavedCells BY <1>1 DEF SavedCells
<1>4. EntriesCounted' BY <1>1, <1>3 DEF DcInv, EntriesCounted
<1> QED BY <1>1, <1>2, <1>4 DEF DcInv

\* The invariant begins.
LEMMA DcInvInit == ASSUME DcInit PROVE DcInv
<1>1. SavedCells = {}
  BY DEF DcInit, SavedCells
<1>3. Cardinality({}) = 0 BY FS_EmptySet
<1>4. EntriesCounted BY <1>1, <1>3, DcAssumption DEF EntriesCounted, DcInit
<1>5. StackRight(stack, stkerr, Held)
  <2>1. Len(<< >>) = 0 /\ 0 <= STKSZ /\ << >> \in Seq(Held) BY DcAssumption
  <2> QED BY <2>1 DEF DcInit, StackRight
<1>6. Levels(readstk) BY DEF DcInit, Levels
<1>7. regs \in [Registers -> Seq(Value)] /\ \A x \in Registers : regs[x] \in Seq(Kept(x)) BY DEF DcInit
<1> QED BY <1>4, <1>5, <1>6, <1>7, DcAssumption DEF DcInit, DcInv

-----------------------------------------------------------------------------
(***************************************************************************)
(* The commands on the stack.                                              *)
(***************************************************************************)

LEMMA LiteralKeeps == ASSUME DcInv, Literal PROVE DcInv'
<1>1. PICK m \in Readc(readstk) :
        /\ \/ m.c \in DOMAIN Digits /\ Push(stack, Num(Digits[m.c]))
           \/ m.c \in DOMAIN Strings /\ Push(stack, Str(Strings[m.c]))
           \/ m.c = "z" /\ Push(stack, Clip(Len(stack)))
        /\ readstk' = m.rs /\ UNCHANGED others
  BY DEF Literal
<1>2. Levels(readstk') BY <1>1, ReadcLevels DEF DcInv
<1>3. StackRight(stack, stkerr, Held) /\ spoiled \in BOOLEAN /\ Len(stack) \in Int BY DEF DcInv, StackRight
<1>4. PICK v \in Held : Push(stack, v)
  <2>1. CASE m.c \in DOMAIN Digits /\ Push(stack, Num(Digits[m.c]))
    BY <2>1, <1>3, DcAssumption, LiveValues, HeldParts
  <2>2. CASE m.c \in DOMAIN Strings /\ Push(stack, Str(Strings[m.c]))
    <3>1. Strings[m.c] \in Seq(Char) BY <2>2, DcAssumption DEF Char
    <3> QED BY <3>1, <2>2, <1>3, LiveValues, HeldParts
  <2>3. CASE m.c = "z" /\ Push(stack, Clip(Len(stack))) BY <2>3, <1>3, ClipLive, HeldParts
  <2> QED BY <1>1, <2>1, <2>2, <2>3
<1> QED BY <1>1, <1>2, <1>3, <1>4, PushRight, OthersKept

LEMMA BinaryKeeps == ASSUME DcInv, Binary PROVE DcInv'
<1> DEFINE s == Front(Front(stack))
<1>1. PICK m \in Readc(readstk) :
        /\ readstk' = m.rs /\ UNCHANGED others
        /\ \/ /\ Len(stack) >= 2
              /\ \/ Push(s, Both(Second, Top, Second.n + Top.n))
                 \/ Push(s, Both(Second, Top, Second.n - Top.n))
                 \/ Push(s, Both(Second, Top, Second.n * Top.n))
                 \/ Push(s, Some) \/ Push(s, Flat(Top)) \/ Push(s, Flat(Second))
           \/ Short
           \/ Len(stack) = 1 /\ Push(<< >>, Both(Top, Top, -Top.n))
  BY DEF Binary
<1>2. Levels(readstk') BY <1>1, ReadcLevels DEF DcInv
<1>3. StackRight(stack, stkerr, Held) /\ spoiled \in BOOLEAN BY DEF DcInv
<1>4. StackRight(stack', stkerr', Held)
  <2>1. CASE Len(stack) >= 2 /\ \/ Push(s, Both(Second, Top, Second.n + Top.n))
                                \/ Push(s, Both(Second, Top, Second.n - Top.n))
                                \/ Push(s, Both(Second, Top, Second.n * Top.n))
                                \/ Push(s, Some) \/ Push(s, Flat(Top)) \/ Push(s, Flat(Second))
    <3>1. stack # << >> BY <2>1
    <3>2. Top \in Held /\ Second \in Held /\ ~stkerr /\ StackRight(s, FALSE, Held) BY <2>1, <3>1, <1>3, Operands
    <3>3. Top.kind = "num" /\ Second.kind = "num" => Top.n \in Int /\ Second.n \in Int
      BY <3>2, <1>3, HeldParts
    <3>4. Second.kind = "num" /\ Top.kind = "num" =>
            Second.n + Top.n \in Int /\ Second.n - Top.n \in Int /\ Second.n * Top.n \in Int BY <3>3
    <3>5. /\ Both(Second, Top, Second.n + Top.n) \in Held
          /\ Both(Second, Top, Second.n - Top.n) \in Held
          /\ Both(Second, Top, Second.n * Top.n) \in Held
          /\ Some \in Held
      BY <3>4, <1>3, BothLive, LiveValues, HeldParts
    <3>51. Flat(Top) \in Held /\ Flat(Second) \in Held BY <1>3, <3>2, FlatCopy
    <3>6. PICK v \in Held : Push(s, v) BY <2>1, <3>5, <3>51
    <3>7. stkerr = FALSE BY <1>3, <3>2 DEF StackRight
    <3> QED BY <3>2, <3>6, <3>7, PushRight
  <2>2. CASE Short BY <2>2, <1>3, ShortRight
  <2>3. CASE Len(stack) = 1 /\ Push(<< >>, Both(Top, Top, -Top.n))
    <3>1. stack # << >> BY <2>3
    <3>2. Top \in Held /\ ~stkerr BY <3>1, <1>3, Operands
    <3>3. Top.kind = "num" => -Top.n \in Int BY <3>2, <1>3, HeldParts
    <3>4. Both(Top, Top, -Top.n) \in Held BY <3>3, <1>3, BothLive, HeldParts
    <3>5. StackRight(<< >>, stkerr, Held) BY <1>3, DcAssumption DEF StackRight
    <3> QED BY <2>3, <3>4, <3>5, PushRight
  <2> QED BY <1>1, <2>1, <2>2, <2>3
<1> QED BY <1>1, <1>2, <1>4, OthersKept

LEMMA UnaryKeeps == ASSUME DcInv, Unary PROVE DcInv'
<1>1. PICK m \in Readc(readstk) :
        /\ readstk' = m.rs /\ UNCHANGED others
        /\ \/ stack # << >> /\ Push(Front(stack), Some)
           \/ stack # << >> /\ stack' = Front(stack) /\ UNCHANGED stkerr
           \/ Short
           \/ stack # << >> /\ Push(stack, Flat(Top))
           \/ stack' = (IF stkerr THEN stack ELSE << >>) /\ stkerr' = TRUE
           \/ UNCHANGED <<stack, stkerr>>
  BY DEF Unary
<1>2. Levels(readstk') BY <1>1, ReadcLevels DEF DcInv
<1>3. StackRight(stack, stkerr, Held) /\ spoiled \in BOOLEAN BY DEF DcInv
<1>4. Some \in Held BY <1>3, LiveValues, HeldParts
<1>5. stack # << >> => stkerr = FALSE /\ Flat(Top) \in Held /\ StackRight(Front(stack), FALSE, Held)
  BY <1>3, Operands, FlatCopy DEF StackRight
<1>6. StackRight(stack', stkerr', Held)
  <2>1. CASE stack # << >> /\ Push(Front(stack), Some) BY <2>1, <1>4, <1>5, PushRight
  <2>2. CASE stack # << >> /\ stack' = Front(stack) /\ UNCHANGED stkerr BY <2>2, <1>5
  <2>3. CASE Short BY <2>3, <1>3, ShortRight
  <2>4. CASE stack # << >> /\ Push(stack, Flat(Top)) BY <2>4, <1>3, <1>5, PushRight
  <2>5. CASE stack' = (IF stkerr THEN stack ELSE << >>) /\ stkerr' = TRUE
    BY <2>5, <1>3, DcAssumption DEF StackRight
  <2>6. CASE UNCHANGED <<stack, stkerr>> BY <2>6, <1>3
  <2> QED BY <1>1, <2>1, <2>2, <2>3, <2>4, <2>5, <2>6
<1> QED BY <1>1, <1>2, <1>6, OthersKept

-----------------------------------------------------------------------------
(***************************************************************************)
(* The symbol table.                                                       *)
(***************************************************************************)

\* The entries that hold the values of these registers.
Cells(r) == UNION {{x} \X DOMAIN r[x] : x \in Registers}

LEMMA CellsFinite ==
  ASSUME NEW V, NEW r \in [Registers -> Seq(V)]
  PROVE  IsFiniteSet(Cells(r)) /\ Cardinality(Cells(r)) \in Nat
<1> DEFINE S == {{x} \X DOMAIN r[x] : x \in Registers}
<1>1. \A T \in S : IsFiniteSet(T)
  <2>1. SUFFICES ASSUME NEW x \in Registers PROVE IsFiniteSet({x} \X DOMAIN r[x]) OBVIOUS
  <2>2. Len(r[x]) \in Nat /\ DOMAIN r[x] = 1 .. Len(r[x]) OBVIOUS
  <2>3. IsFiniteSet(DOMAIN r[x]) BY <2>2, FS_Interval
  <2>4. IsFiniteSet({x}) BY FS_Singleton
  <2> QED BY <2>3, <2>4, FS_Product
<1>2. IsFiniteSet(S)
  <2> DEFINE f == [x \in Registers |-> {x} \X DOMAIN r[x]]
  <2>1. f \in Surjection(Registers, S) BY DEF Surjection
  <2>2. IsFiniteSet(Registers) BY DcAssumption, FS_Union DEF Registers
  <2> QED BY <2>1, <2>2, FS_Surjection
<1>3. IsFiniteSet(UNION S) BY <1>1, <1>2, FS_UNION
<1> QED BY <1>3, FS_CardinalityType DEF Cells

\* One more value in a register is one more entry.
LEMMA OneMore ==
  ASSUME NEW V, NEW r \in [Registers -> Seq(V)], NEW q \in [Registers -> Seq(V)], NEW x \in Registers,
         \A y \in Registers \ {x} : q[y] = r[y],
         Len(q[x]) = Len(r[x]) + 1
  PROVE  Cardinality(Cells(q)) = Cardinality(Cells(r)) + 1
<1> DEFINE c == <<x, Len(r[x]) + 1>>
<1>1. \A y \in Registers : DOMAIN r[y] = 1 .. Len(r[y]) /\ Len(r[y]) \in Nat OBVIOUS
<1>2. DOMAIN q[x] = 1 .. (Len(r[x]) + 1) OBVIOUS
<1>3. DOMAIN q[x] = DOMAIN r[x] \cup {Len(r[x]) + 1} BY <1>1, <1>2
<1>4. c \notin Cells(r)
  <2>1. Len(r[x]) + 1 \notin DOMAIN r[x] BY <1>1
  <2> QED BY <2>1 DEF Cells
<1>5. Cells(q) = Cells(r) \cup {c}
  <2>1. \A y \in Registers : {y} \X DOMAIN q[y] = IF y = x THEN ({x} \X DOMAIN r[x]) \cup {c} ELSE {y} \X DOMAIN r[y]
    BY <1>3
  <2> HIDE DEF c
  <2> QED BY <2>1 DEF Cells
<1>6. IsFiniteSet(Cells(r)) BY CellsFinite
<1> QED BY <1>4, <1>5, <1>6, FS_AddElement

\* As many values are the same entries.
LEMMA SameMany ==
  ASSUME NEW V, NEW r \in [Registers -> Seq(V)], NEW q \in [Registers -> Seq(V)],
         \A y \in Registers : Len(q[y]) = Len(r[y])
  PROVE  Cells(q) = Cells(r)
<1>1. \A y \in Registers : DOMAIN q[y] = DOMAIN r[y] OBVIOUS
<1> QED BY <1>1 DEF Cells

\* What is held before a step may be held after it.
LEMMA HeldGrows ==
  ASSUME spoiled \in BOOLEAN, spoiled' \in BOOLEAN, spoiled => spoiled'
  PROVE  Held \subseteq Held' /\ \A x : Kept(x) \subseteq Kept(x)'
<1>1. LiveFlats \subseteq Flats BY DEF LiveFlats
<1>2. Live \subseteq Value BY <1>1 DEF Live, Value
<1>3. HeldRows \subseteq Value BY DEF HeldRows, Value
<1>4. spoiled' => Held' = Value /\ HeldRows' = Value BY DEF Held, HeldRows
<1>5. ~spoiled' => Held' = Held /\ HeldRows' = HeldRows BY DEF Held, HeldRows
<1>6. Held \subseteq Held' /\ HeldRows \subseteq HeldRows'
  BY <1>2, <1>3, <1>4, <1>5 DEF Held
<1> QED BY <1>6 DEF Kept

\* A step that changes the values of one register, and pays for it with entries.
LEMMA RegisterChanges ==
  ASSUME DcInv, NEW x \in Registers, NEW s \in Seq(Kept(x)'),
         regs' = [regs EXCEPT ![x] = s],
         Levels(readstk'), StackRight(stack', stkerr', Held'),
         spoiled' \in BOOLEAN, spoiled => spoiled', sfree' \in Nat,
         ~spoiled' => \/ Len(s) = Len(regs[x]) + 1 /\ sfree' = sfree - 1
                      \/ Len(s) + 1 = Len(regs[x]) /\ sfree' = sfree + 1
                      \/ Len(s) = Len(regs[x]) /\ sfree' = sfree
  PROVE  DcInv'
<1>1. \A y : Kept(y) \subseteq Kept(y)' BY HeldGrows DEF DcInv
<1>2. regs \in [Registers -> Seq(Value)] BY DEF DcInv
<1>3. \A y \in Registers : regs'[y] \in Seq(Kept(y)')
  <2>1. ASSUME NEW y \in Registers PROVE regs[y] \in Seq(Kept(y)')
    <3>1. regs[y] \in Seq(Kept(y)) BY DEF DcInv
    <3> QED BY <1>1, <3>1, SeqMonotonic
  <2> QED BY <1>2, <2>1
<1>4. regs' \in [Registers -> Seq(Value)]
  <2>1. Kept(x)' \subseteq Value
    <3>1. LiveFlats \subseteq Flats BY DEF LiveFlats
    <3>2. Live \subseteq Value BY <3>1 DEF Live, Value
    <3>3. Held' \subseteq Value BY <3>2 DEF Held
    <3>4. HeldRows' \subseteq Value BY DEF HeldRows, Value
    <3> QED BY <3>3, <3>4 DEF Kept
  <2>2. s \in Seq(Value) BY <2>1, SeqMonotonic
  <2> QED BY <1>2, <2>2
<1>5. EntriesCounted'
  <2>1. SUFFICES ASSUME ~spoiled' PROVE TBLSZ = sfree' + Cardinality(SavedCells')
    BY DEF EntriesCounted
  <2>2. TBLSZ = sfree + Cardinality(SavedCells) BY <2>1 DEF DcInv, EntriesCounted
  <2>4. SavedCells = Cells(regs) /\ SavedCells' = Cells(regs') BY DEF SavedCells, Cells
  <2>6. Cardinality(Cells(regs)) \in Nat BY <1>2, CellsFinite
  <2>7. sfree \in Nat BY DEF DcInv
  <2>8. /\ \A y \in Registers \ {x} : regs'[y] = regs[y]
        /\ regs'[x] = s /\ Cardinality(Cells(regs')) \in Nat
    BY <1>2, <1>4, CellsFinite
  <2>9. CASE Len(s) = Len(regs[x]) + 1 /\ sfree' = sfree - 1
    <3>1. Cardinality(Cells(regs')) = Cardinality(Cells(regs)) + 1 BY <2>8, <2>9, <1>2, <1>4, OneMore
    <3> QED BY <3>1, <2>2, <2>4, <2>6, <2>7, <2>9
  <2>10. CASE Len(s) + 1 = Len(regs[x]) /\ sfree' = sfree + 1
    <3>1. Cardinality(Cells(regs)) = Cardinality(Cells(regs')) + 1 BY <2>8, <2>10, <1>2, <1>4, OneMore
    <3> QED BY <3>1, <2>2, <2>4, <2>6, <2>7, <2>8, <2>10
  <2>11. CASE Len(s) = Len(regs[x]) /\ sfree' = sfree
    <3>1. Cells(regs') = Cells(regs) BY <2>8, <2>11, <1>2, <1>4, SameMany
    <3> QED BY <3>1, <2>2, <2>4, <2>11
  <2> QED BY <2>1, <2>9, <2>10, <2>11
<1> QED BY <1>3, <1>4, <1>5 DEF DcInv

-----------------------------------------------------------------------------
(***************************************************************************)
(* The commands on registers and arrays.                                   *)
(***************************************************************************)

\* A name is read after a command.
LEMMA NamedLevels ==
  ASSUME NEW m, Levels(m.rs), NEW x \in Named(m)
  PROVE  Levels(x.rs) /\ x.c \in Registers
<1>1. x \in Readc(m.rs) BY DEF Named
<1>2. Levels(x.rs) BY <1>1, ReadcLevels
<1> QED BY <1>2 DEF Named

\* A step that only reads on.
LEMMA ReadsOn ==
  ASSUME DcInv, UNCHANGED <<stack, stkerr>>, UNCHANGED others, Levels(readstk')
  PROVE  DcInv'
BY OthersKept DEF DcInv

\* What is left of a sequence without its first.
LEMMA TailParts ==
  ASSUME NEW V, NEW r \in Seq(V), r # << >>
  PROVE  Tail(r) \in Seq(V) /\ Len(Tail(r)) = Len(r) - 1 /\ Len(r) \in Nat
OBVIOUS

\* The parts of the invariant for one register.
LEMMA RegisterParts ==
  ASSUME DcInv, NEW x \in Registers
  PROVE  /\ sfree \in Nat /\ spoiled \in BOOLEAN /\ StackRight(stack, stkerr, Held)
         /\ regs[x] \in Seq(Kept(x)) /\ Len(regs[x]) \in Nat
         /\ regs[x] # << >> => Latest(x) \in Kept(x) /\ 1 \in 1 .. Len(regs[x])
BY DEF DcInv, Latest

\* A stack whose top is taken by a step that may spoil.
LEMMA TakenRight ==
  ASSUME StackRight(stack, stkerr, Held), stack # << >>,
         spoiled \in BOOLEAN, spoiled' \in BOOLEAN, spoiled => spoiled',
         stack' = Front(stack) \/ stack' = stack, UNCHANGED stkerr
  PROVE  StackRight(stack', stkerr', Held')
<1>1. Held \subseteq Held' BY HeldGrows
<1>2. StackRight(Front(stack), FALSE, Held) /\ stkerr = FALSE BY Operands DEF StackRight
<1>3. StackRight(stack', FALSE, Held) BY <1>2 DEF StackRight
<1>4. stack' \in Seq(Held') BY <1>1, <1>3, SeqMonotonic DEF StackRight
<1> QED BY <1>2, <1>3, <1>4 DEF StackRight

\* The last entry of the symbol table is linked in.
LEMMA OverflowKeeps ==
  ASSUME DcInv, NEW x \in Registers, Overflows(x), stack # << >>,
         stack' = Front(stack) \/ stack' = stack, UNCHANGED stkerr, Levels(readstk')
  PROVE  DcInv'
<1>1. /\ regs' = [regs EXCEPT ![x] = <<Nothing>>] /\ sfree' = 0 /\ spoiled' = TRUE BY DEF Overflows
<1>2. Kept(x)' = Value BY <1>1 DEF Kept, Held, HeldRows
<1>3. <<Nothing>> \in Seq(Kept(x)') BY <1>2, LiveValues DEF Value
<1>4. StackRight(stack', stkerr', Held') BY <1>1, RegisterParts, TakenRight
<1> QED BY <1>1, <1>3, <1>4, RegisterChanges

\* What S and s put into a register.
LEMMA PutKept ==
  ASSUME spoiled \in BOOLEAN, NEW x, NEW v \in Held, NEW w, w = v \/ w = Saved(x, v),
         spoiled' = (spoiled \/ Unfit(x, w))
  PROVE  spoiled' \in BOOLEAN /\ (spoiled => spoiled') /\ w \in Kept(x)'
<1>1. spoiled' \in BOOLEAN /\ (spoiled => spoiled')
  OBVIOUS
<1>2. v \in Value BY HeldParts
<1>3. w \in Value
  <2>1. Nothing \in Flats BY LiveValues
  <2>2. \A r \in Rows : Array(r.e, "longer") \in Rows BY DEF Rows, Array
  <2>3. v.kind = "row" => v \in Rows BY <1>2 DEF Value, Flats
  <2>4. Array(Nothing, "odd") \in Rows BY <2>1 DEF Rows, Array
  <2> QED BY <1>2, <2>2, <2>3, <2>4 DEF Saved, Value
<1>4. CASE spoiled' BY <1>3, <1>4 DEF Kept, Held, HeldRows
<1>5. CASE ~spoiled'
  <2>1. ~spoiled /\ v \in Live /\ ~Unfit(x, w) BY <1>5 DEF Held
  <2>2. CASE x \notin Arrays
    <3>1. w = v BY <2>2 DEF Saved
    <3> QED BY <1>5, <2>1, <2>2, <3>1 DEF Kept, Held
  <2>3. CASE x \in Arrays
    <3>1. w.kind = "row" BY <2>1, <2>3 DEF Unfit
    <3>2. w \in Rows /\ (w.e \in LiveFlats \/ (w.e = Nothing /\ w.length = "odd"))
      <4>1. CASE v.kind = "row"
        <5>0. v \notin LiveFlats BY <4>1 DEF LiveFlats, Flats
        <5>1. v \in Rows /\ v.e \in LiveFlats BY <2>1, <5>0 DEF Live
        <5>2. w = v \/ w = Array(v.e, "longer") BY <2>3, <4>1 DEF Saved, Num
        <5> QED BY <5>1, <5>2 DEF Rows, Array
      <4>2. CASE v.kind # "row"
        <5>1. w = Array(Nothing, "odd") BY <2>3, <3>1, <4>2 DEF Saved
        <5> QED BY <5>1, LiveValues DEF Rows, Array
      <4> QED BY <4>1, <4>2
    <3> QED BY <1>5, <2>3, <3>2 DEF Kept, HeldRows
  <2> QED BY <2>2, <2>3
<1> QED BY <1>1, <1>4, <1>5

LEMMA SaveKeeps == ASSUME DcInv, SaveRegister PROVE DcInv'
<1>1. PICK m \in Readc(readstk) :
        \/ readstk' = m.rs /\ UNCHANGED <<stack, stkerr, wild>> /\ UNCHANGED others
        \/ \E x \in Named(m) :
             /\ stack # << >> /\ readstk' = x.rs /\ UNCHANGED stkerr
             /\ \/ Overflows(x.c) /\ UNCHANGED stack
                \/ /\ sfree > 1 /\ sfree' = sfree - 1
                   /\ regs' = [regs EXCEPT ![x.c] = <<Saved(x.c, Top)>> \o @]
                   /\ stack' = Front(stack)
                   /\ spoiled' = (spoiled \/ Unfit(x.c, Saved(x.c, Top)))
  BY DEF SaveRegister
<1>2. Levels(m.rs) BY ReadcLevels DEF DcInv
<1>3. CASE readstk' = m.rs /\ UNCHANGED <<stack, stkerr, wild>> /\ UNCHANGED others
  BY <1>2, <1>3, ReadsOn
<1>4. ASSUME NEW x \in Named(m), stack # << >>, readstk' = x.rs, UNCHANGED stkerr,
             Overflows(x.c), UNCHANGED stack
      PROVE  DcInv'
  BY <1>2, <1>4, NamedLevels, OverflowKeeps
<1>5. ASSUME NEW x \in Named(m), stack # << >>, readstk' = x.rs, UNCHANGED stkerr,
             sfree > 1, sfree' = sfree - 1,
             regs' = [regs EXCEPT ![x.c] = <<Saved(x.c, Top)>> \o @],
             stack' = Front(stack), spoiled' = (spoiled \/ Unfit(x.c, Saved(x.c, Top)))
      PROVE  DcInv'
  <2>1. Levels(readstk') /\ x.c \in Registers BY <1>2, <1>5, NamedLevels
  <2>2. /\ sfree \in Nat /\ spoiled \in BOOLEAN /\ StackRight(stack, stkerr, Held)
        /\ regs[x.c] \in Seq(Kept(x.c))
    BY <2>1, RegisterParts
  <2>3. Top \in Held BY <1>5, <2>2, Operands
  <2> DEFINE w == Saved(x.c, Top)
             s == <<w>> \o regs[x.c]
  <2>4. spoiled' \in BOOLEAN /\ (spoiled => spoiled') /\ w \in Kept(x.c)' BY <1>5, <2>2, <2>3, PutKept
  <2>5. regs[x.c] \in Seq(Kept(x.c)')
    <3>1. Kept(x.c) \subseteq Kept(x.c)' BY <2>2, <2>4, HeldGrows
    <3> QED BY <2>2, <3>1, SeqMonotonic
  <2>6. regs' = [regs EXCEPT ![x.c] = s] BY <1>5
  <2> HIDE DEF w
  <2>7. s \in Seq(Kept(x.c)') /\ Len(s) = Len(regs[x.c]) + 1 BY <2>4, <2>5
  <2>8. StackRight(stack', stkerr', Held') BY <1>5, <2>2, <2>4, TakenRight
  <2>9. sfree' \in Nat BY <1>5, <2>2
  <2> HIDE DEF s
  <2> QED BY <1>5, <2>1, <2>4, <2>6, <2>7, <2>8, <2>9, RegisterChanges
<1> QED BY <1>1, <1>3, <1>4, <1>5

LEMMA StoreKeeps == ASSUME DcInv, StoreRegister PROVE DcInv'
<1> DEFINE Stores(x) ==
             /\ regs' = [regs EXCEPT ![x] = <<Top>> \o (IF @ = << >> THEN @ ELSE Tail(@))]
             /\ stack' = Front(stack) /\ UNCHANGED <<stkerr, wild>>
             /\ spoiled' = (spoiled \/ Unfit(x, Top))
<1>1. PICK m \in Readc(readstk) :
        \/ readstk' = m.rs /\ UNCHANGED <<stack, stkerr, wild>> /\ UNCHANGED others
        \/ \E x \in Named(m) :
             /\ stack # << >> /\ readstk' = x.rs
             /\ \/ regs[x.c] # << >> /\ Stores(x.c) /\ UNCHANGED sfree
                \/ Lost
                \/ regs[x.c] = << >> /\ sfree > 1 /\ Stores(x.c) /\ sfree' = sfree - 1
                \/ Overflows(x.c) /\ UNCHANGED <<stack, stkerr>>
  BY DEF StoreRegister
<1>2. Levels(m.rs) BY ReadcLevels DEF DcInv
<1>3. CASE readstk' = m.rs /\ UNCHANGED <<stack, stkerr, wild>> /\ UNCHANGED others
  BY <1>2, <1>3, ReadsOn
<1>4. ASSUME NEW x \in Named(m), readstk' = x.rs, Lost PROVE DcInv'
  BY <1>2, <1>4, NamedLevels, ReadsOn DEF Lost
<1>5. ASSUME NEW x \in Named(m), stack # << >>, readstk' = x.rs,
             Overflows(x.c), UNCHANGED <<stack, stkerr>>
      PROVE  DcInv'
  BY <1>2, <1>5, NamedLevels, OverflowKeeps
<1>6. ASSUME NEW x \in Named(m), stack # << >>, readstk' = x.rs, Stores(x.c),
             \/ regs[x.c] # << >> /\ UNCHANGED sfree
             \/ regs[x.c] = << >> /\ sfree > 1 /\ sfree' = sfree - 1
      PROVE  DcInv'
  <2>1. Levels(readstk') /\ x.c \in Registers BY <1>2, <1>6, NamedLevels
  <2>2. /\ sfree \in Nat /\ spoiled \in BOOLEAN /\ StackRight(stack, stkerr, Held)
        /\ regs[x.c] \in Seq(Kept(x.c))
    BY <2>1, RegisterParts
  <2>3. Top \in Held BY <1>6, <2>2, Operands
  <2>4. spoiled' \in BOOLEAN /\ (spoiled => spoiled') /\ Top \in Kept(x.c)' BY <1>6, <2>2, <2>3, PutKept
  <2>5. regs[x.c] \in Seq(Kept(x.c)')
    <3>1. Kept(x.c) \subseteq Kept(x.c)' BY <2>2, <2>4, HeldGrows
    <3> QED BY <2>2, <3>1, SeqMonotonic
  <2> DEFINE t == IF regs[x.c] = << >> THEN regs[x.c] ELSE Tail(regs[x.c])
             s == <<Top>> \o t
  <2>6. /\ t \in Seq(Kept(x.c)')
        /\ Len(t) = IF regs[x.c] = << >> THEN 0 ELSE Len(regs[x.c]) - 1
    BY <2>5, TailParts
  <2>7. regs' = [regs EXCEPT ![x.c] = s] BY <1>6
  <2>8. StackRight(stack', stkerr', Held') BY <1>6, <2>2, <2>4, TakenRight
  <2> HIDE DEF t
  <2>9. s \in Seq(Kept(x.c)') /\ Len(s) = Len(t) + 1 BY <2>4, <2>6
  <2>10. Len(regs[x.c]) \in Nat /\ (regs[x.c] = << >> <=> Len(regs[x.c]) = 0) BY <2>2
  <2>11. sfree' \in Nat BY <1>6, <2>2
  <2>12. \/ Len(s) = Len(regs[x.c]) + 1 /\ sfree' = sfree - 1
         \/ Len(s) = Len(regs[x.c]) /\ sfree' = sfree
    BY <1>6, <2>6, <2>9, <2>10
  <2> HIDE DEF s
  <2> QED BY <2>1, <2>4, <2>7, <2>8, <2>9, <2>11, <2>12, RegisterChanges
<1> QED BY <1>1, <1>3, <1>4, <1>5, <1>6

\* What load pushes; and the elements ';' copies.
LEMMA LoadedHeld ==
  ASSUME DcInv, NEW x \in Registers
  PROVE  /\ ~Endless(x) => Loaded(x) \in Held
         /\ regs[x] # << >> /\ ~Astray(x) => /\ Latest(x) \in Rows
                                             /\ Latest(x).e = Nothing \/ Latest(x).e \in Held
<1>1. /\ spoiled \in BOOLEAN /\ (regs[x] # << >> => Latest(x) \in Kept(x)) BY RegisterParts
<1>2. Num(0) \in Held BY <1>1, LiveValues, HeldParts
<1>3. ASSUME regs[x] # << >>, Latest(x).kind = "row"
      PROVE  Latest(x) \in Rows /\ Latest(x).e \in Flats
  <2>1. Latest(x) \in Value BY <1>1, <1>3, HeldParts
  <2> QED BY <1>3, <2>1 DEF Value, Flats, Rows
<1>4. ASSUME ~Endless(x) PROVE Loaded(x) \in Held
  <2>1. CASE regs[x] = << >> BY <1>2, <2>1 DEF Loaded
  <2>2. CASE regs[x] # << >> /\ x \notin Arrays
    <3>1. Latest(x) \in Held BY <1>1, <2>2 DEF Kept
    <3>2. Loaded(x) = Flat(Latest(x)) BY <2>2 DEF Loaded
    <3> QED BY <1>1, <3>1, <3>2, FlatCopy
  <2>3. CASE regs[x] # << >> /\ x \in Arrays
    <3>1. Loaded(x) = Latest(x) BY <2>3 DEF Loaded
    <3>2. Latest(x).kind = "row" /\ Latest(x).e # Freed /\ Latest(x).length # "odd"
      BY <1>4, <2>3 DEF Endless
    <3>3. Latest(x) \in HeldRows BY <1>1, <2>3 DEF Kept
    <3> QED BY <1>1, <3>1, <3>2, <3>3 DEF HeldRows, Held, Live
  <2> QED BY <2>1, <2>2, <2>3
<1>5. ASSUME regs[x] # << >>, ~Astray(x)
      PROVE  Latest(x) \in Rows /\ (Latest(x).e = Nothing \/ Latest(x).e \in Held)
  <2>1. Latest(x).kind = "row" BY <1>5 DEF Astray
  <2>2. Latest(x) \in Rows /\ Latest(x).e \in Flats BY <1>3, <1>5, <2>1
  <2>3. CASE spoiled BY <2>2, <2>3 DEF Held, Value
  <2>4. CASE ~spoiled
    <3>1. Latest(x) \notin LiveFlats BY <2>1 DEF LiveFlats, Flats
    <3>2. Latest(x).e = Nothing \/ Latest(x).e \in LiveFlats
      BY <1>1, <1>5, <2>4, <3>1 DEF Kept, HeldRows, Held, Live
    <3> QED BY <2>2, <2>4, <3>2 DEF Held, Live
  <2> QED BY <2>2, <2>3, <2>4
<1> QED BY <1>4, <1>5

LEMMA LoadKeeps == ASSUME DcInv, Load PROVE DcInv'
<1>1. PICK m \in Readc(readstk) : \E x \in Named(m) :
        /\ readstk' = x.rs
        /\ (~Endless(x.c) /\ Push(stack, Loaded(x.c)) /\ UNCHANGED others) \/ Lost
  BY DEF Load
<1>2. Levels(m.rs) BY ReadcLevels DEF DcInv
<1>3. ASSUME NEW x \in Named(m), readstk' = x.rs, Lost PROVE DcInv'
  BY <1>2, <1>3, NamedLevels, ReadsOn DEF Lost
<1>4. ASSUME NEW x \in Named(m), readstk' = x.rs,
             ~Endless(x.c), Push(stack, Loaded(x.c)), UNCHANGED others
      PROVE  DcInv'
  <2>1. Levels(readstk') /\ Loaded(x.c) \in Held BY <1>2, <1>4, NamedLevels, LoadedHeld
  <2> QED BY <1>4, <2>1, PushRight, OthersKept DEF DcInv
<1> QED BY <1>1, <1>3, <1>4

LEMMA UnsaveKeeps == ASSUME DcInv, Unsave PROVE DcInv'
<1>1. PICK m \in Readc(readstk) : \E x \in Named(m) :
        /\ readstk' = x.rs
        /\ \/ UNCHANGED <<stack, stkerr, wild>> /\ UNCHANGED others
           \/ Lost
           \/ /\ regs[x.c] # << >>
              /\ Push(stack, IF x.c \in Arrays THEN Bytes ELSE Latest(x.c))
              /\ regs' = [regs EXCEPT ![x.c] = Tail(@)] /\ sfree' = sfree + 1 /\ UNCHANGED spoiled
  BY DEF Unsave
<1>2. Levels(m.rs) BY ReadcLevels DEF DcInv
<1>3. ASSUME NEW x \in Named(m), readstk' = x.rs,
             Lost \/ (UNCHANGED <<stack, stkerr, wild>> /\ UNCHANGED others)
      PROVE  DcInv'
  BY <1>2, <1>3, NamedLevels, ReadsOn DEF Lost
<1>4. ASSUME NEW x \in Named(m), readstk' = x.rs, regs[x.c] # << >>,
             Push(stack, IF x.c \in Arrays THEN Bytes ELSE Latest(x.c)),
             regs' = [regs EXCEPT ![x.c] = Tail(@)], sfree' = sfree + 1, UNCHANGED spoiled
      PROVE  DcInv'
  <2>1. Levels(readstk') /\ x.c \in Registers BY <1>2, <1>4, NamedLevels
  <2>2. /\ sfree \in Nat /\ spoiled \in BOOLEAN /\ StackRight(stack, stkerr, Held)
        /\ regs[x.c] \in Seq(Kept(x.c)) /\ Latest(x.c) \in Kept(x.c)
    BY <1>4, <2>1, RegisterParts
  <2>3. Held' = Held /\ Kept(x.c)' = Kept(x.c) BY <1>4 DEF Held, HeldRows, Kept
  <2> DEFINE v == IF x.c \in Arrays THEN Bytes ELSE Latest(x.c)
             s == Tail(regs[x.c])
  <2>4. v \in Held
    <3>1. Bytes \in Held BY <2>2, LiveValues, HeldParts
    <3> QED BY <2>2, <3>1 DEF Kept
  <2>41. s \in Seq(Kept(x.c)) /\ Len(s) = Len(regs[x.c]) - 1 /\ Len(regs[x.c]) \in Nat
    BY <1>4, <2>2, TailParts
  <2>5. s \in Seq(Kept(x.c)') /\ Len(s) + 1 = Len(regs[x.c]) BY <2>3, <2>41
  <2>6. regs' = [regs EXCEPT ![x.c] = s] /\ Push(stack, v) /\ sfree' \in Nat BY <1>4, <2>2
  <2> HIDE DEF v, s
  <2>7. StackRight(stack', stkerr', Held') BY <2>2, <2>3, <2>4, <2>6, PushRight
  <2> QED BY <1>4, <2>1, <2>2, <2>5, <2>6, <2>7, RegisterChanges
<1> QED BY <1>1, <1>3, <1>4

\* What is left when ':' has taken its element, and what it puts into the register.
LEMMA PoppedRight ==
  ASSUME DcInv, stack # << >>, Popped
  PROVE  /\ spoiled' \in BOOLEAN /\ (spoiled => spoiled')
         /\ StackRight(stack', stkerr', Held')
         /\ Element \in Flats /\ (~spoiled' => Len(stack) # 1 /\ Element \in LiveFlats)
<1>1. StackRight(stack, stkerr, Held) /\ spoiled \in BOOLEAN BY DEF DcInv
<1>2. CASE Len(stack) = 1
  <2>1. stack' = << >> /\ stkerr' = TRUE /\ spoiled' = TRUE BY <1>2 DEF Popped
  <2>2. Element \in Flats BY <1>2, LiveValues DEF Element
  <2>3. Len(<< >>) <= STKSZ /\ << >> \in Seq(Held') BY DcAssumption
  <2> QED BY <2>1, <2>2, <2>3 DEF StackRight
<1>3. CASE Len(stack) # 1
  <2>1. stack' = Front(Front(stack)) /\ stkerr' = stkerr /\ spoiled' = spoiled BY <1>3 DEF Popped
  <2>2. Len(stack) >= 2
    <3>1. Len(stack) \in Nat \ {0} BY <1>1, Operands
    <3>2. \A n \in Nat \ {0} : n # 1 => n >= 2 OBVIOUS
    <3> QED BY <3>1, <3>2, <1>3
  <2>3. stkerr = FALSE /\ Second \in Held /\ StackRight(Front(Front(stack)), FALSE, Held)
    BY <1>1, <2>2, Operands DEF StackRight
  <2>4. Element = Flat(Second) BY <1>3 DEF Element
  <2>5. Held' = Held BY <2>1 DEF Held
  <2> QED BY <1>1, <1>3, <2>1, <2>3, <2>4, <2>5, FlatCopy
<1> QED BY <1>2, <1>3

LEMMA ElementKept ==
  ASSUME NEW x, NEW v, spoiled' \in BOOLEAN,
         v \in Value, ~spoiled' => v \in Rows /\ v.e \in LiveFlats
  PROVE  v \in Kept(x)'
<1>1. CASE spoiled' BY <1>1 DEF Kept, Held, HeldRows
<1>2. CASE ~spoiled' BY <1>2 DEF Kept, Held, HeldRows, Live
<1> QED BY <1>1, <1>2

LEMMA ArrayStoreKeeps == ASSUME DcInv, ArrayStore PROVE DcInv'
<1>1. PICK m \in Readc(readstk) :
        \/ stack = << >> /\ Short /\ readstk' = m.rs /\ UNCHANGED others
        \/ \E x \in Named(m) :
             /\ stack # << >> /\ readstk' = x.rs
             /\ \/ Lost
                \/ /\ regs[x.c] # << >> /\ ~Astray(x.c) /\ Popped /\ UNCHANGED <<sfree, wild>>
                   /\ regs' = [regs EXCEPT ![x.c][1].e = Element]
                \/ /\ regs[x.c] = << >> /\ sfree > 1 /\ Popped /\ sfree' = sfree - 1 /\ UNCHANGED wild
                   /\ regs' = [regs EXCEPT ![x.c] = <<IF Len(stack) = 1 THEN Freed ELSE Array(Element, "full")>>]
                \/ /\ Overflows(x.c) /\ stack' = Front(stack) /\ UNCHANGED stkerr
  BY DEF ArrayStore
<1>2. Levels(m.rs) BY ReadcLevels DEF DcInv
<1>3. CASE stack = << >> /\ Short /\ readstk' = m.rs /\ UNCHANGED others
  BY <1>2, <1>3, ShortRight, OthersKept DEF DcInv
<1>4. ASSUME NEW x \in Named(m), readstk' = x.rs, Lost PROVE DcInv'
  BY <1>2, <1>4, NamedLevels, ReadsOn DEF Lost
<1>5. ASSUME NEW x \in Named(m), stack # << >>, readstk' = x.rs,
             Overflows(x.c), stack' = Front(stack), UNCHANGED stkerr
      PROVE  DcInv'
  BY <1>2, <1>5, NamedLevels, OverflowKeeps
<1>6. ASSUME NEW x \in Named(m), stack # << >>, readstk' = x.rs,
             regs[x.c] # << >>, ~Astray(x.c), Popped, UNCHANGED sfree,
             regs' = [regs EXCEPT ![x.c][1].e = Element]
      PROVE  DcInv'
  <2>1. Levels(readstk') /\ x.c \in Registers BY <1>2, <1>6, NamedLevels
  <2>2. /\ spoiled' \in BOOLEAN /\ (spoiled => spoiled') /\ StackRight(stack', stkerr', Held')
        /\ Element \in Flats /\ (~spoiled' => Element \in LiveFlats)
    BY <1>6, PoppedRight
  <2>3. /\ sfree' \in Nat /\ spoiled \in BOOLEAN /\ regs[x.c] \in Seq(Kept(x.c))
        /\ 1 \in 1 .. Len(regs[x.c]) /\ Len(regs[x.c]) \in Nat
    BY <1>6, <2>1, RegisterParts
  <2>4. Latest(x.c) \in Rows BY <1>6, <2>1, LoadedHeld
  <2> DEFINE v == [Latest(x.c) EXCEPT !.e = Element]
             s == [regs[x.c] EXCEPT ![1] = v]
  <2>5. v \in Rows /\ v.e = Element BY <2>2, <2>4 DEF Rows
  <2>6. regs' = [regs EXCEPT ![x.c] = s] BY <1>6 DEF Latest
  <2> HIDE DEF v
  <2>7. v \in Kept(x.c)' BY <2>2, <2>5, ElementKept DEF Value
  <2>8. regs[x.c] \in Seq(Kept(x.c)')
    <3>1. Kept(x.c) \subseteq Kept(x.c)' BY <2>2, <2>3, HeldGrows
    <3> QED BY <2>3, <3>1, SeqMonotonic
  <2>9. s \in Seq(Kept(x.c)') /\ Len(s) = Len(regs[x.c]) BY <2>3, <2>7, <2>8, ExceptSeq
  <2> HIDE DEF s
  <2> QED BY <1>6, <2>1, <2>2, <2>3, <2>6, <2>9, RegisterChanges
<1>7. ASSUME NEW x \in Named(m), stack # << >>, readstk' = x.rs,
             regs[x.c] = << >>, sfree > 1, Popped, sfree' = sfree - 1,
             regs' = [regs EXCEPT ![x.c] = <<IF Len(stack) = 1 THEN Freed ELSE Array(Element, "full")>>]
      PROVE  DcInv'
  <2>1. Levels(readstk') /\ x.c \in Registers BY <1>2, <1>7, NamedLevels
  <2>2. /\ spoiled' \in BOOLEAN /\ (spoiled => spoiled') /\ StackRight(stack', stkerr', Held')
        /\ Element \in Flats /\ (~spoiled' => Len(stack) # 1 /\ Element \in LiveFlats)
    BY <1>7, PoppedRight
  <2>3. sfree' \in Nat BY <1>7, <2>1, RegisterParts
  <2> DEFINE v == IF Len(stack) = 1 THEN Freed ELSE Array(Element, "full")
             s == <<v>>
  <2>4. v \in Value /\ (~spoiled' => v \in Rows /\ v.e \in LiveFlats)
    <3>1. Array(Element, "full") \in Rows /\ Array(Element, "full").e = Element BY <2>2 DEF Rows, Array
    <3> QED BY <2>2, <3>1, LiveValues DEF Value
  <2>5. regs' = [regs EXCEPT ![x.c] = s] BY <1>7
  <2> HIDE DEF v
  <2>6. v \in Kept(x.c)' BY <2>2, <2>4, ElementKept
  <2>7. s \in Seq(Kept(x.c)') /\ Len(s) = Len(regs[x.c]) + 1 BY <1>7, <2>6
  <2> HIDE DEF s
  <2> QED BY <1>7, <2>1, <2>2, <2>3, <2>5, <2>7, RegisterChanges
<1> QED BY <1>1, <1>3, <1>4, <1>5, <1>6, <1>7

LEMMA ArrayLoadKeeps == ASSUME DcInv, ArrayLoad PROVE DcInv'
<1>1. PICK m \in Readc(readstk) :
        \/ stack = << >> /\ Short /\ readstk' = m.rs /\ UNCHANGED others
        \/ \E x \in Named(m) :
             /\ stack # << >> /\ readstk' = x.rs
             /\ \/ Lost
                \/ /\ ~Astray(x.c) /\ UNCHANGED others
                   /\ Push(Front(stack), IF regs[x.c] = << >> \/ Latest(x.c).e = Nothing
                                         THEN Num(0) ELSE Latest(x.c).e)
  BY DEF ArrayLoad
<1>2. Levels(m.rs) BY ReadcLevels DEF DcInv
<1>3. CASE stack = << >> /\ Short /\ readstk' = m.rs /\ UNCHANGED others
  BY <1>2, <1>3, ShortRight, OthersKept DEF DcInv
<1>4. ASSUME NEW x \in Named(m), readstk' = x.rs, Lost PROVE DcInv'
  BY <1>2, <1>4, NamedLevels, ReadsOn DEF Lost
<1>5. ASSUME NEW x \in Named(m), stack # << >>, readstk' = x.rs, ~Astray(x.c), UNCHANGED others,
             Push(Front(stack), IF regs[x.c] = << >> \/ Latest(x.c).e = Nothing
                                THEN Num(0) ELSE Latest(x.c).e)
      PROVE  DcInv'
  <2>1. Levels(readstk') /\ x.c \in Registers BY <1>2, <1>5, NamedLevels
  <2> DEFINE v == IF regs[x.c] = << >> \/ Latest(x.c).e = Nothing THEN Num(0) ELSE Latest(x.c).e
  <2>2. Num(0) \in Held BY LiveValues, HeldParts DEF DcInv
  <2>3. v \in Held BY <1>5, <2>1, <2>2, LoadedHeld
  <2>4. stkerr = FALSE /\ StackRight(Front(stack), FALSE, Held) BY <1>5, Operands DEF DcInv, StackRight
  <2>5. Push(Front(stack), v) BY <1>5
  <2> HIDE DEF v
  <2>6. StackRight(stack', stkerr', Held) BY <2>3, <2>4, <2>5, PushRight
  <2> QED BY <1>5, <2>1, <2>6, OthersKept
<1> QED BY <1>1, <1>3, <1>4, <1>5

-----------------------------------------------------------------------------
(***************************************************************************)
(* Execution.                                                              *)
(***************************************************************************)

\* A step on the stack and the levels keeps the registers.
LEMMA RegistersKept ==
  ASSUME DcInv, UNCHANGED <<regs, sfree, spoiled>>,
         StackRight(stack', stkerr', Held), Levels(readstk')
  PROVE  DcInv'
BY OthersKept DEF others

LEMMA ExecuteTopKeeps == ASSUME DcInv, ExecuteTop PROVE DcInv'
<1>1. PICK m \in Readc(readstk) :
        /\ UNCHANGED <<regs, sfree, spoiled>>
        /\ \/ stack = << >> /\ Short /\ readstk' = m.rs
           \/ stack # << >> /\ stack' = Front(stack) /\ UNCHANGED stkerr /\ Execute(m.rs, Top)
  BY DEF ExecuteTop, others
<1>2. Levels(m.rs) BY ReadcLevels DEF DcInv
<1>3. StackRight(stack, stkerr, Held) /\ spoiled \in BOOLEAN BY DEF DcInv
<1>4. CASE Short /\ readstk' = m.rs BY <1>1, <1>2, <1>3, <1>4, ShortRight, RegistersKept
<1>5. CASE stack # << >> /\ stack' = Front(stack) /\ UNCHANGED stkerr /\ Execute(m.rs, Top)
  <2>1. Top \in Held /\ stkerr = FALSE /\ StackRight(Front(stack), FALSE, Held)
    BY <1>3, <1>5, Operands DEF StackRight
  <2>2. Top \in Value BY <1>3, <2>1, HeldParts
  <2>3. Levels(readstk') BY <1>2, <1>5, <2>2, ExecuteLevels
  <2> QED BY <1>1, <1>5, <2>1, <2>3, RegistersKept
<1> QED BY <1>1, <1>4, <1>5

LEMMA CondKeeps == ASSUME DcInv, Cond PROVE DcInv'
<1>1. PICK m \in Readc(readstk) :
        /\ UNCHANGED <<regs, sfree, spoiled>>
        /\ \/ stack = << >> /\ Short /\ readstk' = m.rs
           \/ /\ Len(stack) = 1 /\ stack' = << >> /\ stkerr' = FALSE
              /\ Execute(m.rs, Both(Top, Top, -Top.n))
           \/ /\ Len(stack) >= 2 /\ stack' = Front(Front(stack)) /\ stkerr' = FALSE
              /\ \E x \in Named(m) :
                   \/ readstk' = x.rs
                   \/ ~Endless(x.c) /\ Execute(x.rs, Loaded(x.c))
  BY DEF Cond, others
<1>2. Levels(m.rs) BY ReadcLevels DEF DcInv
<1>3. StackRight(stack, stkerr, Held) /\ spoiled \in BOOLEAN BY DEF DcInv
<1>4. CASE Short /\ readstk' = m.rs BY <1>1, <1>2, <1>3, <1>4, ShortRight, RegistersKept
<1>5. CASE /\ Len(stack) = 1 /\ stack' = << >> /\ stkerr' = FALSE
           /\ Execute(m.rs, Both(Top, Top, -Top.n))
  <2>1. stack # << >> BY <1>5
  <2>2. Top \in Held BY <1>3, <2>1, Operands
  <2>3. Top.kind = "num" => -Top.n \in Int BY <1>3, <2>2, HeldParts
  <2>4. Both(Top, Top, -Top.n) \in Value BY <1>3, <2>3, BothLive, HeldParts
  <2>5. Levels(readstk') BY <1>2, <1>5, <2>4, ExecuteLevels
  <2>6. Len(<< >>) <= STKSZ /\ << >> \in Seq(Held) BY DcAssumption
  <2>7. StackRight(stack', stkerr', Held) BY <1>5, <2>6 DEF StackRight
  <2> QED BY <1>1, <2>5, <2>7, RegistersKept
<1>6. ASSUME Len(stack) >= 2, stack' = Front(Front(stack)), stkerr' = FALSE, NEW x \in Named(m),
             readstk' = x.rs \/ (~Endless(x.c) /\ Execute(x.rs, Loaded(x.c)))
      PROVE  DcInv'
  <2>1. stack # << >> BY <1>6
  <2>2. StackRight(stack', stkerr', Held) BY <1>3, <1>6, <2>1, Operands
  <2>3. Levels(x.rs) /\ x.c \in Registers BY <1>2, NamedLevels
  <2>4. ~Endless(x.c) => Loaded(x.c) \in Value BY <1>3, <2>3, LoadedHeld, HeldParts
  <2>5. Levels(readstk') BY <1>6, <2>3, <2>4, ExecuteLevels
  <2> QED BY <1>1, <2>2, <2>5, RegistersKept
<1> QED BY <1>1, <1>4, <1>5, <1>6

LEMMA QuitKeeps == ASSUME DcInv, QuitTwo \/ QuitLevels PROVE DcInv'
<1>1. PICK m \in Readc(readstk) :
        /\ UNCHANGED others
        /\ \/ Len(m.rs) > 1 /\ readstk' = Front(Front(m.rs)) /\ UNCHANGED <<stack, stkerr>>
           \/ Short /\ readstk' = m.rs
           \/ /\ stack # << >> /\ stack' = Front(stack) /\ UNCHANGED stkerr
              /\ Top.kind = "num"
              /\ readstk' = IF Top.n < 0 THEN m.rs
                            ELSE SubSeq(m.rs, 1, IF Top.n > Len(m.rs) THEN 0 ELSE Len(m.rs) - Top.n)
  BY DEF QuitTwo, QuitLevels
<1>2. Levels(m.rs) /\ Len(m.rs) \in Nat BY ReadcLevels DEF DcInv, Levels
<1>3. StackRight(stack, stkerr, Held) /\ spoiled \in BOOLEAN BY DEF DcInv
<1>4. CASE Len(m.rs) > 1 /\ readstk' = Front(Front(m.rs)) /\ UNCHANGED <<stack, stkerr>>
  <2>1. Levels(Front(m.rs)) /\ Len(Front(m.rs)) = Len(m.rs) - 1
    <3>1. Len(m.rs) - 1 \in 0 .. Len(m.rs) BY <1>2, <1>4
    <3> QED BY <3>1, <1>2, LevelsPrefix DEF Front
  <2>2. Levels(Front(Front(m.rs)))
    <3>1. Len(Front(m.rs)) - 1 \in 0 .. Len(Front(m.rs)) BY <1>2, <1>4, <2>1
    <3> QED BY <3>1, <2>1, LevelsPrefix DEF Front
  <2> QED BY <1>1, <1>4, <2>2, ReadsOn
<1>5. CASE Short /\ readstk' = m.rs BY <1>1, <1>2, <1>3, <1>5, ShortRight, OthersKept
<1>6. CASE /\ stack # << >> /\ stack' = Front(stack) /\ UNCHANGED stkerr /\ Top.kind = "num"
           /\ readstk' = IF Top.n < 0 THEN m.rs
                         ELSE SubSeq(m.rs, 1, IF Top.n > Len(m.rs) THEN 0 ELSE Len(m.rs) - Top.n)
  <2>1. Top \in Held /\ stkerr = FALSE /\ StackRight(Front(stack), FALSE, Held)
    BY <1>3, <1>6, Operands DEF StackRight
  <2>2. Top.n \in Int BY <1>3, <1>6, <2>1, HeldParts
  <2> DEFINE n == IF Top.n > Len(m.rs) THEN 0 ELSE Len(m.rs) - Top.n
  <2>3. Top.n >= 0 => n \in 0 .. Len(m.rs) BY <1>2, <2>2
  <2>4. readstk' = IF Top.n < 0 THEN m.rs ELSE SubSeq(m.rs, 1, n) BY <1>6
  <2> HIDE DEF n
  <2>5. Levels(readstk') BY <1>2, <2>2, <2>3, <2>4, LevelsPrefix
  <2> QED BY <1>1, <1>6, <2>1, <2>5, OthersKept
<1> QED BY <1>1, <1>4, <1>5, <1>6

-----------------------------------------------------------------------------
(***************************************************************************)
(* The theorems.                                                           *)
(***************************************************************************)

\* The invariant is kept by every step.
LEMMA DcInvNext == ASSUME DcInv, [DcNext]_dcvars PROVE DcInv'
<1>1. CASE UNCHANGED dcvars
  <2>1. UNCHANGED <<stack, stkerr>> /\ UNCHANGED others /\ readstk' = readstk BY <1>1 DEF dcvars, others
  <2> QED BY <2>1, ReadsOn DEF DcInv
<1>2. CASE DcNext
  BY <1>2, LiteralKeeps, BinaryKeeps, UnaryKeeps, SaveKeeps, StoreKeeps, LoadKeeps, UnsaveKeeps,
     ArrayStoreKeeps, ArrayLoadKeeps, ExecuteTopKeeps, CondKeeps, QuitKeeps DEF DcNext
<1> QED BY <1>1, <1>2

\* What the invariant says of the tables.
LEMMA InvMeansSafe == ASSUME DcInv PROVE DcSafe
<1>1. StkerrMeansEmpty /\ NoEndedLevelBelow /\ EntriesCounted
  BY DEF DcInv, StackRight, Levels, StkerrMeansEmpty, NoEndedLevelBelow
<1>2. BlocksLive
  <2>1. SUFFICES ASSUME ~spoiled
                 PROVE  /\ \A x \in Registers : \A i \in DOMAIN regs[x] :
                             /\ regs[x][i].kind \notin {"none", "freed"}
                             /\ x \in Arrays => regs[x][i].kind = "row"
                             /\ regs[x][i].kind = "row" => regs[x][i].e # Freed
                        /\ \A i \in DOMAIN stack :
                             /\ stack[i].kind \notin {"none", "freed"}
                             /\ stack[i].kind = "row" => stack[i].e \notin {Nothing, Freed}
    BY DEF BlocksLive
  <2>2. Held = Live BY <2>1 DEF Held
  <2>3. Nothing \notin LiveFlats /\ Freed \notin LiveFlats /\ Nothing # Freed
    BY DEF LiveFlats, Nothing, Freed
  <2>4. \A v \in Live : /\ v.kind \notin {"none", "freed"}
                        /\ v.kind = "row" => v.e \notin {Nothing, Freed}
    <3>1. \A v \in LiveFlats : v.kind \notin {"none", "freed", "row"} BY DEF LiveFlats, Flats
    <3>2. \A v \in Rows : v.kind = "row" BY DEF Rows
    <3> QED BY <2>3, <3>1, <3>2 DEF Live
  <2>5. \A x \in Registers : \A v \in Kept(x) :
          /\ v.kind \notin {"none", "freed"}
          /\ x \in Arrays => v.kind = "row"
          /\ v.kind = "row" => v.e # Freed
    <3>1. \A v \in HeldRows : v.kind = "row" /\ v.e # Freed BY <2>1, <2>3 DEF HeldRows, Rows
    <3> QED BY <2>2, <2>4, <3>1 DEF Kept
  <2>6. \A x \in Registers : regs[x] \in Seq(Kept(x)) BY DEF DcInv
  <2>7. stack \in Seq(Live) BY <2>2 DEF DcInv, StackRight
  <2>8. \A x \in Registers : \A i \in DOMAIN regs[x] : regs[x][i] \in Kept(x) BY <2>6
  <2>9. \A i \in DOMAIN stack : stack[i] \in Live BY <2>7
  <2> QED BY <2>4, <2>5, <2>8, <2>9
<1> QED BY <1>1, <1>2 DEF DcSafe

\* The types of the tables and the size of the stack: whatever is typed, there are never
\* more than STKSZ blocks on the stack (pushp, dc.c:1270) - the last of them, as stkptr is
\* moved on first, lies behind the array (wild) - and its values and those of the
\* registers stay values.
DcTypes ==
  /\ stack \in Seq(Value) /\ Len(stack) <= STKSZ /\ stkerr \in BOOLEAN
  /\ regs \in [Registers -> Seq(Value)]
  /\ sfree \in Nat /\ readstk \in Seq(Seq(Char)) /\ spoiled \in BOOLEAN
THEOREM DcTypesHold == DcSpec => []DcTypes
<1>1. DcInv => DcTypes
  <2> SUFFICES ASSUME DcInv PROVE DcTypes OBVIOUS
  <2>1. Held \subseteq Value BY HeldParts DEF DcInv
  <2>2. stack \in Seq(Value) BY <2>1, SeqMonotonic DEF DcInv, StackRight
  <2> QED BY <2>2 DEF DcInv, StackRight, Levels, DcTypes
<1> QED BY <1>1, DcInvInit, DcInvNext, PTL DEF DcSpec

\* For every set of registers and arrays, every size of the tables and every text typed:
\* stkerr means an empty stack, no level that has ended is below another, registers,
\* arrays and stack hold blocks that are alive until the symbol table is full, ':' finds
\* no operand or what is no array is put into the register of one, and every entry of the
\* table is free or used once (dc.c:203-779, 1270-1290, 2003-2045, 2262-2322).
THEOREM DcTablesRight == DcSpec => []DcSafe
BY DcInvInit, DcInvNext, InvMeansSafe, PTL DEF DcSpec
=============================================================================
