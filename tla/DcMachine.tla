------------------------------ MODULE DcMachine ------------------------------
(***************************************************************************)
(* dc/dc.c: the stack, the registers, the arrays and the input levels.     *)
(* commnds reads one character after another, from the string executed     *)
(* last or, with none left, from the console; a command that names a       *)
(* register reads one more.                                                *)
(*                                                                         *)
(* Numbers are small integers of scale 0 (DcNumbers has the arithmetic);   *)
(* one beyond MaxNum, or computed from a string, is only known to be a     *)
(* value.  A string literal is one character, standing for the string.     *)
(* Of an array there is the element 0.                                     *)
(***************************************************************************)
EXTENDS Integers, Sequences, FiniteSets, SequencesExt

CONSTANTS
  Names,     \* registers
  Arrays,    \* registers of arrays, those from ARRAYST up
  Digits,    \* Digits[c]: the number a character is read as
  Strings,   \* Strings[c]: the characters of the string it stands for
  MaxNum, STKSZ, RDSKSZ, TBLSZ,
  Console    \* what may come from the console

\* What a string holds was typed at the console.
ASSUME DcAssumption ==
  /\ IsFiniteSet(Names) /\ IsFiniteSet(Arrays)
  /\ \A c \in DOMAIN Digits : Digits[c] \in Int
  /\ \A c \in DOMAIN Strings : Strings[c] \in Seq(Console)
  /\ MaxNum \in 0 .. 32 /\ STKSZ \in Nat /\ RDSKSZ \in Nat /\ TBLSZ \in Nat

Registers == Names \cup Arrays

VARIABLES
  stack, stkerr,
  regs,      \* regs[x]: values saved in x, the latest first
  sfree,     \* free entries of the symbol table
  readstk,   \* what is left of the strings in execution, the outermost first
  spoiled,   \* history: ':' met an empty stack, the symbol table was full, or what is
             \* no row of addresses was put into the register of an array
  wild       \* a slot past the end of stack or readstk is in use, or what is no address
             \* was taken for one: anything may follow
dcvars == <<stack, stkerr, regs, sfree, readstk, spoiled, wild>>
others == <<regs, sfree, spoiled>>

\* The blocks.  Those of an array hold the addresses of its elements (length: "full",
\* one word for each; "longer", by the nil word S adds; "odd", so that no loop over its
\* words ends); "bytes" are such addresses copied, or those of released elements.
Num(n) == [kind |-> "num", n |-> n, body |-> << >>]
Str(s) == [kind |-> "str", n |-> 0, body |-> s]
Some == [kind |-> "some", n |-> 0, body |-> << >>]
Bytes == [kind |-> "bytes", n |-> 0, body |-> << >>]
Nothing == [kind |-> "none", n |-> 0, body |-> << >>]   \* no block
Freed == [kind |-> "freed", n |-> 0, body |-> << >>]    \* one that was released
Array(v, l) == [kind |-> "row", e |-> v, length |-> l]
Flat(v) == IF v.kind = "row" THEN Bytes ELSE v          \* copy
Clip(n) == IF n \in -MaxNum .. MaxNum THEN Num(n) ELSE Some
Both(p, q, n) == IF p.kind = "num" /\ q.kind = "num" THEN Clip(n) ELSE Some

DcInit ==
  /\ stack = << >> /\ stkerr = FALSE /\ readstk = << >>
  /\ regs = [x \in Registers |-> << >>]
  /\ sfree = TBLSZ /\ spoiled = FALSE /\ wild = FALSE

-----------------------------------------------------------------------------
\* readc: the levels at the top that have ended are left.  The console is level 0.
Unended(rs) == SubSeq(rs, 1, Max({0} \cup {i \in DOMAIN rs : rs[i] # << >>}))
Readc(rs) ==
  LET r == Unended(rs)
  IN IF wild THEN {}
     ELSE IF r = << >> THEN {[c |-> x, rs |-> r] : x \in Console}
     ELSE {[c |-> Head(Last(r)), rs |-> [r EXCEPT ![Len(r)] = Tail(@)]]}

\* getstk
Named(m) == {x \in Readc(m.rs) : x.c \in Registers}

\* pushp onto s: a full stack refuses, and then stkerr stays.  stkptr is moved on first,
\* so the last place lies behind the array.  (PushKeeps: stkerr always stays.)
StackFull(s) == Len(s) = STKSZ
Pushed(s, v) == IF StackFull(s) THEN s ELSE Append(s, v)
Behind(s) == IF Len(s) = STKSZ - 1 THEN wild' \in BOOLEAN ELSE UNCHANGED wild
PushKeeps(s, v) == stack' = Pushed(s, v) /\ Behind(s) /\ UNCHANGED stkerr
Push(s, v) ==
  stack' = Pushed(s, v) /\ Behind(s) /\ stkerr' = IF StackFull(s) THEN stkerr ELSE FALSE
\* What is left of the operands when there are fewer than needed.
Short == stack' = stack /\ stkerr' = (stack = << >>) /\ UNCHANGED wild
Top == Last(stack)
Second == stack[Len(stack) - 1]

\* What is executed is read as characters: the digits of a small number are not commands,
\* what others read as is not known.
Bodies(v) ==
  CASE v.kind = "str" -> {v.body}
    [] v.kind = "num" /\ v.n >= 0 -> {<<"nop">>}
    [] OTHER -> {<<x>> : x \in Console \cup {"nop"}}

\* Run v in place of the level that has just ended, or above the one that has not.
Execute(rs, v) ==
  LET level == IF rs # << >> /\ Last(rs) = << >> THEN Front(rs) ELSE rs
  IN /\ \E body \in Bodies(v) : readstk' = Append(level, body)
     /\ wild' = (Len(level) + 1 >= RDSKSZ)

-----------------------------------------------------------------------------
Literal ==
  \E m \in Readc(readstk) :
    /\ \/ m.c \in DOMAIN Digits /\ Push(stack, Num(Digits[m.c]))
       \/ m.c \in DOMAIN Strings /\ Push(stack, Str(Strings[m.c]))
       \/ m.c = "z" /\ Push(stack, Clip(Len(stack)))
    /\ readstk' = m.rs /\ UNCHANGED others

\* + - * / % ^ : with one operand too few the other is put back.
Binary ==
  \E m \in Readc(readstk) :
    /\ m.c \in {"+", "-", "*", "/"}
    /\ readstk' = m.rs /\ UNCHANGED others
    /\ \/ /\ Len(stack) >= 2
          /\ LET s == Front(Front(stack))
             IN \/ m.c = "+" /\ Push(s, Both(Second, Top, Second.n + Top.n))
                \/ m.c = "-" /\ Push(s, Both(Second, Top, Second.n - Top.n))
                \/ m.c = "*" /\ Push(s, Both(Second, Top, Second.n * Top.n))
                \/ m.c = "/" /\ Top # Num(0) /\ Second # Num(0) /\ Push(s, Some)
                \/ m.c = "/" /\ (Top.kind = "num" => Top.n = 0) /\ Push(s, Flat(Top))  \* divide by 0
                \/ m.c = "/" /\ (Second.kind = "num" => Second.n = 0) /\ Push(s, Flat(Second))
       \/ Len(stack) < 2 /\ m.c # "-" /\ Short
       \/ Len(stack) = 0 /\ m.c = "-" /\ Short
       \/ Len(stack) = 1 /\ m.c = "-" /\ Push(<< >>, Both(Top, Top, -Top.n))

\* Z (and v X) replaces the top; P (and i o k) takes it; d c p f; the rest is
\* unimplemented.
Unary ==
  \E m \in Readc(readstk) :
    /\ readstk' = m.rs /\ UNCHANGED others
    /\ \/ m.c = "Z" /\ stack # << >> /\ Push(Front(stack), Some)
       \/ m.c = "P" /\ stack # << >> /\ stack' = Front(stack) /\ UNCHANGED <<stkerr, wild>>
       \/ m.c \in {"Z", "P"} /\ stack = << >> /\ Short
       \/ m.c = "d" /\ stack # << >> /\ Push(stack, Flat(Top))
       \/ m.c = "d" /\ stack = << >> /\ UNCHANGED <<stack, stkerr, wild>>
       \/ m.c = "c" /\ stack' = (IF stkerr THEN stack ELSE << >>) /\ stkerr' = TRUE /\ UNCHANGED wild
       \/ m.c \in {"p", "nop"} \cup Registers /\ UNCHANGED <<stack, stkerr, wild>>

-----------------------------------------------------------------------------
(***************************************************************************)
(* Registers.  A new entry of the symbol table is linked in before the     *)
(* table is found to be full; with no entry left at all dc follows a null  *)
(* pointer: no step.                                                       *)
(***************************************************************************)
Latest(x) == regs[x][1]

\* What x holds is no row of addresses; or it is, and its words never end.
Astray(x) == regs[x] # << >> /\ (Latest(x).kind = "row" => Latest(x).e = Freed)
Endless(x) ==
  /\ regs[x] # << >>
  /\ IF x \in Arrays THEN Latest(x).kind = "row" => Latest(x).e = Freed \/ Latest(x).length = "odd"
     ELSE Latest(x).kind = "none"
Lost == wild' = TRUE /\ UNCHANGED <<stack, stkerr>> /\ UNCHANGED others

\* The entry is linked in, and there is no other left.
Overflows(x) ==
  regs' = [regs EXCEPT ![x] = <<Nothing>>] /\ sfree' = 0 /\ spoiled' = TRUE /\ UNCHANGED wild

\* S: save over what is there.  Two zero bytes are added to an array.
Saved(x, v) ==
  CASE x \notin Arrays -> v
    [] x \in Arrays /\ v.kind = "row" -> Array(v.e, "longer")
    [] x \in Arrays /\ v = Num(0) -> Array(Nothing, "odd")
    [] OTHER -> v
Unfit(x, v) == x \in Arrays /\ v.kind # "row"
SaveRegister ==
  \E m \in Readc(readstk) :
    /\ m.c = "S"
    /\ \/ stack = << >> /\ readstk' = m.rs /\ UNCHANGED <<stack, stkerr, wild>> /\ UNCHANGED others
       \/ \E x \in Named(m) :
            /\ stack # << >> /\ readstk' = x.rs /\ UNCHANGED stkerr
            /\ \/ sfree = 1 /\ Overflows(x.c) /\ UNCHANGED stack
               \/ /\ sfree > 1 /\ sfree' = sfree - 1
                  /\ regs' = [regs EXCEPT ![x.c] = <<Saved(x.c, Top)>> \o @]
                  /\ stack' = Front(stack) /\ UNCHANGED wild
                  /\ spoiled' = (spoiled \/ Unfit(x.c, Saved(x.c, Top)))

\* s: the value saved last is replaced, and the elements of an array are released.
StoreRegister ==
  \E m \in Readc(readstk) :
    /\ m.c = "s"
    /\ \/ stack = << >> /\ readstk' = m.rs /\ UNCHANGED <<stack, stkerr, wild>> /\ UNCHANGED others
       \/ \E x \in Named(m) :
            /\ stack # << >> /\ readstk' = x.rs
            /\ LET stores == /\ regs' = [regs EXCEPT ![x.c] = <<Top>> \o (IF @ = << >> THEN @ ELSE Tail(@))]
                             /\ stack' = Front(stack) /\ UNCHANGED <<stkerr, wild>>
                             /\ spoiled' = (spoiled \/ Unfit(x.c, Top))
                   released == ~Endless(x.c) /\ (x.c \in Arrays => Latest(x.c).length = "full")
               IN \/ regs[x.c] # << >> /\ released /\ stores /\ UNCHANGED sfree
                  \/ regs[x.c] # << >> /\ ~released /\ Lost
                  \/ regs[x.c] = << >> /\ sfree > 1 /\ stores /\ sfree' = sfree - 1
                  \/ regs[x.c] = << >> /\ sfree = 1 /\ Overflows(x.c) /\ UNCHANGED <<stack, stkerr>>

\* load: a copy of the value saved last, with those of its elements, or 0.
Loaded(x) ==
  CASE regs[x] = << >> -> Num(0)
    [] regs[x] # << >> /\ x \in Arrays -> Latest(x)
    [] regs[x] # << >> /\ x \notin Arrays -> Flat(Latest(x))
Load ==
  \E m \in Readc(readstk) : \E x \in Named(m) :
    /\ m.c = "l" /\ readstk' = x.rs
    /\ \/ ~Endless(x.c) /\ Push(stack, Loaded(x.c)) /\ UNCHANGED others
       \/ Endless(x.c) /\ Lost

\* L: the value saved last is taken back; of an array, with its elements released.
Unsave ==
  \E m \in Readc(readstk) : \E x \in Named(m) :
    /\ m.c = "L" /\ readstk' = x.rs
    /\ \/ regs[x.c] = << >> /\ UNCHANGED <<stack, stkerr, wild>> /\ UNCHANGED others
       \/ Endless(x.c) /\ Lost
       \/ /\ regs[x.c] # << >> /\ ~Endless(x.c)
          /\ Push(stack, IF x.c \in Arrays THEN Bytes ELSE Latest(x.c))
          /\ regs' = [regs EXCEPT ![x.c] = Tail(@)] /\ sfree' = sfree + 1 /\ UNCHANGED spoiled

\* ':' with index 0, on any register: the old element is released before the new one is
\* popped.  If there is none, a new entry keeps the value it had in its last use.
Popped == IF Len(stack) = 1 THEN stack' = << >> /\ stkerr' = TRUE /\ spoiled' = TRUE
          ELSE stack' = Front(Front(stack)) /\ UNCHANGED <<stkerr, spoiled>>
Element == IF Len(stack) = 1 THEN Freed ELSE Flat(Second)
ArrayStore ==
  \E m \in Readc(readstk) :
    /\ m.c = ":"
    /\ \/ stack = << >> /\ Short /\ readstk' = m.rs /\ UNCHANGED others
       \/ \E x \in Named(m) :
            /\ stack # << >> /\ Top = Num(0) /\ readstk' = x.rs
            /\ \/ Astray(x.c) /\ Lost
               \/ /\ regs[x.c] # << >> /\ ~Astray(x.c) /\ Popped /\ UNCHANGED <<sfree, wild>>
                  /\ regs' = [regs EXCEPT ![x.c][1].e = Element]
               \/ /\ regs[x.c] = << >> /\ sfree > 1 /\ Popped /\ sfree' = sfree - 1 /\ UNCHANGED wild
                  /\ regs' = [regs EXCEPT ![x.c] = <<IF Len(stack) = 1 THEN Freed ELSE Array(Element, "full")>>]
               \/ /\ regs[x.c] = << >> /\ sfree = 1 /\ Overflows(x.c)
                  /\ stack' = Front(stack) /\ UNCHANGED stkerr

\* ';': a copy of the element, or 0.
ArrayLoad ==
  \E m \in Readc(readstk) :
    /\ m.c = ";"
    /\ \/ stack = << >> /\ Short /\ readstk' = m.rs /\ UNCHANGED others
       \/ \E x \in Named(m) :
            /\ stack # << >> /\ Top = Num(0) /\ readstk' = x.rs
            /\ \/ Astray(x.c) /\ Lost
               \/ /\ ~Astray(x.c) /\ UNCHANGED others
                  /\ Push(Front(stack), IF regs[x.c] = << >> \/ Latest(x.c).e = Nothing THEN Num(0) ELSE Latest(x.c).e)

-----------------------------------------------------------------------------
(***************************************************************************)
(* Execution.                                                              *)
(***************************************************************************)

ExecuteTop ==
  \E m \in Readc(readstk) :
    /\ m.c = "x" /\ UNCHANGED others
    /\ \/ stack = << >> /\ Short /\ readstk' = m.rs
       \/ stack # << >> /\ stack' = Front(stack) /\ UNCHANGED stkerr /\ Execute(m.rs, Top)

\* < > = : the register is loaded and executed if the comparison of the top with
\* the second holds.  With too few operands the name is not read, and what is on
\* the stack, its sign changed, is executed.
Outcomes(c) ==
  CASE Second.kind = "num" /\ Top.kind = "num" ->
         {CASE c = "=" -> Second.n = Top.n [] c = "<" -> Second.n > Top.n [] c = ">" -> Second.n < Top.n}
    [] OTHER -> BOOLEAN
Cond ==
  \E m \in Readc(readstk) :
    /\ m.c \in {"<", ">", "="} /\ UNCHANGED others
    /\ \/ stack = << >> /\ Short /\ readstk' = m.rs
       \/ /\ Len(stack) = 1 /\ stack' = << >> /\ stkerr' = FALSE
          /\ Execute(m.rs, Both(Top, Top, -Top.n))
       \/ /\ Len(stack) >= 2 /\ stack' = Front(Front(stack)) /\ stkerr' = FALSE
          /\ \E x \in Named(m), holds \in Outcomes(m.c) :
               \/ ~holds /\ readstk' = x.rs /\ UNCHANGED wild
               \/ holds /\ ~Endless(x.c) /\ Execute(x.rs, Loaded(x.c))
               \/ holds /\ Endless(x.c) /\ readstk' = x.rs /\ wild' = TRUE

\* q leaves two levels, or dc; Q the number of levels on the stack.
QuitTwo ==
  \E m \in Readc(readstk) :
    /\ m.c = "q" /\ Len(m.rs) > 1 /\ readstk' = Front(Front(m.rs))
    /\ UNCHANGED <<stack, stkerr, wild>> /\ UNCHANGED others
QuitLevels ==
  \E m \in Readc(readstk) :
    /\ m.c = "Q" /\ UNCHANGED others
    /\ \/ stack = << >> /\ Short /\ readstk' = m.rs
       \/ /\ stack # << >> /\ Top.kind = "num" /\ stack' = Front(stack) /\ UNCHANGED <<stkerr, wild>>
          /\ readstk' = IF Top.n < 0 THEN m.rs
                        ELSE SubSeq(m.rs, 1, IF Top.n > Len(m.rs) THEN 0 ELSE Len(m.rs) - Top.n)

DcNext ==
  \/ Literal \/ Binary \/ Unary
  \/ SaveRegister \/ StoreRegister \/ Load \/ Unsave \/ ArrayStore \/ ArrayLoad
  \/ ExecuteTop \/ Cond \/ QuitTwo \/ QuitLevels
DcSpec == DcInit /\ [][DcNext]_dcvars

-----------------------------------------------------------------------------
(***************************************************************************)
(* Properties.                                                             *)
(***************************************************************************)

\* stkerr is a flag left over from the last pop, and tests of it follow other calls:
\* it is never set while something is on the stack ('c' and EMPTY rely on it).
StkerrMeansEmpty == stkerr => stack = << >>

\* A string that ends by executing another is left before it: a loop of strings
\* executes in bounded levels.  No level below the top has ended.
NoEndedLevelBelow == \A i \in 1 .. Len(readstk) - 1 : readstk[i] # << >>

\* While the symbol table has room, ':' finds its operand and arrays are put into the
\* registers of arrays only, every register refers to a block that has not been
\* released, an array to its elements, and what S, s, l and L take for addresses are some.
BlocksLive ==
  ~spoiled => /\ \A x \in Registers : \A i \in DOMAIN regs[x] :
                    /\ regs[x][i].kind \notin {"none", "freed"}
                    /\ x \in Arrays => regs[x][i].kind = "row"
                    /\ regs[x][i].kind = "row" => regs[x][i].e # Freed
              /\ \A i \in DOMAIN stack :
                    /\ stack[i].kind \notin {"none", "freed"}
                    /\ stack[i].kind = "row" => stack[i].e \notin {Nothing, Freed}

\* Entries of the symbol table are neither lost nor used twice: each one is free or holds
\* a value saved in a register.
SavedCells == UNION {{x} \X DOMAIN regs[x] : x \in Registers}
EntriesCounted == ~spoiled => TBLSZ = sfree + Cardinality(SavedCells)

\* dc: no error state with operands left, no level of execution that has ended under
\* another, no register that refers to a block that was freed, and every entry of the
\* symbol table in use once or free.
DcSafe == StkerrMeansEmpty /\ NoEndedLevelBelow /\ BlocksLive /\ EntriesCounted
=============================================================================
