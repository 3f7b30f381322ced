----------------------------- MODULE MCMachines -----------------------------
(***************************************************************************)
(* The programs whose steps matter, for TLC: which one runs is chosen, the *)
(* others stay where they began.                                           *)
(***************************************************************************)
EXTENDS Sokoban, DcMachine, SortMerge, TLC

VARIABLES
  which,
  ldisk, there, host, cmd, before, count, harm,
  sedjob, prog, inar, files, cur, pat, hold, lnum, ipc, delflag, sflag, pending, app, written,
  win, rows, at, dirty, quits, kdisk, kept, find, ended, off, steady, pressed

-----------------------------------------------------------------------------
(* lbr: files of one and two sectors, two names and two patterns; the      *)
(* second stands for the directory's own entry too.                        *)
A == <<"A", ".", "X">>
B == <<"B", ".", "X">>
MCNames == {A, B}
MCSize == [x \in MCNames |-> IF x = A THEN <<1, 2>> ELSE <<2>>]
MCLists == {<<A>>, <<B>>, <<A, B>>, <<<<"?", ".", "X">>, A>>, <<<<"*", ".", "*">>>>}
Lbr == INSTANCE LbrLibrary WITH disk <- ldisk, Names <- MCNames, STEM <- 2, EXT <- 1, Size <- MCSize, Slots <- {0, 3},
  SLOTS_SEC <- 2, MAXFILES <- 5, MAXDIRENT <- 3, Lists <- MCLists, MaxCommands <- 3

(* sort: three lines in memory, two files merged, so that a few lines need *)
(* several passes; two lines have the same key.                            *)
MCLines == 1 .. 3
KeyOf == [x \in MCLines |-> (x + 1) \div 2]
UpTo(S, n) == {SubSeq(f, 1, Len(f)) : f \in UNION {[1 .. k -> S] : k \in 0 .. n}}
SortInputs ==
  {<<f>> : f \in UpTo(1 .. 3, 2)} \cup {<<f, <<1, 3>>>> : f \in UpTo(1 .. 3, 1)}
  \cup {<<<<1, 2, 3, 2>>>>, <<<<1, 2, 1, 2, 1>>>>, <<<<3, 2, 1, 3, 2, 1, 1>>>>, <<<<2, 1, 2>>, <<>>, <<1, 3, 1>>>>, <<<<1, 1>>, <<2, 3>>, <<1>>>>}

(* dc: a register, an array, and a string that executes the register above *)
(* itself and then, at its end, the top of the stack in its own place.     *)
DcDigits == [c \in {"0", "1"} |-> IF c = "0" THEN 0 ELSE 1]
DcStrings == [c \in {"[laxx]"} |-> <<"l", "a", "x", "x">>]
DcNames == {"a"}
DcArrays == {"A"}
DcConsole == DOMAIN DcDigits \cup DOMAIN DcStrings \cup
  {"z", "-", "/", "Z", "P", "d", "c", "S", "s", "l", "L", ":", ";", "x", ">", "q", "Q", "a", "A"}

(* sed: scripts, each with what it must write for the lines it is given.   *)
Addr(kind, n, e) == [kind |-> kind, n |-> n, e |-> e]
Every == Addr("none", 0, <<>>)
Cmd(a1, a2, bang, c, arg) == [a1 |-> a1, a2 |-> a2, bang |-> bang, c |-> c, arg |-> arg]
All(c, arg) == Cmd(Every, Every, FALSE, c, arg)
NotLast(c, arg) == Cmd(Addr("end", 0, <<>>), Every, TRUE, c, arg)
On(n, c) == Cmd(Addr("num", n, <<>>), Every, FALSE, c, "")
Of(re, c, arg) == Cmd(Addr("re", 0, re), Every, FALSE, c, arg)
From(re, to, c, arg) == Cmd(Addr("re", 0, re), Addr("re", 0, to), FALSE, c, arg)
Replace(e, rhs, g, w) == All("s", [e |-> e, rhs |-> rhs, g |-> g, p |-> "", w |-> w])
La == <<"a">>
Lb == <<"b">>
Lx == <<"x">>
Exchanged == [c \in {"a", "b"} |-> IF c = "a" THEN "b" ELSE "a"]
Script(src, n, want) == [src |-> src, nflag |-> n, want |-> want]
Out(lines) == [i \in DOMAIN lines |-> <<"", lines[i]>>]
Joined(ls, by) == FlattenSeq([i \in DOMAIN ls |-> IF i = 1 THEN ls[1] ELSE by \o ls[i]])
If(ok, line) == IF ok THEN <<line>> ELSE <<>>
\* The lines outside the ranges from a to b, each of which becomes new.
RECURSIVE Outside(_, _, _)
Outside(ls, open, new) ==
  IF ls = <<>> THEN <<>>
  ELSE LET in == open \/ Head(ls) = La
           ends == in /\ ((open /\ Head(ls) = Lb) \/ Len(ls) = 1)
       IN (IF in THEN IF ends THEN new ELSE <<>> ELSE <<Head(ls)>>) \o Outside(Tail(ls), in /\ ~ends, new)
Each(ls, Texts(_)) == FlattenSeq([i \in DOMAIN ls |-> Texts(i)])
Scripts(ls) == {
  \* the lines in reverse; the last one; all of them joined; each with a and b exchanged, and as it was
  Script(<<Cmd(Addr("num", 1, <<>>), Every, TRUE, "G", ""), All("h", ""), NotLast("d", "")>>, FALSE,
         Out(If(ls # <<>>, Joined(Reverse(ls), <<"\n">>)))),
  Script(<<NotLast("d", ""), All("w", "f")>>, TRUE, [i \in DOMAIN If(ls # <<>>, 1) |-> <<"f", Last(ls)>>]),
  Script(<<All("H", ""), NotLast("d", ""), All("x", "")>>, FALSE, Out(If(ls # <<>>, <<"\n">> \o Joined(ls, <<"\n">>)))),
  Script(<<All("h", ""), All("y", Exchanged), All("p", ""), All("g", "")>>, FALSE,
         Out(Each(ls, LAMBDA i : <<<<Exchanged[ls[i][1]]>>, ls[i]>>))),
  \* ranges deleted, and changed; text before and after a line; the first lines
  Script(<<From(La, Lb, "d", "")>>, FALSE, Out(Outside(ls, FALSE, <<>>))),
  Script(<<Of(La, "i", Lx), Of(Lb, "a", Lx), Of(La, "r", "f"), On(2, "q")>>, FALSE,
         Out(Each(SubSeq(ls, 1, Min({2, Len(ls)})), LAMBDA i : If(ls[i] = La, Lx) \o <<ls[i]>> \o <<IF ls[i] = Lb THEN Lx ELSE Lb>>))),
  \* a block and branches out of it; a substitution, also to a file
  Script(<<Of(La, "{", ""), On(2, "b"), All("=", ""), All("}", ""), Of(Lb, "b", "k"), All("l", ""), All(":", "k"), Of(Lb, "d", "")>>, TRUE,
         Out(Each(ls, LAMBDA i : IF ls[i] = La /\ i # 2 THEN <<<<ToString(i)>>, La>> ELSE <<>>))),
  Script(<<Replace(La, Lx, FALSE, "f"), Of(Lx, "P", "")>>, TRUE,
         Each(ls, LAMBDA i : IF ls[i] = La THEN <<<<"f", Lx>>, <<"", Lx>>>> ELSE <<>>)),
  \* every second line
  Script(<<All("n", ""), All("p", "")>>, TRUE, Out(Each(ls, LAMBDA i : If(i % 2 = 0, ls[i])))) }
\* Of one file: N joins lines, P and D part them again; all joined, by a loop and by another; ranges changed.
OneFile(ls) == {
  Script(<<NotLast("N", ""), All("P", ""), All("D", "")>>, FALSE, Out(ls)),
  Script(<<All(":", "k"), NotLast("{", ""), All("N", ""), All("b", "k"), All("}", ""), Replace(<<"\\", "n">>, <<",">>, TRUE, "")>>, FALSE,
         Out(If(ls # <<>>, Joined(ls, <<",">>)))),
  Script(<<All(":", "k"), NotLast("N", ""), Replace(<<"\\", "n">>, <<",">>, FALSE, ""), All("t", "k")>>, FALSE,
         Out(If(ls # <<>>, Joined(ls, <<",">>)))),
  Script(<<From(La, Lb, "c", Lx)>>, FALSE, Out(Outside(ls, FALSE, <<Lx>>))) }
Job(script, fs) == [src |-> script.src, nflag |-> script.nflag, files |-> fs, want |-> script.want]
SedInputs == UNION {{Job(x, <<ls>>) : x \in Scripts(ls) \cup OneFile(ls)}
                    \cup {Job(x, <<SubSeq(ls, 1, k), SubSeq(ls, k + 1, Len(ls))>>) : x \in Scripts(ls), k \in 0 .. Len(ls) - 1}
                    : ls \in UpTo({La, Lb}, 4)}
Sed == INSTANCE SedScript WITH SedJobs <- SedInputs, Reads <- [f \in {"f"} |-> <<Lb>>],
  Order <- <<"a", "b", "x", ",", "\n">>, LBSIZE <- 12

(* sokoban: a level of one line, and one with a packet on a store.         *)
Row(s) == <<"#">> \o s \o <<"#", "\n">>
Walls(n) == [k \in 1 .. n |-> "#"] \o <<"\n">>
MCScreens == <<Walls(6) \o Row(<<"@", "$", " ", ".">>) \o Walls(6),
               Walls(6) \o Row(<<"@", "$", ".", ".">>) \o Row(<<" ", "*", " ", " ">>) \o Walls(6)>>

(* kilo: windows narrower than the lines and lower than the text, with     *)
(* comments, tabs, line ends of either kind and a ^Z inside a line.        *)
Window(r, c, keys, file, coloured) == [rows |-> r, cols |-> c, keys |-> keys, file |-> file, coloured |-> coloured, stale |-> FALSE]
Arrows == {"LEFT", "RIGHT", "UP", "DOWN", "HOME", "END"}
MCWindows == {
  Window(4, 12, Arrows \cup {"a", "ENTER", "BS", "^S"}, <<"a", "b", "CR", "LF", "c">>, FALSE),
  Window(2, 6, Arrows \cup {"PGUP", "PGDN", "a", "BS", "ENTER"}, <<"a", "LF", "b", "c", "LF", "LF", "a">>, FALSE),
  Window(4, 8, {"RIGHT", "DOWN", "END", "/", "*", "a", "BS", "i"}, <<"/", "LF", "a", "*", "LF", "c", "LF">>, TRUE),
  Window(3, 3, {"RIGHT", "END", "a", "TAB", "BS", "LEFT"}, <<"TAB", "a", "b", "LF">>, TRUE),
  Window(3, 8, {"^F", "a", "b", "ESC", "ENTER", "BS", "RIGHT", "UP"}, <<"a", "b", "LF", "b", "a", "LF", "TAB", "a">>, TRUE),
  Window(3, 2, {"UP", "DOWN", "LEFT", "BS", "^F", "b"}, <<"LF", "a", "a", "b", "a", "LF", "b">>, FALSE),
  Window(3, 8, {"BS", "DOWN", "^S", "^Q", "a"}, <<"a", "LF", "b", "CR", "LF", "c", "CR", "^Z", "b">>, TRUE)}
Kilo == INSTANCE Kilo WITH disk <- kdisk, Windows <- MCWindows, TabStop <- 4,
  Keywords <- {[word |-> <<"i">>, second |-> FALSE]}, QuitTimes <- 2, MaxKeys <- 5

-----------------------------------------------------------------------------
Programs == {"lbr", "sort", "dc", "sed", "sokoban", "kilo"}
\* One that does not run has one state.
MachinesInit ==
  /\ which \in Programs
  /\ which = "lbr" \/ host = [x \in MCNames |-> 0]
  /\ which = "sort" \/ (input = <<<<>>>> /\ foreign = {} /\ opt = [u |-> FALSE, m |-> FALSE, c |-> FALSE, o |-> 0])
  /\ which = "sed" \/ sedjob = Job(Script(<<From(La, Lb, "d", "")>>, FALSE, <<>>), <<<<>>>>)
  /\ which = "kilo" \/ win = Window(3, 3, {"RIGHT", "END", "a", "TAB", "BS", "LEFT"}, <<"TAB", "a", "b", "LF">>, TRUE)
  /\ Lbr!LbrInit /\ SortInit /\ DcInit /\ Sed!SedInit /\ Init /\ Kilo!Init

\* lbr: after a buffer lost unnoticed in the first command there is one more, after a later one there is none.
LbrGoesOn == "flush" \in harm => cmd.todo # <<>> \/ count < 2
\* dc stops where a register is spoiled, and with four values saved and on the stack.
DcGoesOn == ~spoiled /\ Len(stack) + Cardinality(SavedCells) <= 3
lbrvars == <<ldisk, there, host, cmd, before, count, harm>>
sedvars == <<sedjob, prog, inar, files, cur, pat, hold, lnum, ipc, delflag, sflag, pending, app, written>>
kilovars == <<win, rows, at, dirty, quits, kdisk, kept, find, ended, off, steady, pressed>>
LbrRuns  == which = "lbr" /\ LbrGoesOn /\ Lbr!LbrNext /\ UNCHANGED <<sortvars, dcvars, sedvars, vars, kilovars, which>>
SortRuns == which = "sort" /\ SortNext /\ UNCHANGED <<lbrvars, dcvars, sedvars, vars, kilovars, which>>
DcRuns   == which = "dc" /\ DcGoesOn /\ DcNext /\ UNCHANGED <<lbrvars, sortvars, sedvars, vars, kilovars, which>>
SedRuns  == which = "sed" /\ Sed!SedNext /\ UNCHANGED <<lbrvars, sortvars, dcvars, vars, kilovars, which>>
SokoRuns == which = "sokoban" /\ Next /\ UNCHANGED <<lbrvars, sortvars, dcvars, sedvars, kilovars, which>>
KiloRuns == which = "kilo" /\ Kilo!Next /\ UNCHANGED <<lbrvars, sortvars, dcvars, sedvars, vars, which>>
MachinesNext == LbrRuns \/ SortRuns \/ DcRuns \/ SedRuns \/ SokoRuns \/ KiloRuns
all == <<which, lbrvars, sortvars, dcvars, sedvars, vars, kilovars>>
\* sort is one process that waits for nothing but its files.
MachinesSpec == MachinesInit /\ [][MachinesNext]_all /\ WF_all(SortRuns)

-----------------------------------------------------------------------------
(* Wherever a lbr command stops: every member shown is a whole version of  *)
(* its file, nothing the command was not about is lost, an update that was *)
(* refused changed no member, and delbr takes out what lu86 e does         *)
(* (lu86.c:455-921, delbr.c:90-208).                                       *)
LibrarySafe == which = "lbr" => Lbr!EntriesWhole /\ Lbr!NothingLost /\ Lbr!NotChanged /\ Lbr!DelbrAgrees

(* sort comes to an end, and an argument file that is the output too is    *)
(* not touched before its last line has been read.                         *)
SortEnds == InputsKept /\ (which = "sort" ~> pc = "exit")

(* sed: branches, blocks and ranges lead where the script says, and the    *)
(* script has written what it is for when it ends.                         *)
SedDoes == which = "sed" => Sed!BranchesLand /\ Sed!WritesWanted

(* What sokoban plays is the game: a step is one the rules allow, undo     *)
(* gives back the position before the last one, a level is left when it is *)
(* solved and never otherwise (sokoban.c:620-830).                         *)
PlaysByTheRules ==
  /\ which = "sokoban" => Rules!Init
  /\ [][which = "sokoban" => CountsRight' /\ [Rules!Next]_(Rules!vars)]_<<which, vars>>

(* kilo draws every row as if the text were loaded afresh, leaves no mark  *)
(* of a search, keeps the cursor in the window but for the three ways out  *)
(* of it, and shows under the cursor the character that is there.          *)
KiloShows == which = "kilo" => Kilo!RowsAsLoaded /\ Kilo!NoMarkLeft /\ Kilo!CursorInWindow /\ Kilo!CursorOnCharacter

(* Every key of kilo changes the lines at the place of the cursor and no   *)
(* other, and a file that is saved loads as the lines saved, unless the    *)
(* write fails; all but the steps that leave the text from outside the     *)
(* window (kilo.c:726-815, 886-910).                                       *)
TextAsTyped == [][which = "kilo" => Kilo!Typed]_kilovars
=============================================================================
