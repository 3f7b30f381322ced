------------------------------ MODULE SortMerge ------------------------------
(***************************************************************************)
(* sort/sort.c: the input is read in chunks that fit in memory, each       *)
(* sorted (qusort) and written as a run, a temporary file; then N runs at  *)
(* a time are merged into a further run, and the last ones into the        *)
(* output.  -m merges input files that are sorted already, -c checks one,  *)
(* -u keeps one line of those that compare equal, -o names the output,     *)
(* which may be one of the input files.                                    *)
(*                                                                         *)
(* A line is a number; its key is what cmp compares (SortKeys models cmp   *)
(* itself).  Files have the numbers setfil gives them: first the           *)
(* arguments, then the temporary files.                                    *)
(***************************************************************************)
EXTENDS Integers, Sequences, FiniteSets, SequencesExt

CONSTANTS
  Lines,      \* lines, positive numbers; they are ordered as numbers
  Key,        \* Key[x]: the number cmp compares before the whole line
  Chunk,      \* lines that fit in memory (nlines)
  N,          \* files merged at once
  Inputs,     \* contents of the argument files, one sequence per file
  MaxTemp,    \* bound of the temporary names (676)
  Faulty      \* whether openings, reads and writes may fail

\* Without an argument sort reads "-".
ASSUME SortAssumption ==
  /\ Lines \subseteq Nat \ {0} /\ Key \in [Lines -> Int]
  /\ Chunk \in Nat \ {0} /\ N \in Nat \ {0} /\ MaxTemp \in Nat /\ Faulty \in BOOLEAN
  /\ \A args \in Inputs : args \in Seq(Seq(Lines)) /\ args # << >>

NoLine == 0   \* a line that was voided, and no line at all
Absent == <<NoLine>>
Stdout == -1  \* as a file

VARIABLES
  opt,      \* the options: u, m, c, and where -o leads
  disk,     \* contents of the files
  foreign,  \* temporary names in use before
  eargc, nfiles,
  input,    \* history: the argument files
  unread,   \* sort(): what is left of each argument
  is,       \* the argument being read
  text,     \* the lines of the chunk
  mem,      \* merge(): line buffer of each structure of lspace
  rest,     \* what is left of the file behind each structure
  opened,   \* structures whose file has been opened
  ibuf,     \* the pointers: to the lines of the chunk, or to the structures in use;
            \* once sorted, the smallest line last
  caller, segs, part,   \* qusort: of sort or merge; ranges to be sorted; i, j, lp, hp
  muflg, range, os,
  pc, error,
  fresh,    \* whether the last structure was filled in this merge
  lost,     \* history: a line was dropped because it equals what was in memory before
  fault     \* history: what failed: nothing, something sort told, or a write that
            \* nobody noticed

setup == <<opt, foreign, eargc, input>>
reading == <<unread, is>>
qstate == <<caller, segs, part>>
streams == <<mem, rest, opened>>
flags == <<muflg, range, fresh, lost>>
sortvars == <<setup, disk, nfiles, reading, text, streams, ibuf, qstate, flags, fault, os, pc, error>>

\* What compare returns for x and y: positive when x comes before y.
Compare(x, y) ==
  CASE Key[x] # Key[y] -> Key[y] - Key[x]
    [] Key[x] = Key[y] -> IF opt.u THEN 0 ELSE y - x

-----------------------------------------------------------------------------
(***************************************************************************)
(* Files.                                                                  *)
(***************************************************************************)

\* term: remove the temporary files and exit.
Term(e) ==
  /\ disk' = [f \in DOMAIN disk |-> IF f \in eargc .. nfiles - 1 THEN Absent ELSE disk[f]]
  /\ error' = e /\ pc' = "exit"

\* The same where the disk is at fault and sort says so.
Fail == Faulty /\ Term(1) /\ fault' = "told"
Failed == <<setup, nfiles, reading, text, streams, ibuf, qstate, flags, os>>

\* newfile: the next temporary name must exist and be free.
NewfileWorks == nfiles - eargc < MaxTemp /\ disk[nfiles] = Absent

\* oldfile
Output == IF opt.c THEN Stdout ELSE opt.o

\* More files than one merge takes; or -m with -o, and then the arguments are
\* merged into temporary files first.
Staged ==
  \/ range[2] + N < nfiles
  \/ opt.m /\ ~opt.c /\ opt.o # Stdout /\ range[2] < eargc

Idle == [i |-> 0, j |-> 0, lp |-> 0, hp |-> 0, top |-> TRUE]
SortInit ==
  /\ opt \in [u : BOOLEAN, m : BOOLEAN, c : BOOLEAN, o : {Stdout, 0}]
  /\ \E args \in Inputs :
       /\ eargc = Len(args) /\ nfiles = eargc /\ input = args
       /\ opt.c => eargc = 1
       /\ foreign \in {{}, {eargc + 1}}
       /\ disk = [f \in {Stdout} \cup 0 .. eargc + MaxTemp |->
                    CASE f = Stdout -> << >>
                      [] f \in 0 .. eargc - 1 -> args[f + 1]
                      [] f \in foreign -> << >>
                      [] OTHER -> Absent]
       /\ unread = IF opt.m \/ opt.c THEN [k \in 1 .. eargc |-> << >>] ELSE args
       /\ range = IF opt.m \/ opt.c THEN <<0, 0>> ELSE <<eargc, eargc>>
  /\ is = 1 /\ text = << >> /\ ibuf = << >>
  /\ mem = [p \in 0 .. N |-> NoLine] /\ rest = [p \in 0 .. N - 1 |-> << >>] /\ opened = 0
  /\ caller = "sort" /\ segs = << >> /\ part = Idle
  /\ muflg = FALSE /\ fresh = FALSE /\ lost = FALSE /\ fault = "none"
  /\ os = Stdout /\ error = 1
  /\ pc = IF opt.m \/ opt.c THEN "plan" ELSE "read"

-----------------------------------------------------------------------------
(***************************************************************************)
(* sort(): chunk after chunk.                                              *)
(***************************************************************************)

\* qusort the pointers b.
Sort(b) == ibuf' = b /\ segs' = <<<<1, Len(b)>>>> /\ part' = Idle /\ pc' = "qusort"

\* One turn of while(lines > 0 && ...): a line is read, or the next file begun.
ReadLine ==
  /\ pc = "read" /\ Len(text) < Chunk /\ unread[is] # << >>
  /\ text' = Append(text, Head(unread[is])) /\ unread' = [unread EXCEPT ![is] = Tail(@)]
  /\ UNCHANGED <<setup, disk, nfiles, is, streams, ibuf, qstate, flags, fault, os, pc, error>>
ReadOn ==
  /\ pc = "read" /\ Len(text) < Chunk /\ unread[is] = << >> /\ is < eargc
  /\ is' = is + 1
  /\ UNCHANGED <<setup, disk, nfiles, unread, text, streams, ibuf, qstate, flags, fault, os, pc, error>>
ReadAll ==
  /\ pc = "read" /\ (Len(text) = Chunk \/ (unread[is] = << >> /\ is = eargc))
  /\ Sort([k \in 1 .. Len(text) |-> k])
  /\ UNCHANGED <<setup, disk, nfiles, reading, text, streams, caller, flags, fault, os, error>>

\* The end of the input was seen while there was room for a line.
Done == Len(text) < Chunk
Direct == Done /\ nfiles = eargc

\* The sorted chunk goes to the output or to the next temporary file.
StoreChunk ==
  /\ pc = "store" /\ (Direct \/ NewfileWorks)
  /\ os' = IF Direct THEN Output ELSE nfiles
  /\ nfiles' = IF Direct THEN nfiles ELSE nfiles + 1
  /\ disk' = [disk EXCEPT ![IF Direct THEN Output ELSE nfiles] = << >>]
  /\ pc' = "put"
  /\ UNCHANGED <<setup, reading, text, streams, ibuf, qstate, flags, fault, error>>

\* The temporary name is taken.
StoreChunkFails ==
  /\ pc = "store" /\ ~Direct /\ ~NewfileWorks
  /\ Term(1)
  /\ UNCHANGED <<setup, nfiles, reading, text, streams, ibuf, qstate, flags, fault, os>>

\* while(lp > lspace): the last line is written, unless it was voided.
PutLine ==
  /\ pc = "put" /\ ibuf # << >>
  /\ LET x == text[Last(ibuf)]
     IN disk' = IF x = NoLine THEN disk ELSE [disk EXCEPT ![os] = Append(@, x)]
  /\ ibuf' = Front(ibuf)
  /\ UNCHANGED <<setup, nfiles, reading, text, streams, qstate, flags, fault, os, pc, error>>
PutLineFails ==
  /\ pc = "put" /\ ibuf # << >>
  /\ Fail /\ UNCHANGED Failed
PutAll ==
  /\ pc = "put" /\ ibuf = << >>
  /\ pc' = IF Done THEN "plan" ELSE "read"
  /\ text' = << >>
  /\ UNCHANGED <<setup, disk, nfiles, reading, streams, ibuf, qstate, flags, fault, os, error>>

\* What is left of s when the last buffer does not reach the disk: a beginning of it,
\* and perhaps of the next line.
Cuts(s) ==
  LET whole == {SubSeq(s, 1, n) : n \in 0 .. Len(s) - 1}
  IN whole \cup {Append(t, x) : t \in whole, x \in Lines}

\* fclose writes the last buffer, and nobody asks whether it did: sort goes on.
PutAllCuts ==
  /\ pc = "put" /\ ibuf = << >> /\ Faulty /\ disk[os] # << >>
  /\ \E s \in Cuts(disk[os]) : disk' = [disk EXCEPT ![os] = s]
  /\ fault' = "silent"
  /\ pc' = IF Done THEN "plan" ELSE "read"
  /\ text' = << >>
  /\ UNCHANGED <<setup, nfiles, reading, streams, ibuf, qstate, flags, os, error>>

\* The output or the temporary file cannot be created.
CreateFails ==
  /\ \/ pc = "store" /\ ~(Direct /\ Output = Stdout)
     \/ pc = "plan" /\ (Staged \/ (range[2] # nfiles /\ Output # Stdout))
  /\ Fail /\ UNCHANGED Failed

-----------------------------------------------------------------------------
(***************************************************************************)
(* qusort: a quicksort with a middle part lp..hp of equal lines, which     *)
(* puts the largest first and, with -u, voids all but one of the equals.   *)
(* segs are the calls to come, the next one last.                          *)
(***************************************************************************)

Line(p) == IF caller = "sort" THEN text[p] ELSE mem[p]
CompareAt(k, l) == Compare(Line(ibuf[k]), Line(ibuf[l]))

Swap(s, p, q) == [s EXCEPT ![p] = s[q], ![q] = s[p]]
Turn(s, p, q, r) ==   \* qstexc
  LET s1 == [s EXCEPT ![p] = s[r], ![r] = s[q]]
  IN [s1 EXCEPT ![q] = s[p]]

QusortBegin ==
  /\ pc = "qusort" /\ part = Idle /\ segs # << >>
  /\ LET a == Last(segs)[1]
         b == Last(segs)[2]
         mid == a + (b - a + 1) \div 2
     IN IF b - a < 1 THEN segs' = Front(segs) /\ UNCHANGED part
        ELSE part' = [i |-> a, j |-> b, lp |-> mid, hp |-> mid, top |-> TRUE] /\ UNCHANGED segs
  /\ UNCHANGED <<setup, disk, nfiles, reading, text, streams, ibuf, caller, flags, fault, os, pc, error>>

\* for(;;): the left part is looked at first (top), but not after "goto loop".
LeftIs(c) == part.top /\ part.i < part.lp /\ c
LeftEqual == LeftIs(CompareAt(part.i, part.lp) = 0)
LeftLarger == LeftIs(CompareAt(part.i, part.lp) < 0)
RightIs(c) == ~LeftEqual /\ ~LeftLarger /\ part.j > part.hp /\ c
BothDone == ~LeftEqual /\ ~LeftLarger /\ part.j <= part.hp

QusortLeft ==
  \/ /\ LeftEqual
     /\ ibuf' = Swap(ibuf, part.i, part.lp - 1)
     /\ part' = [part EXCEPT !.lp = @ - 1]
  \/ /\ LeftLarger
     /\ part' = [part EXCEPT !.i = @ + 1] /\ UNCHANGED ibuf
QusortRight ==
  \/ /\ RightIs(CompareAt(part.hp, part.j) = 0)
     /\ ibuf' = Swap(ibuf, part.hp + 1, part.j)
     /\ part' = [part EXCEPT !.hp = @ + 1, !.top = FALSE]
  \/ /\ RightIs(CompareAt(part.hp, part.j) > 0) /\ part.i = part.lp
     /\ ibuf' = Turn(ibuf, part.i, part.hp + 1, part.j)
     /\ part' = [part EXCEPT !.i = part.lp + 1, !.lp = @ + 1, !.hp = @ + 1, !.top = FALSE]
  \/ /\ RightIs(CompareAt(part.hp, part.j) > 0) /\ part.i # part.lp
     /\ ibuf' = Swap(ibuf, part.i, part.j)
     /\ part' = [part EXCEPT !.i = @ + 1, !.j = @ - 1, !.top = TRUE]
  \/ /\ RightIs(CompareAt(part.hp, part.j) < 0)
     /\ part' = [part EXCEPT !.j = @ - 1, !.top = FALSE] /\ UNCHANGED ibuf
QusortTurn ==
  /\ BothDone /\ part.i # part.lp
  /\ ibuf' = Turn(ibuf, part.j, part.lp - 1, part.i)
  /\ part' = [part EXCEPT !.lp = @ - 1, !.hp = @ - 1, !.j = part.hp - 1, !.top = TRUE]
QusortLoop ==
  /\ pc = "qusort" /\ part # Idle
  /\ (QusortLeft \/ QusortRight \/ QusortTurn)
  /\ UNCHANGED <<setup, disk, nfiles, reading, text, streams, caller, segs, flags, fault, os, pc, error>>

\* The part is done: equals are voided, the longer side is sorted last.
Doubles == IF opt.u THEN {ibuf[k] : k \in part.lp + 1 .. part.hp} ELSE {}
Voided(f) == [p \in DOMAIN f |-> IF p \in Doubles THEN NoLine ELSE f[p]]
QusortParted ==
  /\ pc = "qusort" /\ part # Idle /\ BothDone /\ part.i = part.lp
  /\ text' = (IF caller = "sort" THEN Voided(text) ELSE text)
  /\ mem' = (IF caller = "sort" THEN mem ELSE Voided(mem))
  /\ LET a == Last(segs)[1]
         b == Last(segs)[2]
         left == <<a, part.lp - 1>>
         right == <<part.hp + 1, b>>
     IN segs' = Front(segs) \o (IF part.lp - a >= b + 1 - part.hp THEN <<left, right>> ELSE <<right, left>>)
  /\ part' = Idle
  /\ UNCHANGED <<setup, disk, nfiles, reading, rest, opened, ibuf, caller, flags, fault, os, pc, error>>

QusortReturn ==
  /\ pc = "qusort" /\ segs = << >>
  /\ pc' = IF caller = "sort" THEN "store" ELSE "drop"
  /\ UNCHANGED <<setup, disk, nfiles, reading, text, streams, ibuf, qstate, flags, fault, os, error>>

-----------------------------------------------------------------------------
(***************************************************************************)
(* main: which files are merged next, and into what.                       *)
(***************************************************************************)

\* A buffer that holds no line, one that was voided or that sort() had for its chunk,
\* is compared all the same, and may read as any line or as none.
PrevReads(p) ==
  IF mem[p] = NoLine /\ opt.u /\ ~opt.m /\ ~opt.c
  THEN \E x \in {NoLine} \cup Lines : mem' = [mem EXCEPT ![p] = x]
  ELSE UNCHANGED mem

PlanRun ==
  /\ pc = "plan" /\ Staged /\ NewfileWorks
  /\ range' = <<range[2], IF range[2] + N >= nfiles THEN nfiles ELSE range[2] + N>>
  /\ os' = nfiles /\ nfiles' = nfiles + 1
  /\ disk' = [disk EXCEPT ![nfiles] = << >>]
  /\ pc' = "open" /\ caller' = "merge" /\ opened' = 0 /\ ibuf' = << >> /\ fresh' = FALSE
  /\ PrevReads(range'[2] - range'[1])
  /\ UNCHANGED <<setup, reading, text, rest, segs, part, muflg, lost, fault, error>>

PlanFails ==
  /\ pc = "plan" /\ Staged /\ ~NewfileWorks
  /\ Term(1)
  /\ UNCHANGED <<setup, nfiles, reading, text, streams, ibuf, qstate, flags, fault, os>>

\* The output is opened, and with it emptied.
PlanOutput ==
  /\ pc = "plan" /\ ~Staged /\ range[2] # nfiles
  /\ range' = <<range[2], nfiles>>
  /\ os' = Output
  /\ disk' = [disk EXCEPT ![Output] = << >>]
  /\ pc' = "open" /\ caller' = "merge" /\ opened' = 0 /\ ibuf' = << >> /\ fresh' = FALSE
  /\ PrevReads(range'[2] - range'[1])
  /\ UNCHANGED <<setup, nfiles, reading, text, rest, segs, part, muflg, lost, fault, error>>

PlanDone ==
  /\ pc = "plan" /\ ~Staged /\ range[2] = nfiles
  /\ Term(0)
  /\ UNCHANGED <<setup, nfiles, reading, text, streams, ibuf, qstate, flags, fault, os>>

-----------------------------------------------------------------------------
(***************************************************************************)
(* merge(a, b).                                                            *)
(***************************************************************************)

\* The structure behind those of the files, p->l: the line last written.
Prev == range[2] - range[1]

\* rline: the next line of a stream.  (RlineStuck: it is read again.)
RlineStuck(p) ==
  UNCHANGED <<mem, rest>>
Rline(p) ==
  /\ mem' = [mem EXCEPT ![p] = Head(rest[p])]
  /\ rest' = [rest EXCEPT ![p] = Tail(@)]

\* The next file is opened, and its first line read.
OpenFile ==
  /\ pc = "open" /\ opened < Prev
  /\ LET p == opened
         lines == disk[range[1] + p]
     IN IF lines = << >>
        THEN rest' = [rest EXCEPT ![p] = << >>] /\ UNCHANGED <<mem, ibuf>>
        ELSE /\ mem' = [mem EXCEPT ![p] = Head(lines)]
             /\ rest' = [rest EXCEPT ![p] = Tail(lines)]
             /\ ibuf' = Append(ibuf, p)
  /\ opened' = opened + 1
  /\ UNCHANGED <<setup, disk, nfiles, reading, text, qstate, flags, fault, os, pc, error>>
OpenedAll ==
  /\ pc = "open" /\ opened = Prev
  /\ Sort(ibuf)
  /\ UNCHANGED <<setup, disk, nfiles, reading, text, streams, caller, flags, fault, os, error>>

\* do ... while(l): a structure whose line was voided reads the next line or is
\* dropped, the last one first; if there was one, the structures are sorted again.
Voids == {k \in DOMAIN ibuf : mem[ibuf[k]] = NoLine}
DropVoid ==
  /\ pc \in {"drop", "again"} /\ Voids # {}
  /\ LET k == Max(Voids)
     IN IF rest[ibuf[k]] = << >>
        THEN ibuf' = RemoveAt(ibuf, k) /\ UNCHANGED <<mem, rest>>
        ELSE Rline(ibuf[k]) /\ UNCHANGED ibuf
  /\ pc' = "again"
  /\ UNCHANGED <<setup, disk, nfiles, reading, text, opened, qstate, flags, fault, os, error>>
SortAgain ==
  /\ pc = "again" /\ Voids = {}
  /\ Sort(ibuf)
  /\ UNCHANGED <<setup, disk, nfiles, reading, text, streams, caller, flags, fault, os, error>>
NoneDropped ==
  /\ pc = "drop" /\ Voids = {}
  /\ pc' = IF ibuf = << >> THEN "close" ELSE "line"
  /\ muflg' = ((opt.m /\ opt.u) \/ opt.c)
  /\ UNCHANGED <<setup, disk, nfiles, reading, text, streams, ibuf, qstate, range, fresh, lost, fault, os, error>>

\* The smallest line is written, unless -u and the next stream begins with its
\* equal.
MergeLine ==
  /\ pc = "line"
  /\ LET x == mem[Last(ibuf)]
         doubled == opt.u /\ ~muflg /\ Len(ibuf) > 1
                      /\ Compare(x, mem[ibuf[Len(ibuf) - 1]]) = 0
     IN /\ disk' = IF opt.c \/ doubled THEN disk ELSE [disk EXCEPT ![os] = Append(@, x)]
        /\ mem' = IF muflg THEN [mem EXCEPT ![Prev] = x] ELSE mem
        /\ fresh' = (fresh \/ muflg)
  /\ pc' = "next"
  /\ UNCHANGED <<setup, nfiles, reading, text, rest, opened, ibuf, qstate, muflg, range, lost, fault, os, error>>

\* The line cannot be written.
MergeLineFails ==
  /\ pc = "line" /\ ~opt.c
  /\ Fail /\ UNCHANGED Failed

\* The last pointer moves up to where its line belongs.
\* (InsertStops: --ip > ibuf + 1.)
Moved(b, to) == [k \in DOMAIN b |-> CASE k < to -> b[k] [] k = to -> Last(b) [] k > to -> b[k - 1]]
Stops(b, m) == {k \in 2 .. Len(b) : Compare(m[Last(b)], m[b[k - 1]]) >= 0}
InsertStops(b, m) == Moved(b, Max({k \in {2} : Len(b) > 1} \cup {1} \cup Stops(b, m)))
Insert(b, m) == Moved(b, Max({1} \cup Stops(b, m)))

\* What -c complains of.
Disorder(x, last) == Compare(x, last) > 0 \/ (opt.u /\ Compare(x, last) = 0)

\* One turn of for(;;): the next line of the stream just used.
StreamEnds ==
  /\ pc = "next" /\ rest[Last(ibuf)] = << >>
  /\ LET b == Front(ibuf)
     IN /\ ibuf' = Insert(b, mem)
        /\ muflg' = IF Len(b) = 1 THEN opt.u ELSE muflg
        /\ pc' = IF b = << >> THEN "close" ELSE "check"
  /\ UNCHANGED <<setup, disk, nfiles, reading, text, streams, qstate, range, fresh, lost, fault, os, error>>
StreamReads ==
  /\ pc = "next" /\ rest[Last(ibuf)] # << >>
  /\ Rline(Last(ibuf))
  /\ ibuf' = Insert(ibuf, [mem EXCEPT ![Last(ibuf)] = Head(rest[Last(ibuf)])])
  /\ pc' = "check"
  /\ UNCHANGED <<setup, disk, nfiles, reading, text, opened, qstate, flags, fault, os, error>>

\* The line is compared with the one last written: -c ends at a disorder, and an
\* equal is passed over.
SameAsLast == muflg /\ mem[Prev] # NoLine /\ Compare(mem[Last(ibuf)], mem[Prev]) = 0
NextLine ==
  /\ pc = "check"
  /\ ~(opt.c /\ Disorder(mem[Last(ibuf)], mem[Prev]))
  /\ pc' = IF ~opt.c /\ SameAsLast THEN "next" ELSE "line"
  /\ lost' = (lost \/ (SameAsLast /\ ~fresh))
  /\ UNCHANGED <<setup, disk, nfiles, reading, text, streams, ibuf, qstate, muflg, range, fresh, fault, os, error>>
Disordered ==
  /\ pc = "check"
  /\ opt.c /\ Disorder(mem[Last(ibuf)], mem[Prev])
  /\ Term(1)
  /\ UNCHANGED <<setup, nfiles, reading, text, streams, ibuf, qstate, flags, fault, os>>

\* The temporary files merged are removed, and the output is closed.
Unlinked(d) == [f \in DOMAIN d |-> IF f \in range[1] .. range[2] - 1 /\ f >= eargc THEN Absent ELSE d[f]]
MergeClose ==
  /\ pc = "close" /\ pc' = "plan"
  /\ disk' = Unlinked(disk)
  /\ UNCHANGED <<setup, nfiles, reading, text, streams, ibuf, qstate, flags, fault, os, error>>

MergeCloseCuts ==
  /\ pc = "close" /\ pc' = "plan" /\ Faulty /\ ~opt.c /\ disk[os] # << >>
  /\ \E s \in Cuts(disk[os]) : disk' = Unlinked([disk EXCEPT ![os] = s])
  /\ fault' = "silent"
  /\ UNCHANGED <<setup, nfiles, reading, text, streams, ibuf, qstate, flags, os, error>>

\* A file cannot be opened, or read.
ReadFails ==
  /\ \/ pc = "read" /\ Len(text) < Chunk
     \/ pc = "open" /\ opened < Prev
     \/ pc \in {"drop", "again"} /\ Voids # {}
     \/ pc = "next"
  /\ Fail /\ UNCHANGED Failed

SortNext ==
  \/ ReadLine \/ ReadOn \/ ReadAll \/ StoreChunk \/ StoreChunkFails \/ PutLine \/ PutLineFails \/ PutAll
  \/ PutAllCuts \/ CreateFails \/ ReadFails
  \/ QusortBegin \/ QusortLoop \/ QusortParted \/ QusortReturn
  \/ PlanRun \/ PlanFails \/ PlanOutput \/ PlanDone
  \/ OpenFile \/ OpenedAll \/ DropVoid \/ SortAgain \/ NoneDropped
  \/ MergeLine \/ MergeLineFails \/ StreamEnds \/ StreamReads \/ NextLine \/ Disordered \/ MergeClose
  \/ MergeCloseCuts

SortSpec == SortInit /\ [][SortNext]_sortvars /\ WF_sortvars(SortNext)

-----------------------------------------------------------------------------
(***************************************************************************)
(* Properties.                                                             *)
(***************************************************************************)

Ascending(s) == \A i \in 1 .. Len(s) - 1 : Compare(s[i], s[i + 1]) >= 0
Unique(s) == \A i \in 1 .. Len(s) - 1 : Compare(s[i], s[i + 1]) > 0

\* Where a line is in texts, and the lines that are in them.
Places(x, texts) == UNION {{f} \X {i \in DOMAIN texts[f] : texts[f][i] = x} : f \in DOMAIN texts}
Times(x, texts) == Cardinality(Places(x, texts))
Within(texts) == {x \in Lines : Places(x, texts) # {}}

\* What is written is the input sorted: all its lines, or with -u one of each
\* kind, whatever the number of runs and passes, and also onto an input file.
\* But for the lines lost: merge compares the line of the last stream left with what
\* was in memory before; and unless a write failed that nobody noticed.
SortedOutput ==
  pc = "exit" /\ error = 0 /\ fault # "silent" /\ ~opt.c /\ (opt.m => \A f \in DOMAIN input : Ascending(input[f])) =>
    LET out == disk[opt.o] IN
      IF opt.u THEN /\ Unique(out) /\ Within(<<out>>) \subseteq Within(input)
                    /\ lost \/ {Key[x] : x \in Within(<<out>>)} = {Key[x] : x \in Within(input)}
               ELSE Ascending(out) /\ \A x \in Lines : Times(x, <<out>>) = Times(x, input)

\* However sort ends, no temporary file of its own is left and no file that had
\* such a name before is touched.
NoTempLeft ==
  pc = "exit" => \A f \in DOMAIN disk \ {Stdout} : f >= eargc =>
    disk[f] = IF f \in foreign THEN << >> ELSE Absent

\* -c tells whether the file is sorted, and with -u without equals, unless it cannot
\* be read: then it is never said to be.
CheckIsRight ==
  pc = "exit" /\ opt.c =>
    IF fault = "told" THEN error = 1
    ELSE error = 0 <=> IF opt.u THEN Unique(input[1]) ELSE Ascending(input[1])

\* sort writes its input sorted whatever the runs and merge passes, leaves no temporary
\* file however it ends and touches no other, and -c tells what is sorted.
SortSafe == SortedOutput /\ NoTempLeft /\ CheckIsRight

\* An argument file changes only by becoming the output, and not before every
\* line of it has been read.
InputsKept ==
  [][\A f \in 0 .. eargc - 1 : disk'[f] # disk[f] =>
       /\ f = Output /\ \A k \in 1 .. eargc : unread'[k] = << >>
       /\ pc = "plan" => range'[1] >= eargc]_sortvars
=============================================================================
