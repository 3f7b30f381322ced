----------------------------- MODULE SedScript -----------------------------
(***************************************************************************)
(* sed/sed0.c compiles a script to a table of commands, resolving { } and  *)
(* the branches through chains in the commands themselves; sed/sed1.c runs *)
(* it over the lines of the input files, one step per command here.        *)
(*                                                                         *)
(* A source line is [a1, a2, bang, c, arg]: two addresses, "!", the command*)
(* letter and its argument (a label, a text, a file, or for s its parts).  *)
(* The layout of l, the pages of -p and the limits of the tables are left  *)
(* out; "!" before } or : is not written.                                  *)
(***************************************************************************)
EXTENDS SedRegex, FiniteSets

Address(k, n, e) == [kind |-> k, n |-> n, e |-> e]
NoAddr == Address("none", 0, << >>)

-----------------------------------------------------------------------------
(***************************************************************************)
(* fcomp.  t: prog, the commands; open, those whose } is to come; labs,    *)
(* the labels, the first for the end of the script, with the head of the   *)
(* chain of branches that wait for it; op, the last expression compiled.   *)
(***************************************************************************)
Label(name) == [name |-> name, chain |-> 0, address |-> 0]
Table == [prog |-> << >>, open |-> << >>, labs |-> <<Label("")>>, op |-> << >>, ok |-> TRUE]
Refused(t) == [t EXCEPT !.ok = FALSE]
OneAddress == {"=", "a", "i", "q", "r"}
Rep(t) == Len(t.prog) + 1

\* The empty expression is the one compiled last.
Expr(e, op) == IF e = << >> THEN op ELSE e
LastExpr(a, op) == IF a.kind = "re" THEN Expr(a.e, op) ELSE op
Filled(a, op) == IF a.kind = "re" THEN [a EXCEPT !.e = Expr(@, op)] ELSE a

Command(l, op, lb) ==
  LET op1 == LastExpr(l.a1, op)
      op2 == LastExpr(l.a2, op1)
  IN [a1 |-> Filled(l.a1, op), a2 |-> Filled(l.a2, op1), neg |-> l.bang, c |-> l.c, lb |-> lb,
      arg |-> IF l.c = "s" THEN [l.arg EXCEPT !.e = Expr(@, op2)] ELSE l.arg]
OpAfter(l, op) == LET op2 == LastExpr(l.a2, LastExpr(l.a1, op))
                  IN IF l.c = "s" THEN Expr(l.arg.e, op2) ELSE op2
Emit(t, l, lb) == [t EXCEPT !.prog = Append(@, Command(l, t.op, lb)), !.op = OpAfter(l, t.op)]

Search(t, name) == {i \in 1..Len(t.labs) : t.labs[i].name = name}
RECURSIVE ChainEnd(_, _)
ChainEnd(prog, i) == IF prog[i].lb = 0 THEN i ELSE ChainEnd(prog, prog[i].lb)

Open(t, l) == LET u == Emit(t, [l EXCEPT !.bang = ~@, !.c = "b"], 0)
              IN [u EXCEPT !.open = Append(@, Rep(t))]
Close(t, l) == IF l.a1 # NoAddr \/ t.open = << >> THEN Refused(t)
               ELSE [t EXCEPT !.prog[Last(t.open)].lb = Rep(t), !.open = Front(@)]
Define(t, l) ==
  IF l.a1 # NoAddr \/ \E i \in Search(t, l.arg) : t.labs[i].address # 0 THEN Refused(t)
  ELSE IF Search(t, l.arg) = {}
  THEN [t EXCEPT !.labs = Append(@, [Label(l.arg) EXCEPT !.address = Rep(t)])]
  ELSE [t EXCEPT !.labs[CHOOSE i \in Search(t, l.arg) : TRUE].address = Rep(t)]
Branch(t, l) ==
  IF Search(t, l.arg) = {}
  THEN [Emit(t, l, 0) EXCEPT !.labs = Append(@, [Label(l.arg) EXCEPT !.chain = Rep(t)])]
  ELSE LET i == CHOOSE i \in Search(t, l.arg) : TRUE
           lab == t.labs[i]
       IN IF lab.address # 0 THEN Emit(t, l, lab.address)
          ELSE IF lab.chain = 0 THEN [Emit(t, l, 0) EXCEPT !.labs[i].chain = Rep(t)]
          ELSE [Emit(t, l, 0) EXCEPT !.prog[ChainEnd(t.prog, lab.chain)].lb = Rep(t)]

Fcomp1(t, l) ==
  IF ~t.ok \/ (l.c \in OneAddress /\ l.a2 # NoAddr) THEN Refused(t)
  ELSE CASE l.c = "{" -> Open(t, l)
         [] l.c = "}" -> Close(t, l)
         [] l.c = ":" -> Define(t, l)
         [] l.c \in {"b", "t"} -> Branch(t, l)
         [] l.c = "D" -> Emit(t, l, 1)
         [] l.c \notin {"{", "}", ":", "b", "t", "D"} -> Emit(t, l, 0)
Fcomp(src) == FoldLeft(Fcomp1, Table, src)

\* dechain, the end of the script being the address of the first label.
RECURSIVE Unchain(_, _, _)
Unchain(prog, i, address) ==
  LET new == [prog EXCEPT ![i].lb = address]
  IN IF prog[i].lb = 0 THEN new ELSE Unchain(new, prog[i].lb, address)
\* (Unheaded: the last of a chain is forgotten.)
RECURSIVE Unheaded(_, _, _)
Unheaded(prog, i, address) ==
  IF prog[i].lb = 0 THEN prog
  ELSE Unheaded([prog EXCEPT ![i].lb = address], prog[i].lb, address)
DechainedShort(prog, lab) == IF lab.chain = 0 THEN prog
                             ELSE Unheaded(prog, lab.chain, lab.address)
Dechained(prog, lab) == IF lab.chain = 0 THEN prog ELSE Unchain(prog, lab.chain, lab.address)
Dechain(t) ==
  LET labs == [t.labs EXCEPT ![1].address = Rep(t)]
  IN IF ~t.ok \/ t.open # << >> \/ \E i \in 1..Len(labs) : labs[i].address = 0 THEN Refused(t)
     ELSE [t EXCEPT !.prog = FoldLeft(Dechained, @, labs)]
Compiled(src) == Dechain(Fcomp(src))

-----------------------------------------------------------------------------
CONSTANTS
  SedJobs,   \* what may be run: [src, nflag, files, want], a file being a sequence of lines
  Reads      \* Reads[f]: the lines of the file f, for r; << >> when it cannot be opened
VARIABLES
  sedjob, prog, inar,  \* the script; which of its ranges are open
  files, cur,          \* the files to come; what is left of the one being read
  pat, hold, lnum,     \* pattern space, hold space, line number
  ipc,                 \* the command, 0 between two lines, -1 between two files, -2 at the end
  delflag, sflag,
  pending,             \* the n or N that found the file at its end, 0 for none
  app,                 \* the a and r commands to be carried out after the line
  written              \* what has been written: to "", and to the files of w
sedvars == <<sedjob, prog, inar, files, cur, pat, hold, lnum, ipc, delflag, sflag, pending,
             app, written>>

SedInit ==
  /\ sedjob \in SedJobs
  /\ LET t == Compiled(sedjob.src)
     IN prog = t.prog /\ ipc = IF t.ok THEN -1 ELSE -2
  /\ inar = [i \in 1..Len(prog) |-> FALSE]
  /\ files = sedjob.files /\ cur = << >> /\ pat = << >> /\ hold = << >> /\ lnum = 0
  /\ delflag = FALSE /\ sflag = FALSE /\ pending = 0 /\ app = << >> /\ written = << >>

\* $: one line is read ahead, in the last file only.
Dolflag == cur = << >> /\ files = << >>
To(f, line) == <<f, line>>
Texts(queue) == FlattenSeq([i \in 1..Len(queue) |->
                  LET p == prog[queue[i]]
                  IN IF p.c = "a" THEN <<To("", p.arg)>>
                     ELSE [j \in 1..Len(Reads[p.arg]) |-> To("", Reads[p.arg][j])]])

\* execute: the next file; a command that was waiting is carried out again, on what it left.
NextFile ==
  /\ ipc = -1
  /\ IF files = << >> THEN ipc' = -2 /\ UNCHANGED <<files, cur>>
     ELSE /\ files' = Tail(files) /\ cur' = Head(files)
          /\ ipc' = pending
  /\ UNCHANGED <<pending, sedjob, prog, inar, pat, hold, lnum, delflag, sflag, app, written>>

\* gline
NextLine ==
  /\ ipc = 0
  /\ IF cur = << >> THEN ipc' = -1 /\ UNCHANGED <<cur, pat, lnum>>
     ELSE cur' = Tail(cur) /\ pat' = Head(cur) /\ lnum' = lnum + 1 /\ ipc' = 1
  /\ UNCHANGED <<sedjob, prog, inar, files, hold, delflag, sflag, pending, app, written>>

Running == ipc > 0 /\ ipc <= Len(prog) /\ ~delflag
LineDone ==
  /\ ipc > 0 /\ (ipc > Len(prog) \/ delflag)
  /\ written' = written \o (IF sedjob.nflag \/ delflag THEN << >> ELSE <<To("", pat)>>)
                        \o Texts(app)
  /\ app' = << >> /\ delflag' = FALSE /\ ipc' = 0
  /\ UNCHANGED <<sedjob, prog, inar, files, cur, pat, hold, lnum, sflag, pending>>

-----------------------------------------------------------------------------
Found1(a) == CASE a.kind = "num" -> lnum = a.n
               [] a.kind = "end" -> Dolflag
               [] a.kind = "re" -> Match(Compile(a.e), pat).ok
\* Is the command i meant for this line, "!" left aside?  A range is open from the line
\* the first address finds to the one the second does; beyond a second line number
\* it is closed, and this line is not looked at again.
Late(i) == inar[i] /\ prog[i].a2.kind = "num" /\ lnum > prog[i].a2.n
Selected(i) == \/ prog[i].a1 = NoAddr
               \/ inar[i] /\ ~Late(i)
               \/ ~inar[i] /\ Found1(prog[i].a1)
Opened(i) == IF prog[i].a1 = NoAddr THEN inar[i]
             ELSE IF inar[i] THEN ~(Late(i) \/ (prog[i].a2.kind # "end" /\ Found1(prog[i].a2)))
             ELSE prog[i].a1.kind # "end" /\ Found1(prog[i].a1) /\ prog[i].a2 # NoAddr

Carried == /\ Running /\ pending = 0 /\ Selected(ipc) # prog[ipc].neg
           /\ inar' = [inar EXCEPT ![ipc] = Opened(ipc)]
Skip == /\ Running /\ pending = 0 /\ Selected(ipc) = prog[ipc].neg
        /\ inar' = [inar EXCEPT ![ipc] = Opened(ipc)] /\ ipc' = ipc + 1
        /\ UNCHANGED <<sedjob, prog, files, cur, pat, hold, lnum, delflag, sflag, pending, app,
                       written>>
Is(S) == prog[ipc].c \in S
Step == ipc' = ipc + 1
SedStill == UNCHANGED <<sedjob, prog, files>>

\* p P i = l w a r c d: nothing but output, and the end of the line.
FirstLine(s) == LET nl == {i \in 1..Len(s) : s[i] = "\n"}
                IN IF nl = {} THEN s
                   ELSE SubSeq(s, 1, (CHOOSE i \in nl : \A j \in nl : i <= j) - 1)
Output ==
  /\ Carried /\ Is({"p", "P", "i", "=", "l", "w", "c", "a", "r", "d"})
  /\ written' = CASE Is({"p", "l"}) -> Append(written, To("", pat))
                  [] Is({"P"}) -> Append(written, To("", FirstLine(pat)))
                  [] Is({"i"}) -> Append(written, To("", prog[ipc].arg))
                  [] Is({"="}) -> Append(written, To("", <<ToString(lnum)>>))
                  [] Is({"w"}) -> Append(written, To(prog[ipc].arg, pat))
                  [] Is({"c"}) -> IF ~inar'[ipc] \/ Dolflag
                                  THEN Append(written, To("", prog[ipc].arg)) ELSE written
                  [] Is({"a", "r", "d"}) -> written
  /\ app' = IF Is({"a", "r"}) THEN Append(app, ipc) ELSE app
  /\ delflag' = Is({"c", "d"}) /\ Step
  /\ SedStill /\ UNCHANGED <<cur, pat, hold, lnum, sflag, pending>>

\* g G h H x y: the two spaces.
Spaces ==
  /\ Carried /\ Is({"g", "G", "h", "H", "x", "y"})
  /\ pat' = CASE Is({"g", "x"}) -> hold
              [] Is({"G"}) -> pat \o <<"\n">> \o hold
              [] Is({"y"}) -> [i \in 1..Len(pat) |-> IF pat[i] \in DOMAIN prog[ipc].arg
                                                     THEN prog[ipc].arg[pat[i]] ELSE pat[i]]
              [] Is({"h", "H"}) -> pat
  /\ hold' = CASE Is({"h", "x"}) -> pat
               [] Is({"H"}) -> hold \o <<"\n">> \o pat
               [] Is({"g", "G", "y"}) -> hold
  /\ Step /\ SedStill
  /\ UNCHANGED <<cur, lnum, delflag, sflag, pending, app, written>>

\* D: without a newline it is d; otherwise the script starts again on what is left.
DeleteFirst ==
  /\ Carried /\ Is({"D"})
  /\ IF \E i \in 1..Len(pat) : pat[i] = "\n"
     THEN pat' = SubSeq(pat, Len(FirstLine(pat)) + 2, Len(pat)) /\ ipc' = prog[ipc].lb
          /\ UNCHANGED delflag
     ELSE delflag' = TRUE /\ Step /\ UNCHANGED pat
  /\ SedStill /\ UNCHANGED <<cur, hold, lnum, sflag, pending, app, written>>

\* b, t, and { which is a negated b.
Jump ==
  /\ Carried /\ Is({"b", "t"})
  /\ ipc' = IF Is({"b"}) \/ sflag THEN prog[ipc].lb ELSE ipc + 1
  /\ sflag' = (sflag /\ ~Is({"t"}))
  /\ SedStill /\ UNCHANGED <<cur, pat, hold, lnum, delflag, pending, app, written>>

\* n N (the next line; N leaves a newline even when there is none) and a pending one.
ReadMore ==
  LET pats == IF Is({"N"}) THEN Append(pat, "\n") ELSE pat
      out == IF Is({"n"}) /\ ~sedjob.nflag THEN <<To("", pat)>> ELSE << >>
  IN /\ written' = written \o out \o Texts(app) /\ app' = << >>
     /\ IF cur = << >>
        THEN pat' = pats /\ pending' = ipc /\ delflag' = TRUE /\ ipc' = ipc
             /\ UNCHANGED <<cur, lnum>>
        ELSE /\ pat' = (IF Is({"N"}) THEN pats ELSE << >>) \o Head(cur)
             /\ cur' = Tail(cur) /\ lnum' = lnum + 1 /\ Step /\ pending' = 0 /\ UNCHANGED delflag
     /\ SedStill /\ UNCHANGED <<hold, sflag>>
ReadNext == Carried /\ Is({"n", "N"}) /\ ReadMore
\* Its addresses are not looked at again.
Resume == Running /\ pending # 0 /\ ReadMore /\ UNCHANGED inar

\* s: with p or P or a file.
Subst ==
  /\ Carried /\ Is({"s"})
  /\ LET a == prog[ipc].arg
         c == Compile(a.e)
     IN \E r \in {Substitute(c, Compsub(a.rhs, c.numbra).rhs, a.g, pat)} :
        /\ r.ends
        /\ pat' = r.s /\ sflag' = (sflag \/ r.ok)
        /\ written' = written \o (CASE r.ok /\ a.p = "p" -> <<To("", r.s)>>
                                    [] r.ok /\ a.p = "P" -> <<To("", FirstLine(r.s))>>
                                    [] ~r.ok \/ a.p = "" -> << >>)
                              \o (IF r.ok /\ a.w # "" /\ a.p # "P" THEN <<To(a.w, r.s)>>
                                  ELSE << >>)
  /\ Step /\ SedStill /\ UNCHANGED <<cur, hold, lnum, delflag, pending, app>>

Quit ==
  /\ Carried /\ Is({"q"})
  /\ written' = written \o (IF sedjob.nflag THEN << >> ELSE <<To("", pat)>>) \o Texts(app)
  /\ ipc' = -2 /\ app' = << >>
  /\ SedStill /\ UNCHANGED <<cur, pat, hold, lnum, delflag, sflag, pending>>

SedNext == \/ NextFile \/ NextLine \/ LineDone \/ Skip \/ Output \/ Spaces
           \/ DeleteFirst \/ Jump \/ ReadNext \/ Resume \/ Subst \/ Quit
SedSpec == SedInit /\ [][SedNext]_sedvars

-----------------------------------------------------------------------------
\* A branch goes behind the definition of its label, { behind its }, and a branch without
\* a label to the end: by the places in the source.
Emitted(j) == Cardinality({k \in 1..j - 1 : sedjob.src[k].c \notin {"}", ":"}}) + 1
Depth(j, k) == Cardinality({x \in j..k : sedjob.src[x].c = "{"})
               - Cardinality({x \in j..k : sedjob.src[x].c = "}"})
BranchesLand ==
  ipc # -2 => \A j \in 1..Len(sedjob.src) :
    LET l == sedjob.src[j]
        lb == prog[Emitted(j)].lb
    IN /\ l.c \in {"b", "t"} /\ l.arg = "" => lb = Len(prog) + 1
       /\ l.c \in {"b", "t"} /\ l.arg # "" =>
            \E k \in 1..Len(sedjob.src) : /\ sedjob.src[k].c = ":" /\ sedjob.src[k].arg = l.arg
                                          /\ lb = Emitted(k)
       /\ l.c = "{" => \E k \in j..Len(sedjob.src) : /\ lb = Emitted(k) /\ Depth(j, k) = 0
                                                      /\ \A x \in j..k - 1 : Depth(j, x) > 0

\* What a script is for: sedjob.want is what must have been written then.
WritesWanted == ipc = -2 => written = sedjob.want
=============================================================================
