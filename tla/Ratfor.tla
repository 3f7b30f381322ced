------------------------------- MODULE Ratfor -------------------------------
(***************************************************************************)
(* ratfor (src/ratfor/ratfor.c, without F77): the statements of a ratfor   *)
(* program become lines of Fortran with labels and gotos.                  *)
(*                                                                         *)
(* The text is a sequence of tokens; blanks, comments, upper case and the  *)
(* column at which a line is continued are left out.  The state s of the   *)
(* translation: pb, what was pushed back; in, the rest of the file; up,    *)
(* the files that include it; defs, the definitions; st, the stack of the  *)
(* parser; lab, parse's variable of that name, which a token that makes no *)
(* label leaves as it was; fors, the clauses of the open for statements;   *)
(* sw, the open switch statements; line, the line begun; code, the lines;  *)
(* bad, that a message was given.                                          *)
(***************************************************************************)
EXTENDS Integers, Sequences, SequencesExt

CONSTANTS
  Value,      \* the numbers among the tokens, with their values
  Names,      \* the tokens that are names
  Files,      \* the files that can be included
  Texts,      \* the initial values of strings, with their characters
  MAXSTACK, MAXSWITCH, NFILES,
  startlab

NL == "newline"
EOF == "EOF"
NoLine == [labels |-> <<>>, tab |-> FALSE, text |-> <<>>]
Piece(t) == [t |-> t, n |-> 0]
Number(n) == [t |-> "number", n |-> n]
Let(v, Op(_)) == Op(v)

Start(text) ==
  [pb |-> <<>>, in |-> text, up |-> <<>>, defs |-> <<>>, st |-> <<>>, lab |-> 0, label |-> startlab, fors |-> <<>>,
   sw |-> <<>>, xfer |-> FALSE, fcname |-> "", sav |-> <<>>, line |-> NoLine, code |-> <<>>, bad |-> FALSE]

Synerr(s) == [s EXCEPT !.bad = TRUE]
\* baderr ends the program.
Baderr(s) == [s EXCEPT !.bad = TRUE, !.pb = <<>>, !.in = <<>>, !.up = <<>>]

-----------------------------------------------------------------------------
(* Tokens.                                                                 *)
Pbstr(s, t) == IF t = EOF THEN s ELSE [s EXCEPT !.pb = <<t>> \o @]
\* gtok: the next token and the state after it.
Gtok(s) == IF s.pb # <<>> THEN [t |-> Head(s.pb), s |-> [s EXCEPT !.pb = Tail(@)]]
           ELSE IF s.in # <<>> THEN [t |-> Head(s.in), s |-> [s EXCEPT !.in = Tail(@)]]
           ELSE [t |-> EOF, s |-> s]
Defined(s, t) == \E i \in DOMAIN s.defs : s.defs[i].name = t
Look(s, t) == s.defs[SelectLastInSeq(s.defs, LAMBDA d : d.name = t)].defn
Install(s, name, defn) == [s EXCEPT !.defs = Append(@, [name |-> name, defn |-> defn])]

\* The definition: up to the parenthesis that closes, or to the end of the line.
RECURSIVE Definition(_, _, _, _)
Definition(s, nlpar, name, defn) == Let(Gtok(s), LAMBDA g :
  LET depth == CASE nlpar >= 0 /\ g.t = "(" -> nlpar + 1 [] nlpar >= 0 /\ g.t = ")" -> nlpar - 1 [] OTHER -> nlpar
      inside == nlpar >= 0
  IN IF g.t = EOF THEN IF inside THEN Baderr(g.s) ELSE Install(g.s, name, defn)
     ELSE IF (inside /\ depth < 0) \/ (~inside /\ g.t = NL) THEN Install(g.s, name, defn)
     ELSE Definition(g.s, depth, name, Append(defn, g.t)))
Getdef(s) ==
  Let(Gtok(s), LAMBDA g :
  Let(IF g.t = "(" THEN Gtok(g.s) ELSE g, LAMBDA name :
  Let(Gtok(name.s), LAMBDA after :
    IF name.t \notin Names THEN Baderr(name.s)
    ELSE IF g.t # "(" THEN Definition(name.s, -1, name.t, <<>>)
    ELSE IF after.t # "," THEN Baderr(after.s)
    ELSE Definition(after.s, 0, name.t, <<>>))))
RECURSIVE Deftok(_)
Deftok(s) == Let(Gtok(s), LAMBDA g :
  CASE g.t \in {"define", "DEFINE"} -> Deftok(Getdef(g.s))
    [] g.t \in Names /\ Defined(s, g.t) -> Deftok([g.s EXCEPT !.pb = Look(s, g.t) \o @])
    [] OTHER -> g)

\* gettok: files are included at the end of the line that names them, what was
\* pushed back coming first.
RECURSIVE Gettok(_)
Gettok(s) == Let(Deftok(s), LAMBDA g : Let(Deftok(g.s), LAMBDA file : Let(Deftok(file.s), LAMBDA end :
  CASE g.t = EOF /\ g.s.up # <<>> -> Gettok([g.s EXCEPT !.in = Head(g.s.up), !.up = Tail(@)])
    [] g.t = "function" ->
         [t |-> g.t, s |-> [Pbstr(IF file.t \in Names THEN file.s ELSE Synerr(file.s), file.t) EXCEPT !.fcname = file.t]]
    [] g.t = "include" -> Let(Pbstr(end.s, end.t), LAMBDA v :
         IF Len(v.up) >= NFILES \/ file.t \notin DOMAIN Files THEN Gettok(Synerr(v))
         ELSE Gettok([v EXCEPT !.in = Files[file.t], !.up = <<v.in>> \o @]))
    [] OTHER -> g)))
RECURSIVE Lex(_)
Lex(s) == Let(Gettok(s), LAMBDA g : IF g.t = NL THEN Lex(g.s) ELSE g)
Peek(s) == Let(Lex(s), LAMBDA g : [t |-> g.t, s |-> Pbstr(g.s, g.t)])

-----------------------------------------------------------------------------
(* Lines.                                                                  *)
Outtab(s) == [s EXCEPT !.line.tab = TRUE]
Out(s, p) == [s EXCEPT !.line = IF @.tab THEN [@ EXCEPT !.text = Append(@, p)] ELSE [@ EXCEPT !.labels = Append(@, p.n)]]
Outnum(s, n) == Out(s, Number(n))
Outstr(s, t) == Out(s, Piece(t))
Outdon(s) == [s EXCEPT !.code = Append(@, [labels |-> s.line.labels, text |-> s.line.text]), !.line = NoLine]
Xfer(s, yes) == [s EXCEPT !.xfer = yes]
\* A line of its own: outtab, what it says, outdon.
Sends(s, ps) == [s EXCEPT !.code = Append(@, [labels |-> s.line.labels, text |-> s.line.text \o ps]), !.line = NoLine]
\* (faulty form of Outcon: after a transfer nothing is sent)
OutconReached(s, n) ==
  IF s.xfer \/ (n = 0 /\ s.line = NoLine) THEN Xfer(s, FALSE)
  ELSE Sends(Xfer(IF n > 0 THEN Outnum(s, n) ELSE s, FALSE), <<Piece("continue")>>)
Outcon(s, n) ==
  IF n = 0 /\ s.line = NoLine THEN Xfer(s, FALSE)
  ELSE Sends(Xfer(IF n > 0 THEN Outnum(s, n) ELSE s, FALSE), <<Piece("continue")>>)
Outgo(s, n) == IF s.xfer THEN s ELSE Sends(s, <<Piece("goto"), Number(n)>>)
Labgen(s, n) == [s EXCEPT !.lab = s.label, !.label = @ + n]

Opening == {"(", ",", "+", "-", "*", "&", "|", "!", "="}
RECURSIVE SkipLines(_)
SkipLines(s) == Let(Gettok(s), LAMBDA g : IF g.t = NL THEN SkipLines(g.s) ELSE Pbstr(g.s, g.t))
\* eatup: the rest of the statement, which goes on after a token that asks for more.
Depth(nlpar, t) == nlpar + (IF t = "(" THEN 1 ELSE IF t = ")" THEN -1 ELSE 0)
RECURSIVE Eatup(_, _)
Eatup(s, nlpar) == Let(Gettok(s), LAMBDA g :
  LET ended(v) == IF nlpar # 0 THEN Synerr(v) ELSE v
  IN CASE g.t \in {";", NL} -> ended(g.s)
       [] g.t \in {"{", "}"} -> ended(Pbstr(g.s, g.t))
       [] g.t = EOF -> Synerr(g.s)
       [] Depth(nlpar, g.t) < 0 -> Synerr(Outstr(g.s, g.t))
       [] OTHER -> Eatup(Outstr(IF g.t \in Opening THEN SkipLines(g.s) ELSE g.s, g.t), Depth(nlpar, g.t)))
\* balpar: a condition in its parentheses.
RECURSIVE Parens(_, _)
Parens(s, nlpar) == Let(Gettok(s), LAMBDA g :
  LET sent == IF g.t = NL THEN g.s ELSE Outstr(g.s, g.t)
  IN IF g.t \in {";", "{", "}", EOF} THEN Synerr(Pbstr(g.s, g.t))
     ELSE IF Depth(nlpar, g.t) = 0 THEN sent ELSE Parens(sent, Depth(nlpar, g.t)))
Balpar(s) == Let(Gettok(s), LAMBDA g : IF g.t # "(" THEN Synerr(g.s) ELSE Parens(Outstr(g.s, "("), 1))
Ifgo(s, n) == Outgo(Outstr(Balpar(Outstr(Outtab(s), "if(.not.")), ")"), n)

-----------------------------------------------------------------------------
(* Statements: what is sent where one begins, and where it ends.           *)
Ifcode(s) == Let(Labgen(Xfer(s, FALSE), 2), LAMBDA v : Ifgo(v, v.lab))
Elseif(s, n) == Outcon(Outgo(s, n + 1), n)
Docode(s) == Let(Labgen(Outstr(Outtab(Xfer(s, FALSE)), "do"), 2), LAMBDA v : Outdon(Eatup(Outnum(v, v.lab), 0)))
Dostat(s, n) == Outcon(Outcon(s, n), n + 1)
Whilec(s) == Let(Labgen(Outcon(s, 0), 2), LAMBDA v : Ifgo(Outnum(v, v.lab), v.lab + 1))
Whiles(s, n) == Outcon(Outgo(s, n), n + 1)
Repcod(s) == Let(Labgen(Outcon(s, 0), 3), LAMBDA v : [Outcon(v, v.lab) EXCEPT !.lab = v.lab + 1])
Untils(s, n, token) ==
  LET v == Outnum(Xfer(s, FALSE), n)
  IN Outcon(IF token = "until" THEN Ifgo(Lex(v).s, n - 1) ELSE Outgo(v, n - 1), n + 1)

\* The condition of a for statement, and the clause that is kept for its end.
RECURSIVE Condition(_, _)
Condition(s, nlpar) == Let(Gettok(s), LAMBDA g :
  LET sent == IF g.t = NL THEN g.s ELSE Outstr(g.s, g.t)
  IN CASE g.t = ";" -> [s |-> g.s, valid |-> TRUE]
       [] g.t = EOF -> [s |-> g.s, valid |-> FALSE]
       [] g.t \notin {";", EOF} /\ Depth(nlpar, g.t) < 0 -> [s |-> Synerr(sent), valid |-> TRUE]
       [] OTHER -> Condition(sent, Depth(nlpar, g.t)))
RECURSIVE Clause(_, _, _)
Clause(s, nlpar, kept) == Let(Gettok(s), LAMBDA g :
  IF Depth(nlpar, g.t) < 0 \/ g.t = EOF THEN [g.s EXCEPT !.fors = Append(@, kept)]
  ELSE Clause(g.s, Depth(nlpar, g.t), IF g.t = NL THEN kept ELSE Append(kept, g.t)))
Forinit(s) == Let(Gettok(s), LAMBDA g : IF g.t = ";" THEN g.s ELSE Outdon(Eatup(Outtab(Pbstr(g.s, g.t)), 0)))
Fortest(s, n) == Let(Gettok(s), LAMBDA g :
  IF g.t = ";" THEN [s |-> Outcon(g.s, n), valid |-> TRUE]
  ELSE Let(Condition(Outstr(Outstr(Outtab(Outnum(Pbstr(g.s, g.t), n)), "if(.not."), "("), 0), LAMBDA c :
         IF ~c.valid THEN c ELSE [c EXCEPT !.s = Outgo(Outstr(Outstr(c.s, ")"), ")"), n + 2)]))
Forcod(s) ==
  Let(Labgen(Outcon(s, 0), 3), LAMBDA v : Let(Gettok(v), LAMBDA g :
    IF g.t # "(" THEN [Synerr(g.s) EXCEPT !.lab = s.lab]
    ELSE Let(Fortest(Forinit(g.s), v.lab), LAMBDA c :
           IF ~c.valid THEN [c.s EXCEPT !.lab = s.lab] ELSE [Clause(c.s, 0, <<>>) EXCEPT !.lab = v.lab + 1])))
Fors(s, n) == Let(Outnum(Xfer(s, FALSE), n), LAMBDA v :
  LET again == IF Last(s.fors) = <<>> THEN v ELSE Sends(v, [i \in DOMAIN Last(s.fors) |-> Piece(Last(s.fors)[i])])
  IN [Outcon(Outgo(again, n - 1), n + 1) EXCEPT !.fors = Front(@)])

\* labelc
Labelc(s, t) == Outtab(Outnum(IF Value[t] \in startlab .. 99999 THEN Xfer(Synerr(s), FALSE) ELSE Xfer(s, FALSE), Value[t]))
Otherc(s, t) == Outdon(Eatup(Outstr(Outtab(Xfer(s, FALSE)), t), 0))

Loops == {"while", "do", "for", "repeat"}
\* The loop n levels up from the place i of the stack, 0 if there is none.
RECURSIVE Loop(_, _, _)
Loop(st, i, n) ==
  IF i = 0 THEN 0
  ELSE IF st[i].ty \notin Loops THEN Loop(st, i - 1, n)
  ELSE IF n > 1 THEN Loop(st, i - 1, n - 1) ELSE i
\* How many loops, and the state after the number.
Howmany(s) == Let(Gettok(s), LAMBDA g :
  [n |-> IF g.t \in DOMAIN Value THEN Value[g.t] ELSE 1, s |-> IF g.t \in DOMAIN Value \cup {";"} THEN g.s ELSE Pbstr(g.s, g.t)])
Leave(s, i, token) ==
  IF i = 0 THEN Synerr(s) ELSE Xfer(Outgo(s, IF token = "break" THEN s.st[i].lab + 1 ELSE s.st[i].lab), FALSE)
Brknxt(s, token) == Let(Howmany(s), LAMBDA h : Leave(h.s, Loop(s.st, Len(s.st), h.n), token))
Retcod(s) == Let(Gettok(s), LAMBDA g :
  LET v == CASE g.t \in {NL, ";"} -> g.s
             [] g.t = "}" -> Pbstr(g.s, g.t)
             [] OTHER -> Outdon(Eatup(Outstr(Outstr(Outtab(Pbstr(g.s, g.t)), s.fcname), "="), 0))
  IN Xfer(Sends(v, <<Piece("return")>>), TRUE))

-----------------------------------------------------------------------------
(* Switches: sw has for each open one the label of its default, 0 at       *)
(* first, and its cases in increasing order.                               *)
Room(s) == 1 + 3 * (Len(s.sw) + FoldLeft(LAMBDA n, w : n + Len(w.cases), 0, s.sw)) + 3 <= MAXSWITCH
Swcode(s) ==
  Let(Labgen(Xfer(IF Room(s) THEN [s EXCEPT !.sw = Append(@, [def |-> 0, cases |-> <<>>])] ELSE Baderr(s), FALSE), 2), LAMBDA v :
  Let(Xfer(Outgo(Outdon(Balpar(Outstr(Outnum(Outstr(Outtab(v), "I"), v.lab), "="))), v.lab), TRUE), LAMBDA sent :
  Let(Lex(sent), LAMBDA g : IF g.t = "{" THEN g.s ELSE Synerr(Pbstr(g.s, g.t)))))
\* caslab: a number, and the token after it.
Caslab(s) ==
  Let(Lex(s), LAMBDA g :
  Let(IF g.t \in {"-", "+"} THEN Gettok(g.s) ELSE g, LAMBDA d :
  Let(Lex(IF d.t \in DOMAIN Value THEN d.s ELSE Synerr(d.s)), LAMBDA after :
    IF g.t = EOF THEN [end |-> TRUE, n |-> 0, t |-> EOF, s |-> g.s]
    ELSE [end |-> FALSE, t |-> after.t, s |-> after.s,
          n |-> IF d.t \notin DOMAIN Value THEN 0 ELSE IF g.t = "-" THEN -Value[d.t] ELSE Value[d.t]])))
\* A range takes its place among the cases.
Enter(s, lb, ub, l) ==
  LET cases == Last(s.sw).cases
      after == SelectInSeq(cases, LAMBDA c : lb <= c.lb)
      i == IF after = 0 THEN Len(cases) + 1 ELSE after
      twice == (\E k \in 1 .. i - 1 : lb <= cases[k].ub) \/ (i <= Len(cases) /\ ub >= cases[i].lb)
  IN [(IF ~Room(s) THEN Baderr(s) ELSE IF twice THEN Synerr(s) ELSE s)
        EXCEPT !.sw[Len(s.sw)].cases = InsertAt(@, i, [lb |-> lb, ub |-> ub, l |-> l])]
RECURSIVE Ranges(_, _)
Ranges(s, l) ==
  Let(Caslab(s), LAMBDA low : Let(IF low.t = "-" THEN Caslab(low.s) ELSE low, LAMBDA high :
  Let(IF high.end THEN low.n ELSE high.n, LAMBDA ub :
  Let(IF low.n > ub THEN Enter(Synerr(high.s), low.n, low.n, l) ELSE Enter(high.s, low.n, ub, l), LAMBDA v :
    CASE low.end -> [t |-> EOF, s |-> low.s]
      [] ~low.end /\ high.t = ":" -> [t |-> ":", s |-> v]
      [] OTHER -> Ranges(IF high.t = "," THEN v ELSE Synerr(v), l)))))
Fallback(s, l) == Let(Gettok(s), LAMBDA g :
  [t |-> g.t, s |-> IF Last(g.s.sw).def # 0 THEN Baderr(g.s) ELSE [g.s EXCEPT !.sw[Len(g.s.sw)].def = l]])
Cascod(s, lab, token) ==
  IF s.sw = <<>> THEN Synerr(s)
  ELSE Let([Outgo(s, lab + 1) EXCEPT !.xfer = TRUE, !.label = @ + 1], LAMBDA v :
       Let(IF token = "case" THEN Ranges(v, s.label) ELSE Fallback(v, s.label), LAMBDA c :
         Outcon(Xfer(IF c.t = ":" THEN c.s ELSE IF c.t = EOF THEN Synerr(c.s) ELSE Baderr(c.s), FALSE), s.label)))
Test(s, lab, c) ==
  LET swvar == <<Piece("I"), Number(lab)>>
      one == <<Piece(".eq."), Number(c.lb)>>
      range == <<Piece(".ge."), Number(c.lb), Piece(".and.")>> \o swvar \o <<Piece(".le."), Number(c.ub)>>
  IN Sends(s, <<Piece("if (")>> \o swvar \o (IF c.lb = c.ub THEN one ELSE range) \o <<Piece(")"), Piece("goto"), Number(c.l)>>)
Swend(s, lab) ==
  LET w == Last(s.sw)
      begun == Outcon(Xfer(Outgo(s, lab + 1), FALSE), lab)
      sent == FoldLeft(LAMBDA v, c : Test(v, lab, c), begun, w.cases)
      last == IF w.cases # <<>> /\ w.def \notin {0, lab + 1} THEN Outgo(sent, w.def) ELSE sent
  IN [Outcon(last, lab + 1) EXCEPT !.sw = Front(@)]

-----------------------------------------------------------------------------
(* Strings: the declarations of a row of them come before the data, which  *)
(* are kept in sav meanwhile.                                              *)
Eos(s) == IF Defined(s, "eos") THEN Look(s, "eos") ELSE IF Defined(s, "EOS") THEN Look(s, "EOS") ELSE <<"eos">>
Data(s, name, chars) ==
  LET n == Len(chars) + 1
      cell(i) == <<Piece(name), Piece("("), Number(i), Piece(")"), Piece(IF i < n THEN "," ELSE "/")>>
  IN <<Piece("data ")>> \o FlattenSeq([i \in 1 .. n |-> cell(i)]) \o FlattenSeq([i \in DOMAIN chars |-> <<Number(chars[i]), Piece(",")>>])
       \o [i \in DOMAIN Eos(s) |-> Piece(Eos(s)[i])] \o <<Piece("/")>>
\* outsav, and the line strdcl ends after it
Outsav(s) == [Outdon(FoldLeft(Sends, s, s.sav)) EXCEPT !.sav = <<>>]
Follow(s) == Let(Lex(s), LAMBDA g :
  CASE g.t = "string" -> Pbstr(g.s, g.t)
    [] g.t = ";" -> Let(Lex(g.s), LAMBDA h : Pbstr(Pbstr(IF h.t = "string" THEN h.s ELSE Outsav(h.s), h.t), g.t))
    [] OTHER -> Pbstr(Outsav(g.s), g.t))
\* The size given, 0 if there is none, and the token of the initial value.
Sized(s) == Let(Gettok(s), LAMBDA size : Let(Gettok(IF size.t \in DOMAIN Value THEN size.s ELSE Synerr(size.s)), LAMBDA close :
  LET given == IF size.t \in DOMAIN Value THEN Value[size.t] ELSE 0
      v == Let(IF close.t = ")" THEN Gettok(close.s) ELSE [close EXCEPT !.s = Synerr(@)], LAMBDA init : [t |-> init.t, s |-> init.s])
  IN IF given < 1 THEN [t |-> v.t, s |-> Synerr(v.s), len |-> 1] ELSE [t |-> v.t, s |-> v.s, len |-> given]))
Strdcl(s) ==
  Let(Gettok(s), LAMBDA name : Let(Gettok(IF name.t \in Names THEN name.s ELSE Synerr(name.s)), LAMBDA next :
  Let(IF next.t = "(" THEN Sized(next.s) ELSE [t |-> next.t, s |-> next.s, len |-> Len(Texts[next.t]) + 1], LAMBDA init :
    LET chars == Texts[init.t]
        declared == Sends(init.s, <<Piece("integer"), Piece(name.t), Piece("("), Number(init.len), Piece(")")>>)
        data == Data(init.s, name.t, IF init.len <= Len(chars) THEN SubSeq(chars, 1, init.len - 1) ELSE chars)
        warned == IF Defined(init.s, "eos") \/ Defined(init.s, "EOS") THEN declared ELSE Synerr(declared)
    IN Follow([Outtab(warned) EXCEPT !.sav = Append(@, data)]))))

-----------------------------------------------------------------------------
(* The parser.                                                             *)
Top(s) == IF s.st = <<>> THEN [ty |-> EOF, lab |-> 0] ELSE Last(s.st)
Pop(s) == [s EXCEPT !.st = Front(@)]
\* unstak: the statements that end here; an until belongs to every repeat it finds.
RECURSIVE Unstak(_, _)
Unstak(s, token) ==
  LET top == Top(s)
      v == Pop(s)
      lab == top.lab
  IN IF top.ty \in {EOF, "{", "switch"} \/ (top.ty = "if" /\ token = "else") THEN s
     ELSE Unstak(CASE top.ty = "if" -> Outcon(v, lab)
                   [] top.ty = "else" -> IF v.st = <<>> THEN Outcon(v, lab + 1) ELSE Outcon(Pop(v), Last(v.st).lab + 1)
                   [] top.ty = "do" -> Dostat(v, lab)
                   [] top.ty = "while" -> Whiles(v, lab)
                   [] top.ty = "for" -> Fors(v, lab)
                   [] top.ty = "repeat" -> Untils(v, lab, token)
                   [] OTHER -> v, token)

Keywords == {"if", "else", "while", "do", "break", "next", "for", "repeat", "until", "switch", "case", "default", "return", "string"}
Type(t) == IF t \in DOMAIN Value THEN "digits" ELSE t
Opened == {"if", "else", "while", "for", "repeat", "do", "digits", "switch", "{"}
\* What is sent where a statement begins.
Begin(s, t) ==
  LET i == SelectLastInSeq(s.st, LAMBDA x : x.ty = "switch")
  IN CASE t = "if" -> Ifcode(s)
       [] t = "do" -> Docode(s)
       [] t = "while" -> Whilec(s)
       [] t = "for" -> Forcod(s)
       [] t = "repeat" -> Repcod(s)
       [] t = "switch" -> Swcode(s)
       [] t \in {"case", "default"} -> IF i = 0 THEN Synerr(s) ELSE Cascod(s, s.st[i].lab, t)
       [] t \in DOMAIN Value -> Labelc(s, t)
       [] t = "else" -> IF Top(s).ty = "if" THEN Elseif(s, Top(s).lab) ELSE Synerr(s)
       [] OTHER -> s
Push(s, t) ==
  LET v == IF Len(s.st) + 1 > MAXSTACK THEN Baderr(s) ELSE s
  IN [v EXCEPT !.st = Append(@, [ty |-> Type(t), lab |-> v.lab])]
\* A statement that is complete.
Complete(s, t) ==
  CASE t = "}" -> IF Top(s).ty = "{" THEN Pop(s)
                  ELSE IF Top(s).ty = "switch" THEN Pop(Swend(s, Top(s).lab)) ELSE Synerr(s)
    [] t \in {"break", "next"} -> Brknxt(s, t)
    [] t = "return" -> Retcod(s)
    [] t = "string" -> Strdcl(s)
    [] t \in {";", "until"} -> s
    [] t \notin Keywords \cup {"}", ";"} -> Otherc(s, t)
Statement(s, t) ==
  Let(Begin(s, t), LAMBDA v :
    IF Type(t) \in Opened THEN Push(v, t)
    ELSE IF t \in {"case", "default"} THEN v
    ELSE Let(Peek(Complete(v, t)), LAMBDA g : Unstak(g.s, g.t)))
\* parse, with main and initvars
RECURSIVE Parse(_)
Parse(s) == Let(Lex(s), LAMBDA g :
  IF g.t = EOF THEN IF g.s.st # <<>> THEN Synerr(g.s) ELSE g.s ELSE Parse(Statement(g.s, g.t)))
Ratfor(text) == Let(Parse(Start(text)), LAMBDA s : [code |-> s.code, bad |-> s.bad])
=============================================================================
