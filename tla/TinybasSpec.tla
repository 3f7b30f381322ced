---------------------------- MODULE TinybasSpec ----------------------------
(***************************************************************************)
(* What tinybas promises: a program does what its statements mean, its     *)
(* listing is the same program, its translation prints what it prints; a   *)
(* line is accepted if it is one of the language; the command line decides *)
(* what is done.                                                           *)
(***************************************************************************)
EXTENDS Jobs, Integers, Sequences, FiniteSets, FiniteSetsExt, SequencesExt

B == INSTANCE Tinybas

-----------------------------------------------------------------------------
(* The programs.  An expression is a tree, written with the parentheses it *)
(* needs; a word of a line is a sequence of characters.                    *)
BNum(n) == [op |-> "num", n |-> n]
BVar(v) == [op |-> "var", v |-> v]
BNeg(a) == [op |-> "neg", a |-> a]
BBin(op, a, b) == [op |-> op, a |-> a, b |-> b]
BLevel(e) == CASE e.op \in {"+", "-"} -> 1 [] e.op \in {"*", "/"} -> 2 [] e.op = "neg" -> 3 [] OTHER -> 4
RECURSIVE BExpr(_, _)
BExpr(e, level) ==
  LET words == CASE e.op = "num" -> <<B!Decimal(e.n)>>
                 [] e.op = "var" -> <<<<e.v>>>>
                 [] e.op = "neg" -> <<<<"-">>>> \o BExpr(e.a, 4)
                 [] OTHER -> BExpr(e.a, BLevel(e)) \o <<<<e.op>>>> \o BExpr(e.b, BLevel(e) + 1)
  IN IF BLevel(e) < level THEN <<<<"(">>>> \o words \o <<<<")">>>> ELSE words

BStmt(op) == [op |-> op]
BLet(v, e) == [op |-> "LET", v |-> v, e |-> e]
BPrint(items) == [op |-> "PRINT", items |-> items]
BText(text) == [op |-> "text", text |-> text]
BJump(op, e) == [op |-> op, e |-> e]
BInput(vars) == [op |-> "INPUT", vars |-> vars]
BIf(a, rel, b, s) == [op |-> "IF", a |-> a, rel |-> rel, b |-> b, s |-> s]
BListed(parts) == FoldLeft(LAMBDA ws, p : IF ws = <<>> THEN p ELSE ws \o <<<<",">>>> \o p, <<>>, parts)
BItem(i) == IF i.op = "text" THEN <<<<"\"">> \o i.text \o <<"\"">>>> ELSE BExpr(i, 1)
BKey(k) == <<B!Spelled[SelectInSeq(B!Keyword, LAMBDA w : w = k)]>>
RECURSIVE BWords(_)
BWords(s) ==
  CASE s.op = "LET" -> BKey("LET") \o <<<<s.v>>, <<"=">>>> \o BExpr(s.e, 1)
    [] s.op = "PRINT" -> BKey("PRINT") \o BListed([i \in DOMAIN s.items |-> BItem(s.items[i])])
    [] s.op \in {"GOTO", "GOSUB"} -> BKey(s.op) \o BExpr(s.e, 1)
    [] s.op = "INPUT" -> BKey("INPUT") \o BListed([i \in DOMAIN s.vars |-> <<<<s.vars[i]>>>>])
    [] s.op = "IF" -> BKey("IF") \o BExpr(s.a, 1) \o <<B!RelationText(s.rel)>> \o BExpr(s.b, 1) \o BKey("THEN") \o BWords(s.s)
    [] s.op = "REM" -> BKey("REM") \o <<<<"\"", "^">>>>
    [] OTHER -> BKey(s.op)
BLine(label, s) == [label |-> label, s |-> s]

(* How it is written: a blank between the words, or only between letters,  *)
(* small ones, with CP/M's line ends and end of the file.                  *)
BSmall(w) == IF w[1] = "\"" THEN w ELSE [i \in DOMAIN w |-> B!ToLower(w[i])]
BJoined(ws, lay) ==
  FoldLeft(LAMBDA t, w : IF t = <<>> THEN w
             ELSE IF lay = "wide" \/ {Last(t), w[1]} \subseteq B!Letters THEN t \o <<" ">> \o w ELSE t \o w,
           <<>>, IF lay = "wide" THEN ws ELSE [i \in DOMAIN ws |-> BSmall(ws[i])])
BSource(ls, lay) ==
  FlattenSeq([i \in DOMAIN ls |->
    BJoined((IF ls[i].label = 0 THEN <<>> ELSE <<B!Decimal(ls[i].label)>>) \o BWords(ls[i].s), lay)
      \o (IF lay = "wide" THEN <<B!NL>> ELSE <<B!CR, B!NL>>)])
  \o (IF lay = "wide" THEN <<>> ELSE <<B!SUB, "A", B!SUB>>)

BLeaves == {BNum(0), BNum(300), BVar("A"), BVar("B")}
BTwo == BLeaves \cup {BNeg(a) : a \in BLeaves} \cup [op : {"+", "-", "*", "/"}, a : BLeaves, b : BLeaves]
BThree == {BNeg(a) : a \in BTwo} \cup [op : {"+", "-", "*", "/"}, a : BTwo, b : {BNum(300), BVar("B")}]
            \cup [op : {"+", "-", "*", "/"}, a : {BNum(300), BVar("A")}, b : BTwo]
BShows(e) == <<BLine(0, BLet("A", BNum(7))), BLine(0, BLet("B", BNeg(BNum(3)))), BLine(0, BPrint(<<BText(<<"x", " ">>), e, BText(<<"y">>), BVar("A")>>))>>

BPlus == BLet("A", BBin("+", BVar("A"), BNum(1)))
BStmts == {BPlus, BPrint(<<BVar("A"), BText(<<"x">>)>>), BJump("GOTO", BNum(20)), BJump("GOSUB", BNum(20)), BStmt("RETURN"), BStmt("END"),
  BJump("GOSUB", BBin("*", BVar("A"), BNum(10))), BIf(BVar("A"), "<", BNum(2), BJump("GOTO", BNum(10))),
  BIf(BVar("A"), ">=", BNum(1), BPrint(<<BVar("A")>>)), BInput(<<"A", "B">>), BStmt("REM")}
BLabels3 == [m \in {"optional", "implied", "mandatory"} |->
  CASE m = "optional" -> <<0, 20, 10, 0>> [] m = "implied" -> <<0, 10, 0, 0>> [] OTHER -> <<10, 15, 25, 30>>]
BFlows == {[o |-> [B!NewOptions EXCEPT !.numbers = m, !.gosubs = 2],
            ls |-> <<BLine(BLabels3[m][1], a), BLine(BLabels3[m][2], b), BLine(BLabels3[m][3], c), BLine(BLabels3[m][4], BPlus)>>] :
             m \in DOMAIN BLabels3, a \in BStmts, b \in BStmts, c \in BStmts}
\* What is typed: with something before each number, and with the numbers side by side.
BKeys == <<" ", " ", "-", "1", " ", " ", "4", "\n", " ", "1", " ", "-", "2", "\n">>
BClose == <<"5", "-", "7", "+", "-", "1", "-", "3", "\n", "8">>
BInputs == {<<BLine(0, BInput(vs)), BLine(0, BInput(ws)), BLine(0, BPrint(<<BVar("A"), BVar("B"), BVar("C")>>))>> :
              vs, ws \in UpTo({"A", "B", "C"}, 3) \ {<<>>}}

\* Lines of the language, and what one word put in, left out or changed makes of them.
BLet1 == BLet("A", BBin("*", BBin("+", BVar("B"), BNum(1)), BNeg(BNum(2))))
BGood == {BWords(s) : s \in {BLet1, BIf(BVar("A"), "<", BNum(1), BStmt("END")), BPrint(<<BText(<<"x">>), BNeg(BVar("A"))>>),
                             BInput(<<"A", "B">>), BJump("GOTO", BBin("+", BVar("A"), BNum(1))), BStmt("RETURN")}}
BAny == {<<"A">>, <<"1">>, <<"+">>, <<"(">>, <<")">>, <<",">>, <<"=">>, <<"<">>, <<"T", "H", "E", "N">>, <<"E", "N", "D">>, <<"\"", "\"">>, <<"?">>}
BNear(ws) == {ws} \cup {RemoveAt(ws, i) : i \in DOMAIN ws} \cup {ReplaceAt(ws, i, w) : i \in DOMAIN ws, w \in BAny}
               \cup {InsertAt(ws, i, w) : i \in 1 .. Len(ws) + 1, w \in BAny}

BNumbered == {BLine(n, s) : n \in {0, 5, 10, 20}, s \in {BStmt("END"), BStmt("REM")}}

BArgs == {<<"-", "N", "i">>, <<"-", "n", "x">>, <<"-", "l", "5">>, <<"-", "g">>, <<"-", "O", "l", "s", "t">>, <<"-", "o", "c">>, <<"-", "h">>,
          <<"a", ".", "b">>, <<"d", ".", "C">>}
BFile(text) == [class |-> "file", text |-> text]
BFiles == {[file |-> B!None, w |-> TRUE, stack |-> 0], [file |-> BFile(<<"9", "E", "N", "D">>), w |-> TRUE, stack |-> -1],
           [file |-> BFile(<<"E", "N", "D">>), w |-> FALSE, stack |-> 1], [file |-> BFile(<<"X", "Y">>), w |-> TRUE, stack |-> 0]}
BNames == UpTo({"a", "C", ".", "/"}, 5) \ {<<>>}

BasicJobs ==
  {[prog |-> "basic", o |-> B!NewOptions, ls |-> BShows(e), lay |-> "tight", keys |-> BKeys] : e \in BThree}
  \cup {[prog |-> "basic", o |-> f.o, ls |-> f.ls, lay |-> "wide", keys |-> BKeys] : f \in BFlows}
  \cup {[prog |-> "basic", o |-> B!NewOptions, ls |-> ls, lay |-> "tight", keys |-> BClose] : ls \in BInputs}
  \cup [prog : {"basic line"}, ws : UNION {BNear(ws) : ws \in BGood}, end : {<<B!NL>>, <<>>}]
  \cup {[prog |-> "basic label", ls |-> ls, o |-> [B!NewOptions EXCEPT !.numbers = m, !.limit = n]] :
         ls \in UpTo(BNumbered, 3), m \in DOMAIN BLabels3, n \in {15, 32767}}
  \cup [prog : {"basic call"}, args : UpTo(BArgs, 3), f : BFiles]
  \cup [prog : {"basic name"}, s : BNames]
BSteps == 14
\* The text of a job; what is parsed of it: the program, and then what its listing is.
BTextOf == IF job.prog = "basic line" THEN BJoined(job.ws, "wide") \o job.end ELSE BSource(job.ls, IF job.prog = "basic" THEN job.lay ELSE "tight")
BOptions == IF job.prog = "basic line" THEN B!NewOptions ELSE job.o
BParsed == FoldLeft(LAMBDA ps, i : Append(ps, B!Parse(IF ps = <<>> THEN BTextOf ELSE B!List(ps[1].lines), BOptions)),
                    <<>>, IF job.prog = "basic" THEN <<1, 2>> ELSE <<1>>)
BRun(ps) == [p |-> ps[1], again |-> ps[2], x |-> B!Interpret(ps[1].lines, job.o, job.keys, BSteps), c |-> B!Compile(ps[1].lines, job.o)]
BasicRuns ==
  \/ job.prog \in {"basic", "basic line", "basic label"} /\ ~done
       /\ \E ps \in {BParsed} : Answer(IF job.prog = "basic" THEN BRun(ps) ELSE ps[1])
  \/ job.prog = "basic call" /\ Answer(B!Main(job.args, job.f.stack, job.f.file, job.f.w, <<>>, BSteps))
  \/ job.prog = "basic name" /\ Answer(B!OutputName(job.s, <<"c">>))

-----------------------------------------------------------------------------
(* The meaning of an expression: no value if it divides by zero.           *)
BSize(n) == IF n < 0 THEN -n ELSE n
BOver(x, y) == (IF (x < 0) = (y < 0) THEN 1 ELSE -1) * ((BSize(x) - (BSize(x) % BSize(y))) \div BSize(y))
RECURSIVE BValue(_, _)
BValue(e, env) ==
  CASE e.op = "num" -> {e.n}
    [] e.op = "var" -> {env[e.v]}
    [] e.op = "neg" -> {B!Int16(-x) : x \in BValue(e.a, env)}
    [] e.op = "/" -> {BOver(x, y) : x \in BValue(e.a, env), y \in BValue(e.b, env) \ {0}}
    [] OTHER -> {B!Int16(CASE e.op = "+" -> x + y [] e.op = "-" -> x - y [] e.op = "*" -> x * y) :
                   x \in BValue(e.a, env), y \in BValue(e.b, env)}
BHolds(rel, a, b) == CASE rel = "<" -> a < b [] rel = ">=" -> a >= b

(* The meaning of a program: the next line, those to return to, how it      *)
(* goes on, what was printed, and of a line that broke off its text; what  *)
(* was typed is read up to a place.                                        *)
BLabels(ls, mode) ==
  FoldLeft(LAMBDA a, l : LET n == IF l.label = 0 /\ mode = "implied" THEN a.last + 1 ELSE l.label
                         IN [labels |-> Append(a.labels, n), last |-> IF l.s.op = "REM" /\ l.label = 0 THEN a.last ELSE n],
           [labels |-> <<>>, last |-> 0], ls).labels
BNumber(x, v, keys, from, first) ==
  LET places == {i \in x.at .. Len(keys) : keys[i] \in B!Digits}
      i == Min(places)
      j == Min({k \in i .. Len(keys) + 1 : k > Len(keys) \/ keys[k] \notin B!Digits})
      less == IF i = from THEN first = "-" ELSE keys[i - 1] = "-"
  IN IF x.how # "on" THEN x
     ELSE IF places = {} THEN [x EXCEPT !.how = "endless"]
     ELSE [x EXCEPT !.env[v] = (IF less THEN -1 ELSE 1) * B!Atoi(SubSeq(keys, i, j - 1)), !.at = j + 1]
BGoes(x, m, V) ==
  LET v == CHOOSE v \in V : TRUE
      at == {i \in DOMAIN m.labels : m.labels[i] = v \/ (m.o.numbers # "optional" /\ m.labels[i] > v)}
  IN IF V = {} THEN [x EXCEPT !.how = "divide by zero"]
     ELSE IF at = {} THEN [x EXCEPT !.how = "invalid line number"]
     ELSE [x EXCEPT !.i = Min(at)]
BPrinted(items, env) == [i \in DOMAIN items |-> IF items[i].op = "text" THEN {items[i].text} ELSE {B!Decimal(v) : v \in BValue(items[i], env)}]
BWhole(texts) == FlattenSeq([i \in DOMAIN texts |-> CHOOSE t \in texts[i] : TRUE])
RECURSIVE BDoes(_, _, _)
BDoes(s, x, m) ==
  CASE s.op = "REM" -> x
    [] s.op = "LET" -> IF BValue(s.e, x.env) = {} THEN [x EXCEPT !.how = "divide by zero"]
                       ELSE [x EXCEPT !.env[s.v] = CHOOSE v \in BValue(s.e, x.env) : TRUE]
    [] s.op = "PRINT" ->
         LET texts == BPrinted(s.items, x.env)
             bad == SelectInSeq(texts, LAMBDA t : t = {})
             kept == SelectSeq([i \in DOMAIN texts |-> IF i < bad \/ s.items[i].op = "text" THEN texts[i] ELSE {}], LAMBDA t : t # {})
         IN IF bad = 0 THEN [x EXCEPT !.out = Append(@, BWhole(texts))]
            ELSE [x EXCEPT !.how = "divide by zero", !.part = IF kept = <<>> THEN <<>> ELSE <<BWhole(kept)>>]
    [] s.op = "GOTO" -> BGoes(x, m, BValue(s.e, x.env))
    [] s.op = "GOSUB" -> IF Len(x.back) = m.o.gosubs THEN [x EXCEPT !.how = "too many gosubs"]
                         ELSE BGoes([x EXCEPT !.back = Append(@, x.i)], m, BValue(s.e, x.env))
    [] s.op = "RETURN" -> IF x.back = <<>> THEN [x EXCEPT !.how = "RETURN without GOSUB"]
                          ELSE [x EXCEPT !.i = Last(x.back), !.back = Front(@)]
    [] s.op = "END" -> [x EXCEPT !.how = "END"]
    [] s.op = "IF" -> IF \E a \in BValue(s.a, x.env), b \in BValue(s.b, x.env) : BHolds(s.rel, a, b) THEN BDoes(s.s, x, m) ELSE x
    [] s.op = "INPUT" -> FoldLeft(LAMBDA y, v : BNumber(y, v, m.keys, x.at, ""), x, s.vars)
RECURSIVE BRuns(_, _, _)
BRuns(x, m, n) ==
  IF x.how # "on" THEN x
  ELSE IF x.i > Len(m.ls) THEN [x EXCEPT !.how = "off"]
  ELSE IF n = 0 THEN x
  ELSE BRuns(BDoes(m.ls[x.i].s, [x EXCEPT !.i = @ + 1], m), m, n - 1)
BBegun(vars) == [i |-> 1, back |-> <<>>, env |-> [v \in vars |-> 0], out |-> <<>>, part |-> <<>>, at |-> 1, how |-> "on"]
BMeant == BRuns(BBegun(ToSet(B!Upper)), [ls |-> job.ls, o |-> job.o, keys |-> job.keys, labels |-> BLabels(job.ls, job.o.numbers)], BSteps)

(* The interpreter prints what the program means, keeps the same variables, *)
(* reads as much of what is typed, and ends the same way.                  *)
BEnd(x) == IF x.err # "" THEN x.err ELSE IF x.stopped THEN "END" ELSE IF x.line = 0 THEN "off" ELSE "on"
RunsAsMeant(x, meant) ==
  /\ BEnd(x) = meant.how
  /\ x.out = meant.out \o meant.part
  /\ meant.how # "divide by zero" => x.vars = meant.env
  /\ meant.how # "endless" => x.in = SubSeq(job.keys, meant.at, Len(job.keys))
(* The listing is read as the program without its comments.                *)
ListsItself(p, again) == again.err = "" /\ again.lines = SelectSeq(p.lines, LAMBDA l : B!OutputStatement(l.s) # <<>>)

-----------------------------------------------------------------------------
(* The C: the value of an expression is that of its text, for the place    *)
(* where it is split last.                                                 *)
BDepth(t, i) == Cardinality({k \in 1 .. i : t[k] = "("}) - Cardinality({k \in 1 .. i : t[k] = ")"})
BSplits(t, ops) == {i \in 2 .. Len(t) - 1 : t[i] \in ops /\ t[i - 1] \notin {"+", "-", "*", "/", "("} /\ BDepth(t, i) = 0}
RECURSIVE CValue(_, _)
CValue(t, env) ==
  LET sums == BSplits(t, {"+", "-"})
      k == IF sums # {} THEN Max(sums) ELSE Max(BSplits(t, {"*", "/"}))
      both == [a : CValue(SubSeq(t, 1, k - 1), env), b : CValue(SubSeq(t, k + 1, Len(t)), env)]
  IN IF BSplits(t, {"+", "-", "*", "/"}) # {}
     THEN CASE t[k] = "/" -> {BOver(p.a, p.b) : p \in {q \in both : q.b # 0}}
            [] OTHER -> {B!Int16(CASE t[k] = "+" -> p.a + p.b [] t[k] = "-" -> p.a - p.b [] t[k] = "*" -> p.a * p.b) : p \in both}
     ELSE CASE t[1] = "-" -> {B!Int16(-v) : v \in CValue(Tail(t), env)}
            [] t[1] = "(" -> CValue(SubSeq(t, 2, Len(t) - 1), env)
            [] t[1] \in B!Letters -> {env[t[1]]}
            [] OTHER -> {B!Atoi(t)}
\* bas_exec: to the first label that will do, to the start if there is none.
CGoes(x, c, V) ==
  LET v == CHOOSE v \in V : TRUE
      l == SelectInSeq(c.labels, LAMBDA n : IF c.op = "=" THEN v = n ELSE v <= n)
  IN IF V = {} THEN [x EXCEPT !.how = "divide by zero"]
     ELSE IF v = 0 \/ l = 0 THEN [x EXCEPT !.i = 1]
     ELSE [x EXCEPT !.i = SelectInSeq(c.code, LAMBDA s : s.class = "label" /\ s.n = c.labels[l])]
CReturns(x) == IF x.back = <<>> THEN [x EXCEPT !.how = "off"] ELSE [x EXCEPT !.i = Last(x.back), !.back = Front(@)]
\* The text of a format, with the values for its %d.
CFormat(f, values) ==
  FoldLeft(LAMBDA a, ch : CASE ch = "%" -> [a EXCEPT !.was = ch]
                            [] ch = "d" /\ a.was = "%" -> [text |-> a.text \o B!Decimal(Head(a.left)), left |-> Tail(a.left), was |-> ""]
                            [] OTHER -> [a EXCEPT !.text = Append(@, ch)],
           [text |-> <<>>, left |-> values, was |-> ""], f).text
RECURSIVE CDoes(_, _, _)
CDoes(s, x, m) ==
  CASE s.class = "label" -> x
    [] s.class = "set" -> IF CValue(s.e, x.env) = {} THEN [x EXCEPT !.how = "divide by zero"]
                          ELSE [x EXCEPT !.env[s.v] = CHOOSE v \in CValue(s.e, x.env) : TRUE]
    [] s.class = "if" -> IF \E a \in CValue(s.l, x.env), b \in CValue(s.r, x.env) : BHolds(s.op, a, b) THEN CDoes(s.s, x, m) ELSE x
    [] s.class = "goto" -> CGoes(x, m.c, CValue(s.e, x.env))
    [] s.class = "exec" -> CGoes([x EXCEPT !.back = Append(@, x.i)], m.c, CValue(s.e, x.env))
    [] s.class = "return" -> CReturns(x)
    [] s.class = "exit" -> [x EXCEPT !.how = "END"]
    [] s.class = "printf" ->
         LET values == [i \in DOMAIN s.args |-> CValue(s.args[i], x.env)]
         IN IF {} \in ToSet(values) THEN [x EXCEPT !.how = "divide by zero"]
            ELSE [x EXCEPT !.out = Append(@, CFormat(s.format, [i \in DOMAIN values |-> CHOOSE v \in values[i] : TRUE]))]
    [] s.class = "input" -> FoldLeft(LAMBDA y, v : BNumber(y, v, job.keys, y.at, m.ch), x, s.vars)
RECURSIVE CRuns(_, _, _)
CRuns(x, m, n) ==
  IF x.how # "on" \/ n = 0 THEN x
  ELSE CRuns(IF x.i > Len(m.c.code) THEN CReturns(x) ELSE CDoes(m.c.code[x.i], [x EXCEPT !.i = @ + 1], m), m, n - 1)

(* A C compiler takes the program (no label twice, and no two signs that   *)
(* make --); then it prints what the program means and ends as it does.    *)
(* Where the interpreter reports a label, a return or a depth, and at the  *)
(* end of the text in a subroutine, it goes on instead.  A number typed    *)
(* has something before it: ch, which bas_input does not set, tells nothing.*)
Compiles(text, c) ==
  /\ Cardinality(ToSet(c.labels)) = Len(c.labels)
  /\ ~\E i \in 1 .. Len(text) - 1 : text[i] = "-" /\ text[i + 1] = "-"
CompilesAlike(p, c, meant) ==
  Compiles(B!List(p.lines), c) /\ job.keys = BKeys =>
    \A ch \in {"-", "+"} :
      LET ran == CRuns(BBegun(c.vars), [c |-> c, ch |-> ch], 2 * BSteps + 4)
          on == meant.how \in {"on", "too many gosubs", "invalid line number"} \/ (meant.how = "off" /\ meant.back # <<>>)
      IN /\ IsPrefix(meant.out, ran.out)
         /\ ~on => ran.out = meant.out /\ ran.how = IF meant.how = "RETURN without GOSUB" THEN "off" ELSE meant.how

-----------------------------------------------------------------------------
(* The language: where what begins at a word of the line may end.          *)
BWord(ws, i) == IF i > Len(ws) THEN <<>> ELSE ws[i]
BNumbers == {<<d>> : d \in B!Digits}
BVars == {<<v>> : v \in B!Letters}
RECURSIVE BEnds(_, _, _), BItemEnds(_, _), BVarEnds(_, _), BStmtEnds(_, _)
BEnds(ws, level, i) ==
  LET op == IF level = 1 THEN {<<"+">>, <<"-">>} ELSE {<<"*">>, <<"/">>}
      j == IF BWord(ws, i) \in {<<"+">>, <<"-">>} THEN i + 1 ELSE i
  IN IF level < 3 THEN UNION {{k} \cup (IF BWord(ws, k) \in op THEN BEnds(ws, level, k + 1) ELSE {}) : k \in BEnds(ws, level + 1, i)}
     ELSE IF BWord(ws, j) \in BNumbers \cup BVars THEN {j + 1}
     ELSE IF BWord(ws, j) = <<"(">> THEN {k + 1 : k \in {k \in BEnds(ws, 1, j + 1) : BWord(ws, k) = <<")">>}}
     ELSE {}
BItemEnds(ws, i) ==
  UNION {{k} \cup (IF BWord(ws, k) = <<",">> THEN BItemEnds(ws, k + 1) ELSE {}) :
    k \in IF i <= Len(ws) /\ ws[i][1] = "\"" THEN {i + 1} ELSE BEnds(ws, 1, i)}
BVarEnds(ws, i) == IF BWord(ws, i) \notin BVars THEN {}
                   ELSE {i + 1} \cup (IF BWord(ws, i + 1) = <<",">> THEN BVarEnds(ws, i + 2) ELSE {})
BStmtEnds(ws, i) ==
  LET is(k) == <<BWord(ws, i)>> = BKey(k)
  IN CASE is("LET") -> IF BWord(ws, i + 1) \in BVars /\ BWord(ws, i + 2) = <<"=">> THEN BEnds(ws, 1, i + 3) ELSE {}
       [] is("PRINT") -> BItemEnds(ws, i + 1)
       [] is("INPUT") -> BVarEnds(ws, i + 1)
       [] is("GOTO") \/ is("GOSUB") -> BEnds(ws, 1, i + 1)
       [] is("RETURN") \/ is("END") -> {i + 1}
       [] is("IF") -> UNION {UNION {IF <<BWord(ws, k)>> = BKey("THEN") THEN BStmtEnds(ws, k + 1) ELSE {} : k \in BEnds(ws, 1, j + 1)} :
                               j \in {j \in BEnds(ws, 1, i + 1) : BWord(ws, j) \in {<<"=">>, <<"<">>}}}
       \* nothing, which must be followed by the end of the line
       [] OTHER -> IF i = Len(ws) + 1 /\ job.end # <<>> THEN {i} ELSE {}
(* A line is accepted if and only if it is a label, or none, and a         *)
(* statement, or none; the end of the file ends it as well if it has one.  *)
ReadsTheLanguage ==
  LET from == IF BWord(job.ws, 1) \in BNumbers THEN 2 ELSE 1
  IN out.err = "" <=> job.ws = <<>> \/ Len(job.ws) + 1 \in BStmtEnds(job.ws, from)

(* Lines are accepted if their labels, those written and those implied, are *)
(* within the limit and, unless they are optional, ascend from 1; a comment *)
(* without a label does not count for those that follow.                   *)
LabelsKept ==
  LET ls == job.ls
      labels == BLabels(ls, job.o.numbers)
      counts(i) == ls[i].label # 0 \/ ls[i].s.op # "REM"
      right(i) == /\ labels[i] <= job.o.limit
                  /\ job.o.numbers # "optional" => labels[i] > 0 /\ \A j \in 1 .. i - 1 : counts(j) => labels[j] < labels[i]
  IN IF \A i \in DOMAIN ls : right(i) THEN out.err = "" /\ labels = [i \in DOMAIN out.lines |-> out.lines[i].label]
     ELSE out.err = "invalid line number"

-----------------------------------------------------------------------------
(* The arguments count up to the first that is wrong, and the last of a    *)
(* kind; help goes before everything; nothing is written over the program. *)
CommandKept ==
  LET args == job.args
      names == {i \in DOMAIN args : args[i][1] # "-"}
      wrong == {i \in DOMAIN args : args[i] = <<"-", "n", "x">> \/ (i \in names /\ \E j \in names : j < i)}
      seen == {i \in DOMAIN args : \A w \in wrong : i < w}
      given(a) == \E i \in seen : args[i] = a
      kinds == {i \in seen : Len(args[i]) > 2 /\ B!ToLower(args[i][2]) = "o"}
      kind == IF kinds = {} THEN "run" ELSE IF args[Max(kinds)] = <<"-", "o", "c">> THEN "c" ELSE "lst"
      file == args[Min(names \cap seen)]
      text == job.f.file.text
      fails == text = <<"X", "Y">> \/ (text = <<"9", "E", "N", "D">> /\ given(<<"-", "l", "5">>))
      over == kind = "c" /\ file = <<"d", ".", "C">>
      read == ~given(<<"-", "h">>) /\ wrong = {} /\ names # {} /\ job.f.file # B!None
  IN /\ out.did = [class |-> "usage"] <=> given(<<"-", "h">>) \/ wrong # {} \/ names = {}
     /\ ~given(<<"-", "h">>) /\ wrong # {} => out.code = "bad command line"
     /\ read /\ fails => out.did = B!None /\ out.code \in {"unrecognised command", "invalid line number"}
     /\ read /\ ~fails /\ kind = "run" => out.code = "" /\ out.did.x.stopped
     /\ read /\ ~fails /\ kind # "run" =>
          IF over \/ ~job.f.w THEN out.did = B!None /\ out.code # ""
          ELSE out.did.class = kind /\ out.code = "" /\ out.name # <<>>
(* The name of the output is the input's up to its last dot, if there is   *)
(* one behind the first character of the file's name, with the extension;  *)
(* it is never the input's.                                                *)
NameKept ==
  LET s == job.s
      stems == {k \in 1 .. Len(s) - 1 : s[k + 1] = "." /\ s[k] # "/" /\ {"/", "."} \cap ToSet(SubSeq(s, k + 2, Len(s))) = {}}
      name == SubSeq(s, 1, IF stems = {} THEN Len(s) ELSE Max(stems)) \o <<".", "c">>
  IN out = IF s \in {name, SubSeq(name, 1, Len(name) - 1) \o <<"C">>} THEN <<>> ELSE name

(* All of these at once.                                                   *)
BasicRight ==
  /\ Ended("basic") => LET meant == BMeant
                       IN out.p.err = "" /\ RunsAsMeant(out.x, meant) /\ ListsItself(out.p, out.again) /\ CompilesAlike(out.p, out.c, meant)
  /\ Ended("basic line") => ReadsTheLanguage
  /\ Ended("basic label") => LabelsKept
  /\ Ended("basic call") => CommandKept
  /\ Ended("basic name") => NameKept
=============================================================================
