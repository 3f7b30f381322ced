----------------------------- MODULE RatforSpec -----------------------------
(***************************************************************************)
(* What ratfor promises: the Fortran does what the statements say.  Both   *)
(* are run on the same outcomes of their conditions and must pass the same *)
(* statements and conditions in the same order.                            *)
(***************************************************************************)
EXTENDS Jobs, Integers, Sequences, SequencesExt, FiniteSetsExt

RNumbers == [t \in {"0", "1", "2", "4", "10"} |->
               CASE t = "0" -> 0 [] t = "1" -> 1 [] t = "2" -> 2 [] t = "4" -> 4 [] OTHER -> 10]
RFiles == [f \in {"F", "H"} |-> IF f = "F" THEN <<"x", "newline">> ELSE <<"include", "F", "newline", "y", "newline">>]
RNames == {"M", "N", "f", "s", "r", "x", "y", "c", "eos"}
RTexts == [t \in {"''", "'ab'"} |-> IF t = "''" THEN <<>> ELSE <<97, 98>>]
R == INSTANCE Ratfor WITH Value <- RNumbers, Names <- RNames, Files <- RFiles, Texts <- RTexts,
                          MAXSTACK <- 100, MAXSWITCH <- 300, NFILES <- 7, startlab <- 23000

-----------------------------------------------------------------------------
(* The programs: a statement has an operation, a word and its parts.       *)
RStmt(op, w, b) == [op |-> op, w |-> w, b |-> b]
Does(w) == RStmt("does", w, <<>>)
RBlock(b) == RStmt("{", "", b)
\* The switches: the tokens and the values of each case; {} for the default.
RHeads == [w \in {"s1", "s2"} |->
  IF w = "s1" THEN <<[tok |-> <<"case", "2", ":">>, of |-> {2}], [tok |-> <<"case", "-", "1", "-", "0", ",", "4", ":">>, of |-> {-1, 0, 4}]>>
  ELSE <<[tok |-> <<"default", ":">>, of |-> {}], [tok |-> <<"case", "1", ",", "0", ":">>, of |-> {0, 1}]>>]
Simple == {Does("x"), RStmt("break", "", <<>>), RStmt("next", "", <<>>), RStmt("return", "", <<>>),
           RStmt("break", "2", <<>>), RStmt("next", "2", <<>>), RStmt("10", "", <<Does("y")>>)}
Few == {Does("x"), RStmt("break", "", <<>>), RStmt("next", "", <<>>), RStmt("return", "", <<>>)}
\* The statements made of the statements of a set.
Around(S) == UNION {
  {RStmt("if", "c", <<b>>) : b \in S}, {RStmt("if", "c", <<b, Does("z")>>) : b \in S}, {RStmt("if", "c", <<Does("z"), b>>) : b \in S},
  {RStmt(op, "c", <<b>>) : op \in {"while", "do", "for", "until"}, b \in S},
  {RStmt(op, "", <<RBlock(<<Does("y"), b>>)>>) : op \in {"repeat", "ever"}, b \in S},
  {RStmt("switch", w, <<b, Does("z")>>) : w \in {"s1", "s2"}, b \in S},
  {RStmt("10", "", <<b>>) : b \in S}, {RBlock(<<b, Does("z")>>) : b \in S}}
Loose(b) == b.op \in {"break", "next"}
\* The programs in which break and next have their loops, and a label one place.
RECURSIVE Placed(_, _)
Placed(b, depth) ==
  LET deeper == IF b.op \in {"while", "do", "for", "until", "repeat", "ever"} THEN depth + 1 ELSE depth
  IN /\ Loose(b) => depth >= (IF b.w = "2" THEN 2 ELSE 1)
     /\ \A i \in DOMAIN b.b : Placed(b.b[i], deeper)
RECURSIVE Labelled(_)
Labelled(b) == FoldLeft(LAMBDA n, c : n + Labelled(c), IF b.op = "10" THEN 1 ELSE 0, b.b)
Sound(S) == {b \in S : Placed(b, 0) /\ Labelled(b) < 2}
Once == Sound(Around(Simple))
Twice == Sound(Around(Around(Few)))
Thrice == Sound(Around({RStmt("while", "d", <<b>>) : b \in Around(Simple)}))

(* How a program is written: with braces everywhere, or only where they    *)
(* are needed; with macros, with included files; as a function.            *)
RECURSIVE Tokens(_, _)
RBody(b, lay, needed) == IF lay # "bare" \/ needed THEN <<"{">> \o Tokens(b, lay) \o <<"}">> ELSE Tokens(b, lay)
Tokens(b, lay) ==
  LET part(i) == RBody(b.b[i], lay, FALSE)
      cond == <<"(", IF lay = "macro" /\ b.w = "c" THEN "N" ELSE b.w, ")">>
      end == IF lay = "bare" THEN <<"newline">> ELSE <<";">>
      simple(c) == c.op \in {"does", "break", "next", "return"}
      heads == RHeads[b.w]
  IN CASE b.op = "does" /\ b.w = "x" /\ lay = "macro" -> <<"M">>
       [] b.op = "does" /\ b.w = "x" /\ lay = "include" -> <<"include", "F", "newline">>
       [] b.op = "does" /\ (b.w # "x" \/ lay \notin {"macro", "include"}) -> <<b.w>> \o end
       [] b.op = "return" -> <<"return">> \o (IF lay = "function" THEN <<"(", "v", ")">> ELSE <<>>) \o end
       [] b.op \in {"break", "next"} -> <<b.op>> \o (IF b.w = "" THEN <<>> ELSE <<b.w>>) \o end
       [] b.op = "{" -> <<"{">> \o FlattenSeq([i \in DOMAIN b.b |-> Tokens(b.b[i], lay)]) \o <<"}">>
       [] b.op = "10" -> <<"10">> \o Tokens(b.b[1], lay)
       [] b.op = "if" /\ Len(b.b) = 1 -> <<"if">> \o cond \o part(1)
       [] b.op = "if" /\ Len(b.b) = 2 -> <<"if">> \o cond \o RBody(b.b[1], lay, ~simple(b.b[1])) \o <<"else">> \o part(2)
       [] b.op = "while" -> <<"while">> \o cond \o part(1)
       [] b.op = "do" -> <<"do", b.w>> \o end \o part(1)
       [] b.op = "for" -> <<"for", "(", "i", ";", b.w, ";", "r", ")">> \o part(1)
       [] b.op = "ever" -> <<"for", "(", ";", ";", ")">> \o part(1)
       [] b.op = "repeat" -> <<"repeat">> \o RBody(b.b[1], lay, ~simple(b.b[1]))
       [] b.op = "until" -> <<"repeat">> \o RBody(b.b[1], lay, ~simple(b.b[1])) \o <<"until">> \o cond \o end
       [] b.op = "switch" -> <<"switch", "(", b.w, ")", "{">> \o
            FlattenSeq([i \in DOMAIN b.b |-> heads[i].tok \o Tokens(b.b[i], lay)]) \o <<"}">>
RatforText(b, lay) ==
  (CASE lay = "macro" -> <<"define", "M", "w", "newline", "define", "(", "M", ",", "{", "x", ";", "}", ")", "define", "N", "c", "newline">>
     [] lay = "function" -> <<"function", "f", "(", ")", "newline">>
     [] OTHER -> <<>>) \o Tokens(b, lay) \o <<"q", "newline">>
Layouts == {"braced", "bare", "macro", "include", "function"}

\* A row of strings: their sizes, if given, their texts, and what is between them.
StringRows == [sizes : {<<a, b>> : a, b \in {"", "1", "2", "4"}}, texts : {<<a, b>> : a, b \in {"''", "'ab'"}}, sep : {";", "newline"}]
Declared(r) ==
  LET one(i) == <<"string", IF i = 1 THEN "s" ELSE "r">> \o (IF r.sizes[i] = "" THEN <<>> ELSE <<"(", r.sizes[i], ")">>) \o <<r.texts[i], r.sep>>
  IN <<"define", "eos", "0", "newline">> \o one(1) \o one(2) \o <<"q", "newline">>

RatforJobs == [prog : {"ratfor"}, b : Once, lay : Layouts] \cup [prog : {"ratfor"}, b : Twice, lay : {"braced", "bare"}]
                \cup [prog : {"ratfor"}, b : Thrice, lay : {"bare"}] \cup [prog : {"ratfor strings"}, r : StringRows]
RatforRuns == \/ job.prog = "ratfor" /\ Answer(R!Ratfor(RatforText(job.b, job.lay)))
              \/ job.prog = "ratfor strings" /\ Answer(R!Ratfor(Declared(job.r)))

-----------------------------------------------------------------------------
(* A run: what was passed so far, the outcomes to come, and how it goes    *)
(* on; it is over when the outcomes are used up or enough was passed.      *)
Enough == 7
Passes(x, e) == IF Len(x.tr) = Enough THEN [x EXCEPT !.how = "over"] ELSE [x EXCEPT !.tr = Append(@, e)]
Asks(x, e) == IF x.bits = <<>> THEN [x EXCEPT !.how = "over"]
              ELSE Passes([x EXCEPT !.bits = Tail(@), !.last = Head(x.bits)], e \o ToString(Head(x.bits)))
Begun(bits) == [tr |-> <<>>, bits |-> bits, last |-> 0, how |-> "on", n |-> 0]

\* The statements, as they are meant.
RECURSIVE Does1(_, _, _), Rounds(_, _, _)
InOrder(bs, x, lay) == FoldLeft(LAMBDA v, b : IF v.how = "on" THEN Does1(b, v, lay) ELSE v, x, bs)
Left(x, op, b) == [x EXCEPT !.how = op, !.n = IF b.w = "2" THEN 2 ELSE 1]
\* One round of a loop, from its condition on.
Rounds(b, x, lay) ==
  LET mine(u) == u.how \in {"break", "next"} /\ u.n = 1
      outer(u) == u.how \in {"break", "next"} /\ u.n > 1
      again(u) == CASE b.op = "for" -> R!Let(Passes(u, "r"), LAMBDA v : IF v.how = "on" THEN Rounds(b, v, lay) ELSE v)
                    [] b.op = "until" -> R!Let(Asks(u, b.w), LAMBDA v : IF v.how = "on" /\ v.last = 0 THEN Rounds(b, v, lay) ELSE v)
                    [] OTHER -> Rounds(b, u, lay)
      after(u) == CASE u.how = "on" -> again(u)
                    [] mine(u) /\ u.how = "next" -> again([u EXCEPT !.how = "on"])
                    [] mine(u) /\ u.how = "break" -> [u EXCEPT !.how = "on"]
                    [] outer(u) -> [u EXCEPT !.n = @ - 1]
                    [] OTHER -> u
      tested == b.op \in {"while", "do", "for"}
  IN R!Let(IF tested THEN Asks(x, b.w) ELSE x, LAMBDA v :
       IF v.how = "on" /\ (~tested \/ v.last # 0) THEN R!Let(Does1(b.b[1], v, lay), after) ELSE v)
Does1(b, x, lay) ==
  LET returns(v) == IF v.how = "on" THEN [v EXCEPT !.how = "return"] ELSE v
      picks(v) == LET taken == SelectInSeq(RHeads[b.w], LAMBDA h : v.last \in h.of)
                      i == IF taken # 0 THEN taken ELSE SelectInSeq(RHeads[b.w], LAMBDA h : h.of = {})
                  IN IF v.how # "on" \/ i = 0 THEN v ELSE Does1(b.b[i], v, lay)
      chooses(v) == IF v.how # "on" THEN v ELSE IF v.last # 0 THEN Does1(b.b[1], v, lay)
                    ELSE IF Len(b.b) = 2 THEN Does1(b.b[2], v, lay) ELSE v
      loops(v) == IF v.how = "on" THEN Rounds(b, v, lay) ELSE v
  IN CASE b.op = "does" -> Passes(x, b.w)
       [] b.op \in {"break", "next"} -> Left(x, b.op, b)
       [] b.op = "return" -> returns(IF lay = "function" THEN Passes(x, "f") ELSE x)
       [] b.op = "{" -> InOrder(b.b, x, lay)
       [] b.op = "10" -> InOrder(b.b, Passes(x, "10"), lay)
       [] b.op = "if" -> R!Let(Asks(x, b.w), chooses)
       [] b.op = "switch" -> R!Let(Asks(x, b.w), picks)
       [] b.op = "for" -> R!Let(Passes(x, "i"), loops)
       [] OTHER -> Rounds(b, x, lay)
Intended(b, lay, bits) == InOrder((IF lay = "function" THEN <<Does("function")>> ELSE <<>>) \o <<b, Does("q")>>, Begun(bits), lay).tr

-----------------------------------------------------------------------------
(* The Fortran: a line has labels and a text.                              *)
LineOf(code, l) == SelectInSeq(code, LAMBDA c : Contains(c.labels, l))
Word(line, k) == line.text[k].t
\* The do statement that ends at this line.
DoOf(code, i) == SelectInSeq(code, LAMBDA c : c.text # <<>> /\ Word(c, 1) = "do" /\ Contains(code[i].labels, c.text[2].n))
RECURSIVE Fortran(_, _, _, _)
Fortran(code, i, x, vars) ==
  LET line == code[i]
      n == Len(line.text)
      goto(l) == LineOf(code, l)
      go(u, to) == IF u.how = "on" THEN Fortran(code, to, u, vars) ELSE u
      \* a test that goes on at the next line, or elsewhere
      either(v, e, yes, no) == R!Let(Asks(v, e), LAMBDA u : go(u, IF u.last # 0 THEN yes ELSE no))
      within(a) == IF Word(line, 4) = ".eq." THEN a = line.text[5].n ELSE a >= line.text[5].n /\ a <= line.text[n - 3].n
      step(v) ==
        CASE v.how # "on" -> v
          [] v.how = "on" /\ n = 0 -> go(v, i + 1)
          [] v.how = "on" /\ n # 0 ->
             CASE Word(line, 1) = "continue" -> R!Let(DoOf(code, i), LAMBDA do :
                    IF do = 0 THEN go(v, i + 1) ELSE either(v, Word(code[do], 3), do + 1, i + 1))
               [] Word(line, 1) = "goto" -> go(v, goto(line.text[2].n))
               [] Word(line, 1) = "return" -> v
               [] Word(line, 1) = "if(.not." -> either(v, Word(line, 3), i + 1, goto(line.text[n].n))
               [] Word(line, 1) = "do" -> either(v, Word(line, 3), i + 1, goto(line.text[2].n) + 1)
               [] Word(line, 1) = "I" -> R!Let(Asks(v, Word(line, 5)), LAMBDA u :
                    IF u.how = "on" THEN Fortran(code, i + 1, u, (line.text[2].n :> u.last) @@ vars) ELSE u)
               [] Word(line, 1) = "if (" -> go(v, IF within(vars[line.text[3].n]) THEN goto(line.text[n].n) ELSE i + 1)
               [] OTHER -> go(Passes(v, Word(line, 1)), i + 1)
  IN IF i > Len(code) \/ x.how # "on" THEN x
     ELSE R!Let(IF Contains(line.labels, 10) THEN Passes(x, "10") ELSE x, step)
Ran(code, bits) == Fortran(code, 1, Begun(bits), <<>>).tr

-----------------------------------------------------------------------------
Outcomes(b) == IF b.op = "switch" \/ \E i \in DOMAIN b.b : b.b[i].op = "switch" THEN [1 .. 3 -> {-1, 0, 1, 2, 4}] ELSE [1 .. 4 -> {0, 1}]
(* Whatever the conditions come out as, the Fortran that parse writes       *)
(* passes the same statements in the same order as the ratfor program.     *)
TranslationRight ==
  /\ Ended("ratfor") => ~out.bad /\ \A bits \in Outcomes(job.b) : Ran(out.code, bits) = Intended(job.b, job.lay, bits)
  /\ Ended("ratfor strings") =>
       LET size(i) == IF job.r.sizes[i] = "" THEN Len(RTexts[job.r.texts[i]]) + 1 ELSE RNumbers[job.r.sizes[i]]
           held(i) == SubSeq(RTexts[job.r.texts[i]], 1, Min({size(i) - 1, Len(RTexts[job.r.texts[i]])})) \o <<0>>
           name(i) == IF i = 1 THEN "s" ELSE "r"
           lines == SelectSeq(out.code, LAMBDA c : c.text # <<>>)
           before(line) == SubSeq(line.text, 1, SelectInSeq(line.text, LAMBDA q : q.t = "/"))
           after(line) == SubSeq(line.text, Len(before(line)) + 1, Len(line.text))
       IN /\ ~out.bad /\ [i \in DOMAIN lines |-> Word(lines[i], 1)] = <<"integer", "integer", "data ", "data ", "q">>
          /\ \A i \in 1 .. 2 :
               /\ Word(lines[i], 2) = name(i) /\ lines[i].text[4].n = size(i)
               \* the data: so many elements of the array from 1 on, and as many values
               /\ \A p \in {SelectSeq(before(lines[i + 2]), LAMBDA q : q.t = "number")} :
                    p = [k \in DOMAIN held(i) |-> R!Number(k)]
               /\ [k \in DOMAIN held(i) |-> after(lines[i + 2])[2 * k - 1]] =
                    [k \in DOMAIN held(i) |-> IF k = Len(held(i)) THEN R!Piece("0") ELSE R!Number(held(i)[k])]
               /\ Len(after(lines[i + 2])) = 2 * Len(held(i))
=============================================================================
