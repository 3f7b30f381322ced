------------------------------ MODULE Tinybas ------------------------------
(***************************************************************************)
(* tinybas (src/tinybas): a Tiny BASIC program is read, then run, listed   *)
(* or translated to C.                                                     *)
(*                                                                         *)
(* A text is a sequence of characters.  An int has the 16 bits of the      *)
(* compiler for both systems, so that the comparisons with -32768 and      *)
(* 32767 that would report E_OVERFLOW never hold and are left out.  The    *)
(* lines at which the errors of the parser are reported are left out too,  *)
(* and so are the memory and what frees it.                                *)
(***************************************************************************)
EXTENDS Integers, Sequences, SequencesExt

Upper == <<"A", "B", "C", "D", "E", "F", "G", "H", "I", "J", "K", "L", "M", "N", "O", "P", "Q", "R", "S", "T", "U", "V", "W", "X", "Y", "Z">>
Lower == <<"a", "b", "c", "d", "e", "f", "g", "h", "i", "j", "k", "l", "m", "n", "o", "p", "q", "r", "s", "t", "u", "v", "w", "x", "y", "z">>
Figures == <<"0", "1", "2", "3", "4", "5", "6", "7", "8", "9">>
Letters == ToSet(Upper) \cup ToSet(Lower)
Digits == ToSet(Figures)
Up == [c \in Letters |-> IF c \in ToSet(Upper) THEN c ELSE Upper[CHOOSE i \in DOMAIN Lower : Lower[i] = c]]
Low == [c \in Letters |-> IF c \in ToSet(Lower) THEN c ELSE Lower[CHOOSE i \in DOMAIN Upper : Upper[i] = c]]
ToUpper(c) == IF c \in Letters THEN Up[c] ELSE c
ToLower(c) == IF c \in Letters THEN Low[c] ELSE c
Digit == [c \in Digits |-> (CHOOSE i \in DOMAIN Figures : Figures[i] = c) - 1]

CR == "\r"
NL == "\n"
SUB == "^Z"
NUL == "^@"
EOF == "EOF"
Let(v, Op(_)) == Op(v)
None == [class |-> "none"]
Int16(n) == ((n + 32768) % 65536) - 32768
Quotient(a, b) == LET q == (IF a < 0 THEN -a ELSE a) \div (IF b < 0 THEN -b ELSE b) IN IF (a < 0) = (b < 0) THEN q ELSE -q
Atoi(text) == FoldLeft(LAMBDA n, c : Int16(10 * n + Digit[c]), 0, text)
\* %d: the digits of an int.
RECURSIVE Figured(_)
Figured(n) == IF n < 10 THEN <<Figures[n + 1]>> ELSE Append(Figured(n \div 10), Figures[(n % 10) + 1])
Decimal(n) == IF n < 0 THEN <<"-">> \o Figured(-n) ELSE Figured(n)

-----------------------------------------------------------------------------
(* The tokens.  A carriage return is passed over, and ^Z and NUL read as   *)
(* the end of the file; what is behind them can still be read.             *)
Read(src, at) ==
  LET i == CHOOSE k \in at .. Len(src) + 1 : (k > Len(src) \/ src[k] # CR) /\ \A l \in at .. k - 1 : src[l] = CR
  IN IF i > Len(src) THEN [ch |-> EOF, at |-> i] ELSE [ch |-> IF src[i] \in {SUB, NUL} THEN EOF ELSE src[i], at |-> i + 1]
\* Where the input is with the character pushed back; the end is not.
Unread(r) == IF r.ch = EOF THEN r.at ELSE r.at - 1
Token(class, text, at) == [class |-> class, text |-> text, at |-> at]

Symbol == [c \in {"+", "-", "*", "/", "=", "(", ")", ","} |-> c]
Keyword == <<"LET", "IF", "THEN", "GOTO", "GOSUB", "RETURN", "END", "PRINT", "INPUT", "REM">>
Spelled == <<<<"L", "E", "T">>, <<"I", "F">>, <<"T", "H", "E", "N">>, <<"G", "O", "T", "O">>, <<"G", "O", "S", "U", "B">>,
  <<"R", "E", "T", "U", "R", "N">>, <<"E", "N", "D">>, <<"P", "R", "I", "N", "T">>, <<"I", "N", "P", "U", "T">>, <<"R", "E", "M">>>>
\* tinybasic_strcmp goes only as far as the shorter word.
Alike(a, b) == \A i \in DOMAIN a \cap DOMAIN b : ToUpper(a[i]) = ToUpper(b[i])
IdentifyWord(word) ==
  IF Len(word) = 1 THEN "VARIABLE"
  ELSE LET i == SelectInSeq(Spelled, LAMBDA w : Alike(word, w)) IN IF i = 0 THEN "WORD" ELSE Keyword[i]
IdentifyCompound(text) ==
  CASE text \in {<<"<", ">">>, <<">", "<">>} -> "<>" [] text = <<"<">> -> "<" [] text = <<"<", "=">> -> "<="
    [] text = <<">">> -> ">" [] text = <<">", "=">> -> ">="

RECURSIVE Run(_, _, _, _), Default(_, _), Comment(_, _), Literal(_, _, _)
Run(src, r, S, text) ==
  IF r.ch \in S THEN Run(src, Read(src, r.at), S, Append(text, r.ch)) ELSE [text |-> text, r |-> r]
WordMode(src, w) ==
  LET class == IdentifyWord(w.text)
  IN IF class = "REM" THEN Comment(src, [w.r EXCEPT !.at = Unread(w.r)]) ELSE Token(class, w.text, Unread(w.r))
\* A comment on a last line without a newline is read for ever.
Comment(src, r) == IF r.ch = NL THEN Default(src, r)
                   ELSE IF r.ch = EOF /\ r.at > Len(src) THEN Token("endless", <<>>, r.at)
                   ELSE Comment(src, Read(src, r.at))
NumberMode(src, w) == Token("NUMBER", w.text, Unread(w.r))
RelationMode(first, r) ==
  IF r.ch = "=" \/ (r.ch # first /\ r.ch \in {"<", ">"}) THEN Token(IdentifyCompound(<<first, r.ch>>), <<first, r.ch>>, r.at)
  ELSE Token(IdentifyCompound(<<first>>), <<first>>, Unread(r))
Literal(src, r, text) ==
  CASE r.ch = "\"" -> Token("STRING", text, r.at)
    [] r.ch = "\\" -> Let(Read(src, r.at), LAMBDA q : Literal(src, Read(src, q.at), Append(text, q.ch)))
    [] r.ch = EOF -> Token("ILLEGAL", text, r.at)
    [] OTHER -> Literal(src, Read(src, r.at), Append(text, r.ch))
Default(src, r) ==
  CASE r.ch \in {" ", "\t"} -> Default(src, Read(src, r.at))
    [] r.ch = NL -> Token("EOL", <<>>, r.at)
    [] r.ch \in Letters -> WordMode(src, Run(src, r, Letters, <<>>))
    [] r.ch \in Digits -> NumberMode(src, Run(src, r, Digits, <<>>))
    [] r.ch \in {"<", ">"} -> RelationMode(r.ch, Read(src, r.at))
    [] r.ch \in DOMAIN Symbol -> Token(Symbol[r.ch], <<r.ch>>, r.at)
    [] r.ch = "\"" -> Literal(src, Read(src, r.at), <<>>)
    [] r.ch = EOF -> Token(EOF, <<>>, r.at)
    [] OTHER -> Token("ILLEGAL", <<r.ch>>, r.at)
NextToken(src, at) == Default(src, Read(src, at))

-----------------------------------------------------------------------------
(* The options, and the errors: the last one that is set stays.  A token   *)
(* that never comes leaves the program in the tokeniser.                   *)
NewOptions == [numbers |-> "optional", limit |-> 32767, comments |-> "enabled", gosubs |-> 64]
SetCode(x, code) == IF x.err = "endless" THEN x ELSE [x EXCEPT !.err = code]

(* The parser: where the input is, the token that was read ahead, the last *)
(* label and the error.  What parses gives the parser's new state and the  *)
(* node it has made, None if there is none.                                *)
NewParser(src, o) == [src |-> src, at |-> 1, stored |-> None, last |-> 0, err |-> "", o |-> o]
Made(p, n) == [p |-> p, n |-> n]
Bad(p, code) == Made(SetCode(p, code), None)
GetToken(p) ==
  IF p.stored # None THEN [t |-> p.stored, p |-> [p EXCEPT !.stored = None]]
  ELSE Let(NextToken(p.src, p.at), LAMBDA t :
         [t |-> t, p |-> [p EXCEPT !.at = t.at, !.err = IF t.class = "endless" THEN t.class ELSE @]])
Stored(a) == [a.p EXCEPT !.stored = a.t]

Factor(class, sign, v) == [class |-> class, sign |-> sign, v |-> v]
Variable(t) == Up[t.text[1]]
RECURSIVE ParseChain(_, _), ParseMore(_, _, _)
ParseTerm(p) == ParseChain(p, "term")
ParseExpression(p) == ParseChain(p, "expression")
ParseFactor(p) == Let(GetToken(p), LAMBDA a :
  Let(IF a.t.class \in {"+", "-"} THEN GetToken(a.p) ELSE a, LAMBDA b :
    LET sign == IF a.t.class = "-" THEN -1 ELSE 1
    IN CASE b.t.class = "NUMBER" -> Made(b.p, Factor("value", sign, Atoi(b.t.text)))
         [] b.t.class = "VARIABLE" -> Made(b.p, Factor("variable", sign, Variable(b.t)))
         [] b.t.class = "(" -> Let(ParseExpression(b.p), LAMBDA e :
              IF e.n = None THEN Bad(e.p, "invalid expression")
              ELSE Let(GetToken(e.p), LAMBDA c : IF c.t.class = ")" THEN Made(c.p, Factor("expression", sign, e.n))
                                                 ELSE Bad(c.p, "missing )")))
         [] OTHER -> Bad(b.p, "invalid expression")))

(* A term has a factor and the operators with the factors that follow; an  *)
(* expression is the same of terms.                                        *)
Chain(first, rest) == [class |-> "chain", first |-> first, rest |-> rest]
ParsePart(p, level) == IF level = "term" THEN ParseFactor(p) ELSE ParseTerm(p)
Operators(level) == IF level = "term" THEN {"*", "/"} ELSE {"+", "-"}
ParseChain(p, level) == Let(ParsePart(p, level), LAMBDA a :
  IF a.n = None THEN a ELSE ParseMore(a.p, level, Chain(a.n, <<>>)))
ParseMore(p, level, n) == Let(GetToken(p), LAMBDA a :
  IF a.p.err # "" \/ a.t.class \notin Operators(level) THEN Made(Stored(a), n)
  ELSE Let(ParsePart(a.p, level), LAMBDA b :
         ParseMore(b.p, level, IF b.n = None THEN n ELSE [n EXCEPT !.rest = Append(@, [op |-> a.t.class, n |-> b.n])])))

GenerateDefaultLabel(p) == IF p.o.numbers = "implied" THEN p.last + 1 ELSE 0
ValidateLineLabel(p, label) ==
  /\ label \in 0 .. p.o.limit
  /\ p.o.numbers # "optional" => label # 0 /\ label > p.last

ParseLet(p) == Let(GetToken(p), LAMBDA a :
  IF a.t.class # "VARIABLE" THEN Bad(a.p, "invalid variable")
  ELSE Let(GetToken(a.p), LAMBDA b :
         IF b.t.class # "=" THEN Bad(b.p, "invalid assignment")
         ELSE Let(ParseExpression(b.p), LAMBDA e :
                IF e.n = None THEN Bad(e.p, "invalid expression")
                ELSE Made(e.p, [class |-> "LET", v |-> Variable(a.t), e |-> e.n]))))
ParseJump(p, class) == Let(ParseExpression(p), LAMBDA e :
  Made(e.p, IF e.n = None THEN None ELSE [class |-> class, e |-> e.n]))

Relations == {"=", "<>", "<", "<=", ">", ">="}
RECURSIVE ParseStatement(_), ParsePrint(_, _), ParseInput(_, _)
ParseIf(p) ==
  LET orElse(q, Op(_)) == IF q.err # "" THEN Made(q, None) ELSE Op(q)
  IN Let(ParseExpression(p), LAMBDA l : orElse(l.p, LAMBDA p1 :
     Let(GetToken(p1), LAMBDA a :
     IF a.t.class \notin Relations THEN Bad(a.p, "invalid operator")
     ELSE Let(ParseExpression(a.p), LAMBDA r : orElse(r.p, LAMBDA p2 :
     Let(GetToken(p2), LAMBDA b :
     IF b.t.class # "THEN" THEN Bad(b.p, "THEN expected")
     ELSE Let(ParseStatement(b.p), LAMBDA s : orElse(s.p, LAMBDA p3 :
     Made(p3, [class |-> "IF", l |-> l.n, op |-> a.t.class, r |-> r.n, s |-> s.n])))))))))
\* The items of PRINT and the variables of INPUT, after a comma or the keyword.
ParsePrint(p, items) ==
  LET more(q, item) ==
        IF q.err # "" THEN Made(q, None)
        ELSE Let(GetToken(q), LAMBDA a :
               IF a.t.class = "," /\ a.p.err = "" THEN ParsePrint(a.p, Append(items, item))
               ELSE Made(Stored(a), [class |-> "PRINT", items |-> Append(items, item)]))
  IN Let(GetToken(p), LAMBDA a :
       CASE a.t.class \in {EOF, "EOL"} -> Bad(a.p, "invalid PRINT output")
         [] a.t.class = "STRING" -> more(a.p, [class |-> "string", text |-> a.t.text])
         [] OTHER -> Let(ParseExpression(Stored(a)), LAMBDA e :
              IF e.n = None THEN Bad(e.p, "invalid PRINT output") ELSE more(e.p, e.n)))
ParseInput(p, vars) == Let(GetToken(p), LAMBDA a :
  IF a.t.class # "VARIABLE" THEN Bad(a.p, "invalid variable")
  ELSE Let(GetToken(a.p), LAMBDA b :
         IF b.t.class = "," THEN ParseInput(b.p, Append(vars, Variable(a.t)))
         ELSE Made(Stored(b), [class |-> "INPUT", vars |-> Append(vars, Variable(a.t))])))
\* No statement at the end of a line: a comment.
ParseStatement(p) == Let(GetToken(p), LAMBDA a :
  CASE a.t.class = "EOL" -> Made(Stored(a), None)
    [] a.t.class = "LET" -> ParseLet(a.p)
    [] a.t.class = "IF" -> ParseIf(a.p)
    [] a.t.class \in {"GOTO", "GOSUB"} -> ParseJump(a.p, a.t.class)
    [] a.t.class \in {"RETURN", "END"} -> Made(a.p, [class |-> a.t.class])
    [] a.t.class = "PRINT" -> ParsePrint(a.p, <<>>)
    [] a.t.class = "INPUT" -> ParseInput(a.p, <<>>)
    [] OTHER -> Bad(a.p, "unrecognised command"))

ParseProgramLine(p) == Let(GetToken(p), LAMBDA a :
  LET numbered == a.t.class = "NUMBER"
      label == IF numbered THEN Atoi(a.t.text) ELSE GenerateDefaultLabel(p)
      begun == IF numbered THEN a.p ELSE Stored(a)
  IN CASE a.t.class = EOF -> Made(a.p, None)
       [] a.t.class # EOF /\ ~ValidateLineLabel(p, label) -> Bad(begun, "invalid line number")
       [] OTHER -> Let(ParseStatement(IF numbered THEN [begun EXCEPT !.last = label] ELSE begun), LAMBDA s :
            LET line(q) == Made(IF s.n = None THEN q ELSE [q EXCEPT !.last = label], [class |-> "line", label |-> label, s |-> s.n])
            IN IF s.p.err # "" THEN line(s.p)
               ELSE Let(GetToken(s.p), LAMBDA b :
                      line(IF b.t.class \in {"EOL", EOF} THEN b.p ELSE SetCode(b.p, "unexpected parameter")))))
RECURSIVE ParseLines(_, _)
ParseLines(p, lines) == Let(ParseProgramLine(p), LAMBDA l :
  IF l.n = None \/ l.p.err # "" THEN [lines |-> lines, err |-> l.p.err] ELSE ParseLines(l.p, Append(lines, l.n)))
Parse(src, o) == ParseLines(NewParser(src, o), <<>>)

-----------------------------------------------------------------------------
(* The interpreter: the line it is at, 0 behind the last one; the stack of *)
(* lines to return to; the variables; the error, with the label it is      *)
(* reported at; what is printed, a line at a time; and what is typed.      *)
RECURSIVE InterpretExpression(_, _), InterpretStatement(_, _)
\* Values come with the error, which ends the evaluation of what follows.
InterpretFactor(x, f) ==
  CASE f.class = "value" -> [v |-> Int16(f.sign * f.v), err |-> x.err]
    [] f.class = "variable" -> [v |-> Int16(f.sign * x.vars[f.v]), err |-> x.err]
    [] f.class = "expression" -> Let(InterpretExpression(x, f.v), LAMBDA e : [e EXCEPT !.v = Int16(f.sign * @)])
InterpretTerm(x, t) ==
  FoldLeft(LAMBDA a, r :
      IF a.err # "" THEN a
      ELSE Let(InterpretFactor(x, r.n), LAMBDA b :
             IF r.op = "*" THEN [v |-> Int16(a.v * b.v), err |-> b.err]
             ELSE IF b.v = 0 THEN [a EXCEPT !.err = "divide by zero"]
             ELSE [v |-> Int16(Quotient(a.v, b.v)), err |-> b.err]),
    InterpretFactor(x, t.first), t.rest)
InterpretExpression(x, e) ==
  FoldLeft(LAMBDA a, r :
      IF a.err # "" THEN a
      ELSE Let(InterpretTerm(x, r.n), LAMBDA b : [v |-> Int16(IF r.op = "+" THEN a.v + b.v ELSE a.v - b.v), err |-> b.err]),
    InterpretTerm(x, e.first), e.rest)
Label(x) == x.lines[x.line].label
SetError(x, code) == IF code = "" THEN x ELSE [x EXCEPT !.err = code, !.label = Label(x)]
NextLine(x) == [x EXCEPT !.line = IF @ = Len(x.lines) THEN 0 ELSE @ + 1]

\* (faulty form of FindLabel: only the line itself will do)
FindLabelExact(x, label) ==
  LET i == SelectInSeq(x.lines, LAMBDA l : l.label = label)
  IN IF i = 0 THEN [SetError(x, "invalid line number") EXCEPT !.line = 0] ELSE [x EXCEPT !.line = i]
\* With numbers in sequence the next higher line will do.
FindLabel(x, label) ==
  LET i == SelectInSeq(x.lines, LAMBDA l : l.label = label \/ (x.o.numbers # "optional" /\ l.label >= label))
  IN IF i = 0 THEN [SetError(x, "invalid line number") EXCEPT !.line = 0] ELSE [x EXCEPT !.line = i]

InterpretLet(x, s) == Let(InterpretExpression(x, s.e), LAMBDA e : NextLine([SetError(x, e.err) EXCEPT !.vars[s.v] = e.v]))
Compare(op, a, b) == CASE op = "=" -> a = b [] op = "<>" -> a # b [] op = "<" -> a < b
                       [] op = "<=" -> a <= b [] op = ">" -> a > b [] op = ">=" -> a >= b
InterpretIf(x, s) ==
  Let(InterpretExpression(x, s.l), LAMBDA l : Let(InterpretExpression([x EXCEPT !.err = l.err], s.r), LAMBDA r :
    IF r.err = "" /\ Compare(s.op, l.v, r.v) THEN InterpretStatement(x, s.s) ELSE NextLine(SetError(x, r.err))))
InterpretGoto(x, s) == Let(InterpretExpression(x, s.e), LAMBDA e : IF e.err = "" THEN FindLabel(x, e.v) ELSE SetError(x, e.err))
\* The number is worked out with the line to return to already on the stack.
InterpretGosub(x, s) ==
  IF Len(x.stack) >= x.o.gosubs THEN SetError(x, "too many gosubs")
  ELSE InterpretGoto([x EXCEPT !.stack = Append(@, NextLine(x).line)], s)
InterpretReturn(x) == IF x.stack = <<>> THEN SetError(x, "RETURN without GOSUB")
                      ELSE [x EXCEPT !.line = Last(x.stack), !.stack = Front(@)]
(* After an error the strings of PRINT are still printed.                  *)
InterpretPrint(x, s) ==
  LET item(a, i) == IF i.class = "string" THEN [a EXCEPT !.text = @ \o i.text, !.items = @ + 1]
                    ELSE Let(InterpretExpression([x EXCEPT !.err = a.err], i), LAMBDA e :
                           IF e.err # "" THEN [a EXCEPT !.err = e.err]
                           ELSE [a EXCEPT !.text = @ \o Decimal(e.v), !.items = @ + 1])
      a == FoldLeft(item, [text |-> <<>>, items |-> 0, err |-> ""], s.items)
  IN NextLine([SetError(x, a.err) EXCEPT !.out = IF a.items = 0 THEN @ ELSE Append(@, a.text)])
(* INPUT passes over all but digits; the sign is the character before      *)
(* them, which may be the one the number before it ended with.  Without    *)
(* more digits it reads for ever.                                          *)
InputNumber(ch, in) ==
  LET i == SelectInSeq(in, LAMBDA c : c \in Digits)
      j == SelectInSubSeq(in, i, Len(in), LAMBDA c : c \notin Digits)
      end == IF j = 0 THEN Len(in) + 1 ELSE j
      before == IF i = 1 THEN ch ELSE in[i - 1]
  IN IF i = 0 THEN None
     ELSE [class |-> "number", v |-> Int16((IF before = "-" THEN -1 ELSE 1) * Atoi(SubSeq(in, i, end - 1))),
           ch |-> IF j = 0 THEN EOF ELSE in[j], in |-> SubSeq(in, end + 1, Len(in))]
InterpretInput(x, s) ==
  LET one(a, v) == IF a.x.err # "" THEN a
                   ELSE Let(InputNumber(a.ch, a.x.in), LAMBDA n :
                          IF n = None THEN [a EXCEPT !.x.err = "endless"]
                          ELSE [x |-> [a.x EXCEPT !.vars[v] = n.v, !.in = n.in], ch |-> n.ch])
  IN NextLine(FoldLeft(one, [x |-> x, ch |-> NUL], s.vars).x)
InterpretStatement(x, s) ==
  CASE s.class = "none" -> NextLine(x)
    [] s.class = "LET" -> InterpretLet(x, s)
    [] s.class = "IF" -> InterpretIf(x, s)
    [] s.class = "GOTO" -> InterpretGoto(x, s)
    [] s.class = "GOSUB" -> InterpretGosub(x, s)
    [] s.class = "RETURN" -> InterpretReturn(x)
    [] s.class = "END" -> [x EXCEPT !.stopped = TRUE]
    [] s.class = "PRINT" -> InterpretPrint(x, s)
    [] s.class = "INPUT" -> InterpretInput(x, s)
NewInterpreter(lines, o, in) ==
  [lines |-> lines, line |-> IF lines = <<>> THEN 0 ELSE 1, stack |-> <<>>, vars |-> [v \in ToSet(Upper) |-> 0],
   stopped |-> FALSE, err |-> "", label |-> 0, out |-> <<>>, in |-> in, o |-> o]
Ended(x) == x.line = 0 \/ x.stopped \/ x.err # ""
\* At most n statements.
RECURSIVE InterpretFrom(_, _)
InterpretFrom(x, n) == IF Ended(x) \/ n = 0 THEN x ELSE InterpretFrom(InterpretStatement(x, x.lines[x.line].s), n - 1)
Interpret(lines, o, in, n) == InterpretFrom(NewInterpreter(lines, o, in), n)

-----------------------------------------------------------------------------
(* The listing; Case is the case of the variables, capitals for the        *)
(* listing and small letters for C.  A statement with no text is a comment.*)
RECURSIVE OutputExpression(_, _), OutputStatement(_)
OutputFactor(f, Case) ==
  (IF f.sign = -1 THEN <<"-">> ELSE <<>>) \o
  (CASE f.class = "value" -> Decimal(f.v)
     [] f.class = "variable" -> <<Case[f.v]>>
     [] f.class = "expression" -> <<"(">> \o OutputExpression(f.v, Case) \o <<")">>)
OutputTerm(t, Case) == FoldLeft(LAMBDA a, r : a \o <<r.op>> \o OutputFactor(r.n, Case), OutputFactor(t.first, Case), t.rest)
OutputExpression(e, Case) == FoldLeft(LAMBDA a, r : a \o <<r.op>> \o OutputTerm(r.n, Case), OutputTerm(e.first, Case), e.rest)
Listed(e) == OutputExpression(e, Up)
Word(k) == Spelled[SelectInSeq(Keyword, LAMBDA w : w = k)] \o <<" ">>
RelationText(op) == CASE op = "<>" -> <<"<", ">">> [] op = "<=" -> <<"<", "=">> [] op = ">=" -> <<">", "=">> [] OTHER -> <<op>>
Commas(parts) == FoldLeft(LAMBDA a, p : IF a = <<>> THEN p ELSE a \o <<",">> \o p, <<>>, parts)
OutputIf(s) == LET inner == OutputStatement(s.s)
               IN IF inner = <<>> THEN <<>>
                  ELSE Word("IF") \o Listed(s.l) \o RelationText(s.op) \o Listed(s.r) \o <<" ">> \o Word("THEN") \o inner
OutputItem(i) == IF i.class = "string" THEN <<"\"">> \o i.text \o <<"\"">> ELSE Listed(i)
OutputStatement(s) ==
  CASE s.class = "none" -> <<>>
    [] s.class = "LET" -> Word("LET") \o <<s.v, "=">> \o Listed(s.e)
    [] s.class = "IF" -> OutputIf(s)
    [] s.class \in {"GOTO", "GOSUB"} -> Word(s.class) \o Listed(s.e)
    [] s.class \in {"RETURN", "END"} -> Front(Word(s.class))
    [] s.class = "PRINT" -> Word("PRINT") \o Commas([i \in DOMAIN s.items |-> OutputItem(s.items[i])])
    [] s.class = "INPUT" -> Word("INPUT") \o Commas([i \in DOMAIN s.vars |-> <<s.vars[i]>>])
\* Comments are not listed, nor are their labels.
ListLine(l) ==
  LET text == OutputStatement(l.s)
      label == IF l.label = 0 THEN <<>> ELSE Decimal(l.label)
      blanks == [k \in 1 .. (5 - Len(label)) |-> " "]
  IN IF text = <<>> THEN <<>> ELSE blanks \o label \o <<" ">> \o text \o <<NL>>
List(lines) == FlattenSeq([i \in DOMAIN lines |-> ListLine(lines[i])])

-----------------------------------------------------------------------------
(* The translation: a C statement is a record, its expressions are texts.  *)
(* A comment has none.                                                     *)
CText(e) == OutputExpression(e, Low)
RECURSIVE CStatement(_)
CIf(s) == LET inner == CStatement(s.s)
          IN IF inner = None THEN None
             ELSE [class |-> "if", l |-> CText(s.l), op |-> s.op, r |-> CText(s.r), s |-> inner]
\* The strings become the format as they are.
CPrint(s) ==
  FoldLeft(LAMBDA a, i : IF i.class = "string" THEN [a EXCEPT !.format = @ \o i.text]
                         ELSE [a EXCEPT !.format = @ \o <<"%", "d">>, !.args = Append(@, CText(i))],
           [class |-> "printf", format |-> <<>>, args |-> <<>>], s.items)
CStatement(s) ==
  CASE s.class = "none" -> None
    [] s.class = "LET" -> [class |-> "set", v |-> Low[s.v], e |-> CText(s.e)]
    [] s.class = "IF" -> CIf(s)
    [] s.class = "GOTO" -> [class |-> "goto", e |-> CText(s.e)]
    [] s.class = "GOSUB" -> [class |-> "exec", e |-> CText(s.e)]
    [] s.class = "RETURN" -> [class |-> "return"]
    [] s.class = "END" -> [class |-> "exit"]
    [] s.class = "PRINT" -> CPrint(s)
    [] s.class = "INPUT" -> [class |-> "input", vars |-> [i \in DOMAIN s.vars |-> Low[s.vars[i]]]]
(* The labels of the goto block ascend, a new one before its equals.       *)
CLabelled(labels, n) == IF n = 0 THEN labels
                        ELSE LET k == Len(SelectSeq(labels, LAMBDA l : l < n)) IN SubSeq(labels, 1, k) \o <<n>> \o SubSeq(labels, k + 1, Len(labels))
CLine(c, l) ==
  LET label == IF l.label = 0 THEN <<>> ELSE <<[class |-> "label", n |-> l.label]>>
      s == CStatement(l.s)
  IN [c EXCEPT !.labels = CLabelled(@, l.label), !.code = @ \o label \o (IF s = None THEN <<>> ELSE <<s>>)]
\* The variables that are declared, those of an IF that leaves no text too.
RECURSIVE CVariables(_)
CVariables(s) ==
  LET in(e) == ToSet(CText(e)) \cap ToSet(Lower)
  IN CASE s.class = "LET" -> {Low[s.v]} \cup in(s.e)
       [] s.class = "IF" -> in(s.l) \cup in(s.r) \cup CVariables(s.s)
       [] s.class \in {"GOTO", "GOSUB"} -> in(s.e)
       [] s.class = "PRINT" -> UNION {in(s.items[i]) : i \in {i \in DOMAIN s.items : s.items[i].class # "string"}}
       [] s.class = "INPUT" -> {Low[s.vars[i]] : i \in DOMAIN s.vars}
       [] OTHER -> {}
Compile(lines, o) ==
  LET c == FoldLeft(CLine, [labels |-> <<>>, code |-> <<>>], lines)
  IN [op |-> IF o.numbers = "optional" THEN "=" ELSE "<=", labels |-> c.labels, code |-> c.code,
      vars |-> UNION {CVariables(lines[i].s) : i \in DOMAIN lines}]

-----------------------------------------------------------------------------
(* The command line.                                                       *)
OptionMatches(word, option) == Len(option) <= Len(word) /\ \A i \in DOMAIN option : ToLower(option[i]) = word[i]
\* sscanf's result is EOF, which counts as success, for a value that is empty;
\* the int stays what the stack holds.
Sscanf(v, stack) ==
  LET sign == IF v # <<>> /\ v[1] \in {"+", "-"} THEN 1 ELSE 0
      end == SelectInSubSeq(v, sign + 1, Len(v), LAMBDA c : c \notin Digits)
      digits == SubSeq(v, sign + 1, IF end = 0 THEN Len(v) ELSE end - 1)
  IN IF v = <<>> THEN [ok |-> TRUE, n |-> stack]
     ELSE [ok |-> digits # <<>>, n |-> IF v[1] = "-" THEN Int16(-Atoi(digits)) ELSE Atoi(digits)]
BadLine(m) == [m EXCEPT !.err = "bad command line"]
Modes == <<"optional", "implied", "mandatory">>
ModeWords == <<<<"o", "p", "t", "i", "o", "n", "a", "l">>, <<"i", "m", "p", "l", "i", "e", "d">>, <<"m", "a", "n", "d", "a", "t", "o", "r", "y">>>>
Comments == <<"enabled", "disabled">>
CommentWords == <<<<"e", "n", "a", "b", "l", "e", "d">>, <<"d", "i", "s", "a", "b", "l", "e", "d">>>>
SetLineNumbers(m, v) == LET i == SelectInSeq(ModeWords, LAMBDA w : OptionMatches(w, v))
                        IN IF i = 0 THEN BadLine(m) ELSE [m EXCEPT !.o.numbers = Modes[i]]
SetLineLimit(m, v) == LET n == Sscanf(v, m.stack) IN IF n.ok THEN [m EXCEPT !.o.limit = n.n] ELSE BadLine(m)
SetComments(m, v) == LET i == SelectInSeq(CommentWords, LAMBDA w : OptionMatches(w, v))
                     IN IF i = 0 THEN BadLine(m) ELSE [m EXCEPT !.o.comments = Comments[i]]
SetOutput(m, v) ==
  LET w == [i \in DOMAIN v |-> ToLower(v[i])]
  IN CASE w = <<"l", "s", "t">> -> [m EXCEPT !.output = "lst"] [] w = <<"c">> -> [m EXCEPT !.output = "c"] [] OTHER -> BadLine(m)
SetGosubLimit(m, v) == LET n == Sscanf(v, m.stack) IN IF n.ok THEN [m EXCEPT !.o.gosubs = n.n] ELSE BadLine(m)
SetOption(m, arg) ==
  LET letter == IF Len(arg) > 1 /\ arg[1] = "-" THEN ToLower(arg[2]) ELSE ""
      v == SubSeq(arg, 3, Len(arg))
  IN CASE m.err # "" -> m
       [] m.err = "" /\ letter = "n" -> SetLineNumbers(m, v)
       [] m.err = "" /\ letter = "l" -> SetLineLimit(m, v)
       [] m.err = "" /\ letter = "c" -> SetComments(m, v)
       [] m.err = "" /\ letter = "o" -> SetOutput(m, v)
       [] m.err = "" /\ letter = "g" -> SetGosubLimit(m, v)
       [] m.err = "" /\ letter = "h" -> [m EXCEPT !.help = TRUE]
       [] OTHER -> IF m.input = <<>> THEN [m EXCEPT !.input = arg] ELSE BadLine(m)
SetOptions(args, stack) ==
  FoldLeft(SetOption, [o |-> NewOptions, output |-> "run", input |-> <<>>, help |-> FALSE, err |-> "", stack |-> stack], args)
\* The input's name with another extension; none if that is the same name.
OutputName(input, extension) ==
  LET base == SelectLastInSeq(input, LAMBDA c : c \in {"/", "\\", ":"})
      dot == SelectLastInSubSeq(input, base + 2, Len(input), LAMBDA c : c = ".")
      name == (IF dot = 0 THEN input ELSE SubSeq(input, 1, dot - 1)) \o <<".">> \o extension
      folded(n) == [i \in DOMAIN n |-> ToLower(n[i])]
  IN IF folded(name) = folded(input) THEN <<>> ELSE name

Returned(code, did) == [code |-> code, did |-> did, name |-> <<>>]
Output(p, m, writable) ==
  LET name == OutputName(m.input, IF m.output = "c" THEN <<"c">> ELSE <<"l", "s", "t">>)
  IN IF name = <<>> THEN Returned("bad command line", None)
     ELSE IF ~writable THEN Returned("file not found", None)
     ELSE [code |-> "", name |-> name,
           did |-> IF m.output = "c" THEN [class |-> "c", c |-> Compile(p.lines, m.o)] ELSE [class |-> "lst", text |-> List(p.lines)]]

(* main: what it returns, and what it has done: the program run, or a file *)
(* written.  file: the text of the input, None if it cannot be opened;     *)
(* writable: whether the output can be.                                    *)
Main(args, stack, file, writable, in, n) == Let(SetOptions(args, stack), LAMBDA m :
  IF m.help THEN Returned("", [class |-> "usage"])
  ELSE IF m.err # "" THEN Returned(m.err, [class |-> "usage"])
  ELSE IF m.input = <<>> THEN Returned("", [class |-> "usage"])
  ELSE IF file = None THEN Returned("file not found", None)
  ELSE Let(Parse(file.text, m.o), LAMBDA p :
         IF p.err # "" THEN Returned(p.err, None)
         ELSE IF m.output = "run" THEN Returned("", [class |-> "run", x |-> Interpret(p.lines, m.o, in, n)])
         ELSE Output(p, m, writable)))
=============================================================================
