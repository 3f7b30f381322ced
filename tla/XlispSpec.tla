----------------------------- MODULE XlispSpec -----------------------------
(***************************************************************************)
(* What xlisp promises, whatever the memory it has, on short programs.     *)
(***************************************************************************)
EXTENDS Jobs, Integers, Sequences, FiniteSets, FiniteSetsExt, SequencesExt

XInts == [w \in {"0", "1", "2", "3", "9"} |-> CASE w = "0" -> 0 [] w = "1" -> 1 [] w = "2" -> 2 [] w = "3" -> 3 [] w = "9" -> 9]
XStrs == [w \in {"#ab", "#(a)", "#a"} |-> CASE w = "#ab" -> <<"a", "b">> [] w = "#(a)" -> <<"(", "a", " ", "b", ")">> [] w = "#a" -> <<"a">>]
XSubrs == {"eval", "list", "cond", "atom", "null", "listp", "eq", "equal", "car", "cdr", "nth", "length", "append", "reverse",
  "cons", "set", "setq", "quote", "if", "while", "repeat", "foreach", "defun", "read", "gc", "princ", "strcat", "substr",
  "!", "&&", "||", "+", "-", "*", "/", "%", "min", "max", "<", "<=", "==", "!=", ">=", ">"}
Xl == INSTANCE Xlisp WITH Ints <- XInts, Strs <- XStrs, Subrs <- XSubrs

\* Programs, from the names of functions and from expressions.
Call(f, args) == <<"(", f>> \o FlattenSeq(args) \o <<")">>
Quoted(args) == <<"'", "(">> \o FlattenSeq(args) \o <<")">>
Lines(exprs) == FlattenSeq([k \in DOMAIN exprs |-> exprs[k] \o <<"\n">>])
Atoms == {<<"1">>, <<"nil">>, <<"#ab">>, <<"#(a)">>, <<"'", "t">>} \cup {Quoted(<<<<"1">>, <<"2">>>>), <<"'", "(", "1", ".", "t", ")">>}
Two == {"cons", "append", "list", "+", "-", "/", "%", "min", "<", "==", "eq", "equal", "nth", "&&", "||", "substr", "strcat", "set", "repeat"}
Monadic == {"car", "cdr", "atom", "null", "listp", "length", "reverse", "eval", "!", "princ", "read", "quote", "cond", "gc"}
Dotted == <<"'", "(", "1", ".", "t", ")">>
Flat == {Call(f, <<a, b>>) : f \in Two, a \in Atoms, b \in Atoms}
  \cup ({Call(f, <<a>>) : f \in Monadic, a \in Atoms} \ {Call("length", <<Dotted>>)})
Some == {Call(f, <<a, b>>) : f \in {"cons", "append", "list"}, a \in {Quoted(<<<<"1">>>>), <<"2">>}, b \in {Quoted(<<<<"2">>, <<"1">>>>)}}
Nested == {Call(f, <<a, b>>) : f \in {"cons", "append", "list", "equal"}, a \in Some, b \in Some}
  \cup {Call(f, <<a>>) : f \in {"car", "reverse", "princ", "cond", "eval"}, a \in Some}
  \cup {Call("if", <<c, a, b>>) : c \in {<<"0">>, <<"1">>, <<"nil">>}, a \in Some, b \in Some}
  \cup {Call("foreach", <<<<"x">>, a, Call("princ", <<<<"x">>>>), b>>) : a, b \in Some}
Counting == {Lines(<<Call("setq", <<<<"x">>, <<"3">>>>),
    Call("while", <<<<"x">>, Call("setq", <<<<"x">>, Call("-", <<<<"x">>, <<"1">>>>)>>), e>>), <<"x">>, <<"y">>>>) : e \in Some}

\* Every list of nodes that three nodes make.
MarkJobs == [prog : {"xlmark"},
  h : {SubSeq(f, 1, 3) : f \in [1 .. 3 -> [t : {"LIST"}, l : 0 .. 3, r : 0 .. 3] \cup [t : {"SYM"}, l : {2}, r : 0 .. 3] \cup [t : {"OBJ"}, l : {1}, r : {0, 2}]]}]
RECURSIVE Reached(_, _)
Reached(h, S) ==
  LET next == S \cup UNION {({h[k].r} \cup (IF h[k].t = "SYM" THEN {} ELSE {h[k].l})) \ {0} : k \in S}
  IN IF next = S THEN S ELSE Reached(h, next)

\* A function whose variables are x and y, called while they are 1 and 2.
Formals == {<<"(", "x", "y", ")">>, <<"(", "y", "/", "x", ")">>, <<"(", "/", "x", "y", ")">>}
Doing == {Call("setq", <<<<"x">>, <<"y">>>>), Call("setq", <<<<"y">>, <<"3">>>>), Call("car", <<<<"3">>>>), Call("g", <<<<"x">>>>),
          Call("g", <<Call("setq", <<<<"x">>, <<"3">>>>)>>), Call("foreach", <<<<"y">>, Quoted(<<<<"1">>, <<"3">>>>), <<"x">>>>), <<"zz">>}
Binding(formals, args, body) == Lines(<<
  Call("setq", <<<<"x">>, <<"1">>>>), Call("setq", <<<<"y">>, <<"2">>>>),
  Call("defun", <<<<"g">>, <<"(", "y", "/", "x", ")">>, Call("setq", <<<<"x">>, Call("car", <<<<"y">>>>)>>)>>),
  Call("defun", <<<<"f">>, formals>> \o body), Call("f", args), <<"x">>, <<"y">>>>)
Given(formals) == CASE formals[2] = "x" -> <<<<"9">>, <<"9">>>> [] formals[2] = "y" -> <<<<"9">>>> [] OTHER -> <<>>
Ample == 200
BindJobs == [prog : {"xlbind"}, segs : {{1}}, in : {Binding(formals, Given(formals), <<a, b>>) : formals \in Formals, a, b \in Doing}]
GcJobs == [prog : {"xlisp"}, segs : {{1, 3, Ample}}, in : {Lines(<<e>>) : e \in Flat \cup Nested} \cup Counting
  \cup {Binding(formals, Given(formals), <<a, b>>) : formals \in Formals, a, b \in Doing}]

\* What is quoted, and written.
Leaves == {<<"1">>, <<"a">>, <<"nil">>}
Pairs(S) == {<<"(">> \o a \o b \o <<")">> : a, b \in S} \cup {<<"(">> \o a \o <<".">> \o b \o <<")">> : a, b \in S}
ReadJobs == [prog : {"xlread"}, segs : {{1}}, in : Pairs(Leaves \cup Pairs(Leaves))]
\* Variables of a class and of one below it, each of every object or of the class.
Where == {"A ivars", "B ivars", "A cvars", "B cvars"}
At(w, at) == <<"'", "(">> \o SelectSeq(<<"a", "b", "c">>, LAMBDA v : at[v] = w) \o <<")">>
Sets(v, w) == Call("setq", <<<<v>>, <<w>>>>)
Program(at) == Lines(<<
  Call("setq", <<<<"A">>, <<"(", "Class", "'", "new", ")">>>>),
  Call("A", <<<<"'", "ivars">>, At("A ivars", at)>>), Call("A", <<<<"'", "cvars">>, At("A cvars", at)>>),
  Call("setq", <<<<"B">>, <<"(", "Class", "'", "new", "A", ")">>>>),
  Call("B", <<<<"'", "ivars">>, At("B ivars", at)>>), Call("B", <<<<"'", "cvars">>, At("B cvars", at)>>),
  Call("B", <<<<"'", "answer", "'", "put">>, Quoted(<<<<"x", "y", "z">>>>), Quoted(<<Sets("a", "x"), Sets("b", "y"), Sets("c", "z")>>)>>),
  Call("B", <<<<"'", "answer", "'", "get", "'", "(", ")">>, Quoted(<<Call("list", <<<<"a", "b", "c">>>>)>>)>>),
  Call("setq", <<<<"o">>, <<"(", "B", "'", "new", ")">>>>), Call("setq", <<<<"p">>, <<"(", "B", "'", "new", ")">>>>),
  <<"(", "o", "'", "put", "1", "2", "3", ")">>, <<"(", "p", "'", "put", "3", "1", "2", ")">>, <<"(", "o", "'", "get", ")">>>>)
ObjectJobs == [prog : {"xlobj"}, segs : {{Ample}}, at : [{"a", "b", "c"} -> Where]]

RECURSIVE Shape(_, _)
Shape(s, n) == IF n = 0 THEN <<"nil", 0, 0>>
  ELSE IF s.h[n].t = "LIST" THEN <<"pair", Shape(s, s.h[n].l), Shape(s, s.h[n].r)>> ELSE <<s.h[n].t, s.h[n].l, 0>>
Read(in) == Xl!Xlread(Xl!Start(in, 1, 1000))
ShapeRead(s) == IF s.err = "" THEN Shape(s, s.v) ELSE <<s.err, 0, 0>>

XlispJobs == GcJobs \cup MarkJobs \cup BindJobs \cup ReadJobs \cup ObjectJobs
Shown(s) == [out |-> s.out, err |-> s.err]
Run(in, anodes) == Shown(Xl!Main(in, anodes, 1000))
InputOf == CASE job.prog = "xlobj" -> Program(job.at) [] job.prog = "xlread" -> <<"'">> \o job.in \o <<"\n">> [] OTHER -> job.in
XlispRuns ==
  \/ job.prog \in {"xlisp", "xlbind", "xlobj", "xlread"} /\ Answer([n \in job.segs |-> Run(InputOf, n)])
  \/ job.prog = "xlmark" /\ Answer(Xl!Mark(job.h, <<1, 2>>))

(* A program writes the same whether a collection comes with every node or *)
(* never: what is in use is kept.                                          *)
GcTransparent == Ended("xlisp") => \A n \in job.segs : out[n] = out[Ample]

(* mark turns pointers round on its way: each is put back, and the nodes   *)
(* marked are those that can be reached.                                   *)
MarkRestores == Ended("xlmark") => out.h = job.h /\ out.mark = Reached(job.h, {1, 2})

(* A call that ends, well or in an error, leaves the variables that it     *)
(* bound as they were.                                                     *)
LastShown(o) == SubSeq(o, Len(o) - 3, Len(o))
BindingsRestored == Ended("xlbind") => LastShown(out[1].out) = <<"1", "\n", "2", "\n">>

(* What is printed is read back as a value of the same shape.              *)
ReadBack == Ended("xlread") => ShapeRead(Read(job.in)) = ShapeRead(Read(out[1].out))

(* The variables of an object, of its class and of the class above have a  *)
(* place each, and those of the class are shared by its objects.           *)
Kept(v, mine, theirs) == IF job.at[v] \in {"A ivars", "B ivars"} THEN mine ELSE theirs
IvarsApart ==
  Ended("xlobj") =>
    SubSeq(out[Ample].out, Len(out[Ample].out) - 7, Len(out[Ample].out)) =
      <<"(", Kept("a", "1", "3"), " ", Kept("b", "2", "1"), " ", Kept("c", "3", "2"), ")", "\n">>

(* What a mark, a call, a printed value and an object leave, at once.      *)
StateRestored == MarkRestores /\ BindingsRestored /\ ReadBack /\ IvarsApart
=============================================================================
