------------------------------ MODULE YaccSpec ------------------------------
(* What yacc promises of the parser it makes: it accepts the sentences of    *)
(* the grammar, groups them as the levels of the tokens say, and gets over   *)
(* errors where the grammar says so.                                         *)
EXTENDS Jobs, Integers, Sequences, FiniteSets

Y == INSTANCE Yacc

Source(decls, quoted, rules) == [decls |-> decls, start |-> "", quoted |-> quoted, rules |-> rules]
Rule(lhs, body) == [lhs |-> lhs, body |-> body]
Decl(kind, names) == [kind |-> kind, names |-> names]
Grammar(src, n) == [prog |-> "yacc", src |-> src, n |-> n]

Operators == Source(<<Decl("left", <<"-">>), Decl("left", <<"*">>), Decl("right", <<"^">>)>>, {"n"},
    <<Rule("e", <<"e", "-", "e">>), Rule("e", <<"e", "*", "e">>), Rule("e", <<"e", "^", "e">>),
      Rule("e", <<"n">>)>>)
Compared == Source(<<Decl("nonassoc", <<"<">>), Decl("left", <<"-">>)>>, {"n"},
    <<Rule("e", <<"e", "<", "e">>), Rule("e", <<"e", "-", "e">>), Rule("e", <<"n">>)>>)
Unary == Source(<<Decl("left", <<"-">>), Decl("left", <<"U">>)>>, {"n"},
    <<Rule("e", <<"e", "-", "e">>), Rule("e", <<"-", "e", "%prec", "U">>), Rule("e", <<"n">>)>>)
ListLeft  == Source(<<>>, {"x", ","},
    <<Rule("l", <<>>), Rule("l", <<"l", "i", ",">>), Rule("i", <<"x">>), Rule("i", <<"x", "i">>)>>)
Options == Source(<<Decl("token", <<"x", "y", "z">>)>>, {},
    <<Rule("s", <<"a", "b", "z">>), Rule("a", <<>>), Rule("a", <<"x">>), Rule("b", <<>>), Rule("b", <<"y", "b">>)>>)
Contexts == Source(<<>>, {"x", "y", "c"},
    <<Rule("s", <<"x", "a", "y">>), Rule("s", <<"x", "b", "x">>), Rule("s", <<"y", "b">>),
      Rule("a", <<"c">>), Rule("b", <<"c">>)>>)
Enclosing == Source(<<>>, {"x", "y", "z"},
    <<Rule("a", <<"x", "a", "y">>), Rule("a", <<"z", "ACT", "b">>), Rule("b", <<>>), Rule("b", <<"x", "b">>)>>)
Terms == Source(<<>>, {"n", "-", "*", "("},
    <<Rule("s", <<"e">>), Rule("s", <<"(", "e", "(">>), Rule("e", <<"t">>), Rule("e", <<"e", "-", "t">>),
      Rule("t", <<"f">>), Rule("t", <<"f", "*", "t">>), Rule("f", <<"n">>), Rule("f", <<"g", "n">>), Rule("g", <<"-">>)>>)
Recovering == Source(<<>>, {"x", ";", "y"},
    <<Rule("s", <<>>), Rule("s", <<"s", "t">>), Rule("t", <<"x", ";">>), Rule("t", <<"error", ";">>)>>)
\* A state that leads to itself, with an empty rule behind that goto.
Enclosed == Source(<<>>, {"x", "d", "e"},
    <<Rule("a", <<"x", "a", "c">>), Rule("a", <<"x", "a", "b", "e">>), Rule("a", <<"x", "a", "b", "x">>),
      Rule("a", <<>>), Rule("c", <<"d">>), Rule("b", <<"d">>)>>)

YaccJobs == {Grammar(Operators, 5), Grammar(Compared, 5), Grammar(Unary, 4), Grammar(ListLeft, 6),
             Grammar(Options, 5), Grammar(Contexts, 4), Grammar(Enclosing, 5), Grammar(Terms, 5), Grammar(Recovering, 5)}
EnclosedJobs == {Grammar(Enclosed, 4)}

Inputs(G, n) == UNION {[1 .. k -> 2 .. Len(G.toks) - 1] : k \in 0 .. n}

Made(A, S, n) == LET T == Y!Tables(A, S) IN
    [G |-> A.G, parsed |-> [w \in Inputs(A.G, n) |->
        LET y == Y!Parse(T, w, 40 + 40 * n) IN
        [ret |-> y.ret, errs |-> y.errs, tree |-> y.val[Len(y.val)]]]]
YaccRuns ==
    /\ job.prog = "yacc" /\ ~done
    /\ \E A \in {Y!Analysed(job.src)} : \E S \in {Y!Stagen(A)} :
           Answer(Made(A, S, job.n))
-----------------------------------------------------------------------------
\* The sentences of at most n tokens that each symbol derives.
Joined(V, W, n) == {v \o w : <<v, w>> \in {x \in V \X W : Len(x[1]) + Len(x[2]) <= n}}
RECURSIVE Strings(_, _, _), Sentences(_, _, _)
Strings(symbols, L, n) ==
    IF symbols = <<>> THEN {<<>>}
    ELSE Joined(IF symbols[1] < Y!NTBASE THEN {<<symbols[1] - 1>>} ELSE L[symbols[1]],
                Strings(Tail(symbols), L, n), n)
Sentences(G, L, n) ==
    LET M == [c \in Y!Nonterminals(G) |->
                 L[c] \cup UNION {Strings(G.prods[p].rhs, L, n) :
                                  p \in {p \in Y!Rules(G) \ {1} : G.prods[p].lhs = c}}]
    IN  IF M = L THEN L ELSE Sentences(G, M, n)
Language(G, n) == Sentences(G, [c \in Y!Nonterminals(G) |-> {}], n)[G.prods[1].rhs[1]]
NonAssoc(G) == \E t \in DOMAIN G.toklev : G.toklev[t].asc = 3
Mistakes(G) == \E p \in DOMAIN G.prods : \E k \in DOMAIN G.prods[p].rhs : G.prods[p].rhs[k] = 2

(* The parser reads a sentence of the grammar without a complaint, and       *)
(* complains of everything else (y1.c, y3.c, y4.c and yaccpar.tpl together). *)
ParsesTheLanguage ==
    Ended("yacc") /\ ~NonAssoc(out.G) =>
        \E L \in {Language(out.G, job.n)} : \A w \in DOMAIN out.parsed :
            (w \in L) = (out.parsed[w].ret = 0 /\ out.parsed[w].errs = 0)

\* The trees that the levels of the rules allow: an operand binds closer than
\* the operator over it, or on one side as close.
LevelOf(G, tree) == LET p == tree.rule + 1 IN
    IF tree.rule > 0 /\ Len(G.prods[p].rhs) > 1 THEN G.prods[p].lev.plev ELSE 99
RECURSIVE Grouped(_, _)
Grouped(G, tree) ==
    LET lev == G.prods[tree.rule + 1].lev
        n   == Len(tree.kids)
        fits(k, asc) == \/ LevelOf(G, tree.kids[k]) > lev.plev
                        \/ LevelOf(G, tree.kids[k]) = lev.plev /\ lev.asc = asc
    IN  \/ tree.rule <= 0
        \/ /\ \A k \in 1 .. n : Grouped(G, tree.kids[k])
           /\ lev.plev > 0 /\ n = 3 => fits(1, 1) /\ fits(3, 2)
           /\ lev.plev > 0 /\ n = 2 => LevelOf(G, tree.kids[2]) >= lev.plev

(* What is accepted is grouped as declared; %nonassoc operators do not meet. *)
GroupsAsDeclared ==
    Ended("yacc") => \A w \in DOMAIN out.parsed :
        out.parsed[w].ret = 0 => Grouped(out.G, out.parsed[w].tree)

(* An error is got over at the next token that may follow it: with a         *)
(* statement `error ;' every text that ends in `;' is read to its end.       *)
ErrorsAreSkipped ==
    Ended("yacc") /\ Mistakes(out.G) => \A w \in DOMAIN out.parsed :
        w # <<>> /\ w[Len(w)] = Y!Place(out.G.toks, ";") - 1 => out.parsed[w].ret = 0

(* All of these at once.                                                     *)
ParserRight == ParsesTheLanguage /\ GroupsAsDeclared /\ ErrorsAreSkipped
=============================================================================
