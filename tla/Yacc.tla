-------------------------------- MODULE Yacc --------------------------------
(* The yacc of src/yacc: reading the grammar (y2.c), the LALR(1) states      *)
(* (y1.c), the actions and the gotos (y3.c), their packing into one array    *)
(* (y4.c) and the parser that reads it (yaccpar.tpl).                        *)
(* A source is [decls, start, quoted, rules]: decls a sequence of            *)
(* [kind, names], rules one of [lhs, body], where a body holds names, "ACT"  *)
(* for an action and "%prec" before the name it is about.                    *)
EXTENDS Integers, Sequences, FiniteSets, SequencesExt

NTBASE     == 100      \* 010000
ERRCODE    == 8190
ACCEPTCODE == 8191
End        == 1        \* $end
ErrorToken == 2        \* error
None       == 0        \* no token: the string may be empty

Least(S) == CHOOSE x \in S : \A y \in S : x <= y
Most(S)  == CHOOSE x \in S : \A y \in S : x >= y
Fixed(f) == SubSeq(f, 1, Len(f))
-----------------------------------------------------------------------------
(* setup                                                                     *)
Level(kind) == CASE kind = "left" -> 1 [] kind = "right" -> 2 [] kind = "nonassoc" -> 3
                 [] kind = "token" -> 0
Known(names, x) == \E k \in DOMAIN names : names[k] = x
Place(names, x) == CHOOSE k \in DOMAIN names : names[k] = x
Defin(names, x) == IF Known(names, x) THEN names ELSE Append(names, x)

\* Every %left, %right and %nonassoc is one level above the last.
Declare(s, d) ==
    LET level == s.level + (IF Level(d.kind) > 0 THEN 1 ELSE 0)
        named == FoldLeft(Defin, s.toks, d.names)
    IN  [s EXCEPT !.level = level, !.toks = named,
                  !.toklev = [k \in DOMAIN named |->
                      IF Level(d.kind) > 0 /\ Known(d.names, named[k])
                      THEN [plev |-> level, asc |-> Level(d.kind)]
                      ELSE IF k \in DOMAIN @ THEN @[k] ELSE [plev |-> 0, asc |-> 0]]]

\* chfind: a name that is no token is a nonterminal, new ones are counted.
Chfind(s, x, quoted) ==
    IF Known(s.toks, x) THEN s
    ELSE IF x \in quoted
    THEN [s EXCEPT !.toks = Append(@, x), !.toklev = Append(@, [plev |-> 0, asc |-> 0])]
    ELSE [s EXCEPT !.nts = Defin(@, x)]
Number(s, x) == IF Known(s.toks, x) THEN Place(s.toks, x) ELSE NTBASE + Place(s.nts, x) - 1

\* An action inside a rule is moved into an empty rule of its own, put before
\* it; the level of a rule is that of its last token, or of its %prec.
ReadItem(s, body, k, quoted) ==
    LET x    == body[k]
        rule == s.prods[Len(s.prods)]
        n    == Len(s.prods)
        new  == Chfind(s, x, quoted)
    IN  IF x = "%prec" \/ (k > 1 /\ body[k - 1] = "%prec")
        THEN IF x = "%prec" THEN s
             ELSE [new EXCEPT !.prods[n].lev = new.toklev[Number(new, x)]]
        ELSE IF x = "ACT"
        THEN IF k = Len(body) THEN s
             ELSE LET act == Append(s.nts, "$$" \o ToString(n)) IN
                  [s EXCEPT !.nts = act,
                            !.prods = SubSeq(@, 1, n - 1) \o
                                <<[lhs |-> NTBASE + Len(act) - 1, rhs |-> <<>>,
                                   lev |-> [plev |-> 0, asc |-> 0]],
                                  [rule EXCEPT !.rhs = Append(@, NTBASE + Len(act) - 1)]>>]
        ELSE [new EXCEPT !.prods[n].rhs = Append(@, Number(new, x)),
                         !.prods[n].lev = IF Number(new, x) < NTBASE
                                          THEN new.toklev[Number(new, x)] ELSE @]

ReadRule(s, rule, quoted) ==
    LET named == Chfind(s, rule.lhs, quoted)
        empty == [lhs |-> Number(named, rule.lhs), rhs |-> <<>>, lev |-> [plev |-> 0, asc |-> 0]]
    IN  FoldLeft(LAMBDA t, k : ReadItem(t, rule.body, k, quoted),
                 [named EXCEPT !.prods = Append(@, empty)], [k \in DOMAIN rule.body |-> k])

\* Production 0, $accept : start $end, is prods[1]; the productions of the
\* source follow it.
Setup(src) ==
    LET none  == [plev |-> 0, asc |-> 0]
        first == [level |-> 1, toks |-> <<"$end", "error">>, toklev |-> <<none, none>>,
                  nts |-> <<"$accept">>, prods |-> <<[lhs |-> NTBASE, rhs |-> <<>>, lev |-> none]>>]
        decl  == FoldLeft(Declare, first, src.decls)
        start == IF src.start # "" THEN src.start ELSE src.rules[1].lhs
        named == Chfind(decl, start, src.quoted)
        begun == [named EXCEPT !.prods[1].rhs = <<Number(named, start), End>>]
    IN  FoldLeft(LAMBDA s, r : ReadRule(s, r, src.quoted), begun, src.rules)

ntokens(G) == Len(G.toks)
nnonter(G) == Len(G.nts) - 1
Rules(G)   == DOMAIN G.prods
RulesOf(G, c) == SelectSeq([p \in Rules(G) |-> p], LAMBDA p : G.prods[p].lhs = c)
Nonterminals(G) == NTBASE .. NTBASE + nnonter(G)
-----------------------------------------------------------------------------
(* cpres, cempty, cpfir                                                      *)

RECURSIVE Cempty(_, _)
Cempty(G, have) ==
    LET more == have \cup {G.prods[p].lhs : p \in {p \in Rules(G) \ {1} :
                    \A k \in DOMAIN G.prods[p].rhs : G.prods[p].rhs[k] \in have}}
    IN  IF more = have THEN have ELSE Cempty(G, more)

\* The first tokens of a string of symbols, and None when it may be empty.
RECURSIVE FirstOf(_, _, _)
FirstOf(symbols, first, empty) ==
    IF symbols = <<>> THEN {None}
    ELSE IF Head(symbols) < NTBASE THEN {Head(symbols)}
    ELSE first[Head(symbols)] \cup
         (IF Head(symbols) \in empty THEN FirstOf(Tail(symbols), first, empty) ELSE {})

RECURSIVE Cpfir(_, _, _)
Cpfir(G, empty, first) ==
    LET more == [c \in Nonterminals(G) |-> first[c] \cup
                    UNION {FirstOf(G.prods[p].rhs, first, empty) \ {None} :
                           p \in {p \in Rules(G) : G.prods[p].lhs = c}}]
    IN  IF more = first THEN first ELSE Cpfir(G, empty, more)
-----------------------------------------------------------------------------
(* An item is <<production, dot>>; Dot is the symbol the dot is before, or   *)
(* the production negated, 0 for production 0.                               *)
Dot(G, it) == LET r == G.prods[it[1]].rhs IN
              IF it[2] < Len(r) THEN r[it[2] + 1] ELSE 1 - it[1]
Rest(G, it) == LET r == G.prods[it[1]].rhs IN SubSeq(r, it[2] + 2, Len(r))
Over(it)    == <<it[1], it[2] + 1>>
Before(i, j) == i[1] < j[1] \/ (i[1] = j[1] /\ i[2] < j[2])

\* What follows the nonterminal after the dot of the entry v.
Follow(A, v) ==
    LET f == FirstOf(Rest(A.G, v.item), A.first, A.empty) IN
    (f \ {None}) \cup (IF None \in f THEN v.ws ELSE {})

\* Production p, called for with the lookahead set clset, enters the working set.
Enter(w, p, clset, nolook) ==
    LET at == {v \in DOMAIN w.ws : w.ws[v].item = <<p, 0>>} IN
    IF at = {}
    THEN [ws |-> Append(w.ws, [item |-> <<p, 0>>, flag |-> TRUE,
                               ws |-> IF nolook THEN {} ELSE clset]),
          work |-> w.work \/ ~nolook]
    ELSE LET v == Least(at) IN
         IF nolook \/ clset \subseteq w.ws[v].ws THEN w
         ELSE [ws |-> [w.ws EXCEPT ![v].ws = @ \cup clset, ![v].flag = TRUE], work |-> TRUE]

RECURSIVE Close(_, _, _, _)
Close(A, w, u, nolook) ==
    IF u > Len(w.ws)
    THEN IF w.work THEN Close(A, [w EXCEPT !.work = FALSE], 1, nolook) ELSE w.ws
    ELSE IF ~w.ws[u].flag THEN Close(A, w, u + 1, nolook)
    ELSE LET c == Dot(A.G, w.ws[u].item) IN
         IF c < NTBASE THEN Close(A, [w EXCEPT !.ws[u].flag = FALSE], u + 1, nolook)
         ELSE LET alike == {v \in u .. Len(w.ws) : w.ws[v].flag /\ Dot(A.G, w.ws[v].item) = c}
                  clset == IF nolook THEN {} ELSE UNION {Follow(A, w.ws[v]) : v \in alike}
                  taken == [w EXCEPT !.ws = Fixed([v \in DOMAIN @ |->
                               IF v \in alike THEN [@[v] EXCEPT !.flag = FALSE] ELSE @[v]])]
              IN  Close(A, FoldLeft(LAMBDA x, p : Enter(x, p, clset, nolook),
                                    taken, RulesOf(A.G, c)), u + 1, nolook)
Closure(A, kernel, nolook) ==
    Close(A, [ws |-> [k \in DOMAIN kernel |-> [item |-> kernel[k].item, flag |-> TRUE,
                                               ws |-> kernel[k].look]],
              work |-> FALSE], 1, nolook)
-----------------------------------------------------------------------------
(* state and stagen: states are numbered from 0, as S.st[i + 1].             *)
Sorted(items) == SortSeq(items, LAMBDA i, j : Before(i.item, j.item))
Alike(s, c, items) == s.sym = c /\ Len(s.items) = Len(items)
                      /\ \A k \in DOMAIN items : s.items[k].item = items[k].item
Earlier(S, c, items) == {i \in DOMAIN S.st : i > 1 /\ Alike(S.st[i], c, items)}

\* The state that the goto on c leads to: a new one, or an old one whose
\* lookahead sets take the new tokens in and which then must be done again.
State(S, c, unsorted) ==
    LET items == Sorted(unsorted)
        old   == Earlier(S, c, items)
        i     == Least(old)
        grown == \E k \in DOMAIN items : ~(items[k].look \subseteq S.st[i].items[k].look)
        both  == Fixed([k \in DOMAIN items |-> [items[k] EXCEPT !.look = @ \cup S.st[i].items[k].look]])
    IN  IF old = {}
        THEN [S |-> [S EXCEPT !.st = Append(@, [sym |-> c, items |-> items, ty |-> "MUSTDO", go |-> 0])],
              n |-> Len(S.st)]
        ELSE IF grown
        THEN [S |-> [S EXCEPT !.st[i].items = both, !.st[i].ty = "MUSTDO"], n |-> i - 1]
        ELSE [S |-> S, n |-> i - 1]

Entry(a, k) == IF k \in DOMAIN a THEN a[k] ELSE 0
\* The array is kept from place 1; place p of the source is p + 1 here.
Written(a, entries) ==
    LET top == Most({Len(a)} \cup {e[1] : e \in entries}) IN
    Fixed([k \in 1 .. top |-> IF \E e \in entries : e[1] = k
                              THEN (CHOOSE e \in entries : e[1] = k)[2] ELSE Entry(a, k)])

\* apack: the row of gotos, overlaid where it disagrees with nothing.
Apack(row, a) ==
    LET used  == {k \in DOMAIN row : row[k] # 0}
        lead  == Least(used)
        rr    == Least({r \in 1 .. Len(a) + 1 :
                         \A k \in used : Entry(a, r + k - lead) \in {0, row[k]}})
    IN  IF used = {} THEN [off |-> 0, a |-> a]
        ELSE [off |-> rr - lead, a |-> Written(a, {<<rr + k - lead, row[k]>> : k \in used})]
Goto(S, i, c) == Entry(S.a, S.st[i].go + c)

\* One working-set entry of the goto loop of stagen; a reduction that the
\* closure added means that the lookaheads of state i will matter.
GotoOn(A, S, i, w, p) ==
    LET c == Dot(A.G, w[p].item)
        moved == SelectSeq(w, LAMBDA q : Dot(A.G, q.item) = c)
        to == State(S, c, [q \in DOMAIN moved |-> [item |-> Over(moved[q].item), look |-> moved[q].ws]])
    IN  IF c <= 1
        THEN IF Len(S.st[i].items) < p THEN [S EXCEPT !.st[i].ty = "MUSTLOOKAHEAD"] ELSE S
        ELSE IF \E q \in 1 .. p - 1 : Dot(A.G, w[q].item) = c THEN S
        ELSE IF c < NTBASE THEN to.S
        ELSE [to.S EXCEPT !.row[c - NTBASE] = to.n]

\* State i is done: the goto loop over its working set, whose row is packed.
GotosOf(A, S, i, w) ==
    FoldLeft(LAMBDA s, p : GotoOn(A, s, i, w, p),
             [S EXCEPT !.st[i].ty = "DONE", !.row = [k \in 1 .. nnonter(A.G) |-> 0]], [p \in DOMAIN w |-> p])
Put(S, i, pack) == [S EXCEPT !.a = pack.a, !.st[i].go = pack.off]
Packed(S, i) == Put(S, i, Apack(S.row, S.a))
RECURSIVE Stages(_, _)
Stages(A, S) ==
    LET todo == {i \in DOMAIN S.st : S.st[i].ty = "MUSTDO"}
        i    == Least(todo)
    IN  IF todo = {} THEN S ELSE Stages(A, Packed(GotosOf(A, S, i, Closure(A, S.st[i].items, FALSE)), i))

FirstState == [st |-> <<[sym |-> 0, items |-> <<[item |-> <<1, 0>>, look |-> {}]>>,
                         ty |-> "MUSTDO", go |-> 0]>>,
               a |-> <<>>, row |-> <<>>]
Stagen(A) == Stages(A, FirstState)
-----------------------------------------------------------------------------
(* output: the actions of a state, over the tokens.                          *)
\* A shift and the reduction by rule r on token t, decided by precedence.
Precftn(G, shift, r, t) ==
    LET lp == G.prods[r + 1].lev  lt == G.toklev[t]
        action == IF lt.plev = lp.plev THEN lt.asc ELSE IF lt.plev > lp.plev THEN 2 ELSE 1
    IN  IF lt.plev = 0 \/ lp.plev = 0 THEN shift
        ELSE CASE action = 3 -> ERRCODE [] action = 1 -> -r [] OTHER -> shift

Reduced(G, now, r, t) ==
    IF now = 0 THEN -r
    ELSE IF now < 0 THEN IF -now > r THEN -r ELSE now
    ELSE Precftn(G, now, r, t)

Actions(A, S, i) ==
    LET w == Closure(A, S.st[i].items, S.st[i].ty # "MUSTLOOKAHEAD")
        shifts(c) == SelectSeq(w, LAMBDA u : Dot(A.G, u.item) = c)
        to(c) == Least(Earlier(S, c, Sorted([q \in DOMAIN shifts(c) |->
                     [item |-> Over(shifts(c)[q].item), look |-> {}]]))) - 1
        begun == [c \in 1 .. ntokens(A.G) |->
                     IF c = 1 THEN IF i = 2 THEN ACCEPTCODE ELSE 0
                     ELSE IF shifts(c) = <<>> THEN 0 ELSE to(c)]
    IN  FoldLeft(LAMBDA now, u :
            LET c == Dot(A.G, u.item) IN
            IF c > 0 THEN now
            ELSE [t \in DOMAIN now |-> IF t \in u.ws THEN Reduced(A.G, now[t], -c, t) ELSE now[t]],
            Fixed(begun), w)

\* wract: the most frequent reduction is the default; when $end is shifted
\* the default is the error.
Wract(acts) ==
    LET often(r) == Cardinality({t \in DOMAIN acts : acts[t] = -r})
        reds  == {-acts[t] : t \in {t \in DOMAIN acts : acts[t] < 0}}
        best  == {r \in reds : \A q \in reds : often(q) <= often(r)}
        met(r) == Least({t \in DOMAIN acts : acts[t] = -r})
        red   == IF reds = {} \/ acts[End] > 0 THEN 0
                 ELSE CHOOSE r \in best : \A q \in best : met(r) <= met(q)
        left  == {t \in DOMAIN acts : acts[t] # 0 /\ (red = 0 \/ acts[t] # -red)}
        plain == {t \in left : acts[t] \in 1 .. ERRCODE - 1}
    IN  [red     |-> red,
         shifts  |-> {<<t - 1, acts[t]>> : t \in plain},
         except  |-> {<<t - 1, IF acts[t] < 0 THEN -acts[t]
                               ELSE IF acts[t] = ACCEPTCODE THEN -1 ELSE 0>> : t \in left \ plain}]
-----------------------------------------------------------------------------
(* go2out: the gotos of a nonterminal, the most frequent one by default.     *)
RECURSIVE Leading(_, _)
Leading(G, have) ==
    LET more == have \cup {G.prods[p].lhs : p \in {p \in Rules(G) :
                    G.prods[p].rhs # <<>> /\ G.prods[p].rhs[1] \in have}}
    IN  IF more = have THEN have ELSE Leading(G, more)
Go2gen(A, S, c) ==
    LET from == Leading(A.G, {NTBASE + c}) IN
    [i \in DOMAIN S.st |-> IF \E k \in DOMAIN S.st[i].items : Dot(A.G, S.st[i].items[k].item) \in from
                           THEN Goto(S, i, c) ELSE 0]
Go2out(A, S, c) ==
    LET go    == Go2gen(A, S, c)
        often(n) == Cardinality({i \in DOMAIN go : go[i] = n})
        met(n)   == Least({i \in DOMAIN go : go[i] = n})
        some  == {go[i] : i \in DOMAIN go} \ {0}
        best  == IF some = {} THEN -1
                 ELSE CHOOSE n \in some : \A m \in some :
                          often(m) < often(n) \/ (often(m) = often(n) /\ met(n) <= met(m))
    IN  [best |-> best,
         except |-> {<<i - 1, go[i]>> : i \in {i \in DOMAIN go : go[i] \notin {0, best}}}]
-----------------------------------------------------------------------------
(* callopt: rows and gotos, the greediest first, laid into one array.        *)
Width(entries) == 2 * Cardinality(entries) +
                  2 * (IF entries = {} THEN 0 ELSE Most({e[1] : e \in entries}))
\* stin: a place that no row has, unless the rows are the same.
Stin(O, rows, i) ==
    LET row == rows[i]
        fit(n) == \A e \in row : n + e[1] >= 0 /\ Entry(O.a, n + e[1] + 1) \in {0, e[2]}
        new(n) == \E e \in row : Entry(O.a, n + e[1] + 1) = 0
        same(n) == {j \in DOMAIN rows : O.pact[j] = n}
        ok(n) == fit(n) /\ (same(n) # {} => ~new(n) /\
                             Cardinality(rows[Least(same(n))]) = Cardinality(row))
        n == Least({n \in -O.maxoff .. Len(O.a) + 1 : ok(n)})
    IN  [O EXCEPT !.pact[i] = n, !.a = Written(@, {<<n + e[1] + 1, e[2]>> : e \in row})]
\* gin: the default in a free place, the others at their states behind it.
Gin(O, gotos, c) ==
    LET g == gotos[c]
        ok(p) == Entry(O.a, p) = 0 /\ \A e \in g.except : Entry(O.a, p + e[1] + 1) = 0
        p == Least({p \in 1 .. Len(O.a) + 1 : ok(p)})
    IN  [O EXCEPT !.pgo[c] = p - 1,
                  !.a = Written(@, {<<p, g.best>>} \cup {<<p + e[1] + 1, e[2]>> : e \in g.except})]

RECURSIVE Lay(_, _, _, _)
Lay(O, rows, gotos, left) ==
    LET greed(x) == IF x[1] = "row" THEN Width(rows[x[2]]) ELSE 1 + Width(gotos[x[2]].except)
        after(x, y) == \/ greed(x) > greed(y)
                       \/ greed(x) = greed(y) /\ x[1] = "row" /\ y[1] = "go"
                       \/ greed(x) = greed(y) /\ x[1] = y[1] /\ x[2] > y[2]
        next == CHOOSE x \in left : \A y \in left : x # y => after(x, y)
    IN  IF left = {} \/ greed(next) = 0 THEN O
        ELSE Lay(IF next[1] = "row" THEN Stin(O, rows, next[2]) ELSE Gin(O, gotos, next[2]),
                 rows, gotos, left \ {next})

Maxoff(rows, gotos) == Most({0}
    \cup {Least({e[1] : e \in rows[i]}) : i \in {i \in DOMAIN rows : rows[i] # {}}}
    \cup {e[1] : e \in UNION {gotos[c].except : c \in DOMAIN gotos}})
Callopt(rows, gotos) ==
    Lay([a |-> <<>>, pact |-> [i \in DOMAIN rows |-> -1000], pgo |-> [c \in DOMAIN gotos |-> 0],
         maxoff |-> Maxoff(rows, gotos)], rows, gotos,
        ({"row"} \X DOMAIN rows) \cup ({"go"} \X DOMAIN gotos))
-----------------------------------------------------------------------------
(* main and others: the tables of a source.                                  *)
Analysed(src) ==
    LET G == Setup(src)
        empty == Cempty(G, {})
    IN  [G |-> G, empty |-> empty,
         first |-> Cpfir(G, empty, [c \in Nonterminals(G) |-> {}])]
Laid(A, S, wracts, O) ==
    [act  |-> O.a, pact |-> O.pact, pgo |-> O.pgo,
     chk  |-> Fixed([i \in DOMAIN S.st |-> IF i = 1 THEN -1000
                ELSE IF S.st[i].sym < NTBASE THEN S.st[i].sym - 1 ELSE NTBASE - S.st[i].sym]),
     def  |-> Fixed([i \in DOMAIN S.st |-> IF wracts[i].except # {} THEN -2 ELSE wracts[i].red]),
     exca |-> Fixed([i \in DOMAIN S.st |-> wracts[i].except]),
     exred |-> Fixed([i \in DOMAIN S.st |-> wracts[i].red]),
     r1   |-> [p \in Rules(A.G) |-> A.G.prods[p].lhs - NTBASE],
     r2   |-> [p \in Rules(A.G) |-> Len(A.G.prods[p].rhs)]]
Rows(A, S, wracts) ==
    Laid(A, S, wracts, Callopt([i \in DOMAIN wracts |-> wracts[i].shifts], Fixed([c \in 1 .. nnonter(A.G) |-> Go2out(A, S, c)])))
Tables(A, S) == Rows(A, S, Fixed([i \in DOMAIN S.st |-> Wract(Actions(A, S, i))]))
-----------------------------------------------------------------------------
(* yyparse: the stack holds states, the values are the trees read.           *)
Act(T, y)  == IF y \in DOMAIN T.act THEN T.act[y] ELSE 0
Chk(T, n)  == IF n + 1 \in DOMAIN T.chk THEN T.chk[n + 1] ELSE -1000
Leaf(c)    == [rule |-> -c, kids |-> <<>>]
Lexed(y)   == IF y.char >= 0 THEN y
              ELSE IF y.input = <<>> THEN [y EXCEPT !.char = 0]
              ELSE [y EXCEPT !.char = Head(y.input), !.input = Tail(@)]
Push(y, n, v) == [y EXCEPT !.st = Append(@, n), !.val = Append(@, v)]

Shift(T, y) ==
    LET at == T.pact[Last(y.st) + 1] + y.char + 1 IN
    IF at \in DOMAIN T.act /\ Chk(T, Act(T, at)) = y.char THEN Act(T, at) ELSE -1
Default(T, y) ==
    LET s == Last(y.st) + 1 IN
    IF T.def[s] # -2 THEN T.def[s]
    ELSE IF \E e \in T.exca[s] : e[1] = y.char
    THEN (CHOOSE e \in T.exca[s] : e[1] = y.char)[2] ELSE T.exred[s]

Reduce(T, y, r) ==
    LET n    == T.r2[r + 1]
        down == [y EXCEPT !.st = SubSeq(@, 1, Len(@) - n), !.val = SubSeq(@, 1, Len(@) - n)]
        kids == SubSeq(y.val, Len(y.val) - n + 1, Len(y.val))
        c    == T.r1[r + 1]
        at   == T.pgo[c] + Last(down.st) + 2
        to   == IF at \in DOMAIN T.act /\ Chk(T, Act(T, at)) = -c THEN Act(T, at)
                ELSE Act(T, T.pgo[c] + 1)
    IN  IF n >= Len(y.st) THEN [y EXCEPT !.ret = 2]  \* below the stack
        ELSE Push(down, to, [rule |-> r, kids |-> kids])

\* The error token is shifted by the topmost state that can.
ErrorShift(T, s) == LET at == T.pact[s + 1] + (ErrorToken - 1) + 1 IN
    IF at \in DOMAIN T.act /\ Chk(T, Act(T, at)) = ErrorToken - 1 THEN Act(T, at) ELSE -1
\* Mutant: no token is thrown away, a second error gives up.
RecoverOnce(T, y) ==
    LET can == {k \in DOMAIN y.st : ErrorShift(T, y.st[k]) # -1}  k == Most(can) IN
    IF y.flag # 0 \/ can = {} THEN [y EXCEPT !.ret = 1]
    ELSE Push([y EXCEPT !.flag = 3, !.errs = @ + 1, !.st = SubSeq(@, 1, k), !.val = SubSeq(@, 1, k)],
              ErrorShift(T, y.st[k]), Leaf(ErrorToken))
Recover(T, y) ==
    LET can == {k \in DOMAIN y.st : ErrorShift(T, y.st[k]) # -1}
        k   == Most(can)
        z   == [y EXCEPT !.flag = 3, !.errs = @ + (IF y.flag = 0 THEN 1 ELSE 0)]
    IN  IF y.flag = 3
        THEN IF y.char = 0 THEN [y EXCEPT !.ret = 1] ELSE [y EXCEPT !.char = -1]
        ELSE IF can = {} THEN [z EXCEPT !.ret = 1]
        ELSE Push([z EXCEPT !.st = SubSeq(@, 1, k), !.val = SubSeq(@, 1, k)],
                  ErrorShift(T, y.st[k]), Leaf(ErrorToken))

Step(T, y0) ==
    LET simple == T.pact[Last(y0.st) + 1] <= -1000
        y1 == IF simple THEN y0 ELSE Lexed(y0)
        to == IF simple THEN -1 ELSE Shift(T, y1)
        y  == IF to = -1 /\ T.def[Last(y1.st) + 1] = -2 THEN Lexed(y1) ELSE y1
        n  == Default(T, y)
    IN  IF to # -1
        THEN [Push(y, to, Leaf(y.char + 1)) EXCEPT !.char = -1, !.flag = IF @ > 0 THEN @ - 1 ELSE 0]
        ELSE IF n < 0 THEN [y EXCEPT !.ret = 0]
        ELSE IF n = 0 THEN Recover(T, y)
        ELSE Reduce(T, y, n)

\* The bound on the steps is for a table that makes the parser run for ever.
RECURSIVE Yyparse(_, _, _)
Yyparse(T, y, steps) == IF y.ret # -1 \/ steps = 0 THEN y
                        ELSE Yyparse(T, Step(T, y), steps - 1)
Parse(T, input, steps) ==
    Yyparse(T, [st |-> <<0>>, val |-> <<Leaf(0)>>, char |-> -1, errs |-> 0, flag |-> 0,
                input |-> input, ret |-> -1], steps)
=============================================================================
