----------------------------- MODULE PatternSpec -----------------------------
(***************************************************************************)
(* What the expressions of grep and sed mean, apart from the ways the      *)
(* programs search: grep prints lines that contain a match, s replaces it. *)
(***************************************************************************)
EXTENDS Jobs, Integers, Sequences, FiniteSets, FiniteSetsExt, SequencesExt, TLC

G == INSTANCE Grep WITH Letters <- {"a", "b", "A"}, Chars <- {"a", "b", "A", " "}, Upper <- [x \in {"a"} |-> "A"]

GTokens(ts) == [k \in DOMAIN ts |->
  CASE ts[k] \in {"a", "b", "A", " "} -> G!Token("char", ts[k])
    [] ts[k] = "[ab]" -> G!Token("set", [neg |-> FALSE, set |-> {"a", "b"}])
    [] ts[k] = "[^a]" -> G!Token("set", [neg |-> TRUE, set |-> {"a"}])
    [] ts[k] = "1" -> G!Token("back", 1)
    [] ts[k] = "2" -> G!Token("back", 2)
    [] ts[k] = "^" -> G!Token("^", "^")
    [] OTHER -> G!Token(ts[k], "")]
GPatterns == {<<"a">>, <<"a", "*", "b">>, <<"^", "a">>, <<"b", "$">>, <<"^", "*", "a">>, <<"[^a]", "*", "a", "$">>,
  <<".", "*", "a">>, <<"(", "a", "*", ")", "b", "1">>, <<"(", ".", ")", "1", "*", "b">>, <<"[ab]", "*", "A">>,
  <<"(", ".", "*", ")", "b", "1">>, <<"<", "a">>, <<"a", "*", ">">>, <<"(", "a", ")", "(", "b", "*", ")", "2", "1">>,
  <<"$", "a">>, <<")">>, <<"(", "a", "2", ")">>, <<"(", "*", "a", ")">>, <<>>, <<"a", "^">>}
GOptions(w, y) == [w |-> w, y |-> y, v |-> FALSE, c |-> FALSE, l |-> FALSE, n |-> FALSE, h |-> TRUE, s |-> FALSE]
\* Which lines match, alone; then what is printed of files, with every other option.
GFile(name, lines) == [name |-> name, opens |-> TRUE, lines |-> lines]
GLines == <<<<"a", "b">>, <<"b">>, <<>>, <<"A", " ", "a">>>>
GFiles == {<<GFile("f", GLines)>>, <<GFile("f", GLines), [name |-> "g", opens |-> FALSE, lines |-> <<>>],
             GFile("h", <<<<"b">>, <<"a">>>>)>>, <<GFile("f", <<<<"b">>>>)>>}
GPrints == [w : {FALSE}, y : {FALSE}, v : BOOLEAN, c : BOOLEAN, l : BOOLEAN, n : BOOLEAN, h : BOOLEAN, s : BOOLEAN]
\* Where grep does what its usage text denies: -c with -s prints counts of 0, with -h the
\* files' names.  Which of -c and -l counts the text leaves open: here it is -c.
Denied(o) == o.c /\ (o.s \/ ~o.h)
GrepJobs ==
  [prog : {"grep"}, p : GPatterns, o : {GOptions(w, y) : w, y \in BOOLEAN},
   files : {<<GFile("f", <<s>>)>> : s \in UpTo({"a", "b", "A", " "}, 4)}]
  \cup [prog : {"grep"}, p : {<<"a">>, <<"a", "*", "b">>}, o : {o \in GPrints : ~Denied(o)}, files : GFiles]

GrepRuns == job.prog = "grep" /\ Answer(G!Main(GTokens(job.p), job.o, job.files))

\* The places where a match of the tokens from k on that begins at lp may end, given
\* what the brackets hold; the meaning of the tokens, without items.
RECURSIVE GEnds(_, _, _, _, _)
GOne(t, c, y) == CASE t.t = "." -> TRUE [] t.t = "set" -> (c \in t.arg.set) # t.arg.neg
                   [] OTHER -> t.arg = c \/ (y /\ t.arg = "a" /\ c = "A")
GEnds(ts, k, s, lp, m) ==
  IF k > Len(ts) THEN {lp}
  ELSE LET t == GTokens(ts)[k]
           starred == k < Len(ts) /\ ts[k + 1] = "*"
           next == IF starred THEN k + 2 ELSE k + 1
           first == \A j \in 1 .. k - 1 : ts[j] \in {"^", "("}
           runs == {q \in lp .. Len(s) + 1 : (starred \/ q = lp + 1) /\ \A x \in lp .. q - 1 : GOne(t, s[x], job.o.y)}
           held == m[t.arg]
           \* so many copies of what a bracket holds
           times == {n \in 0 .. Len(s) : (starred \/ n = 1) /\ (n = 0 \/
                       \A x \in 0 .. n * Len(held) - 1 : lp + x <= Len(s) /\ s[lp + x] = held[(x % Len(held)) + 1])}
           word(p) == p \in 1 .. Len(s) /\ s[p] # " "
       IN CASE t.t = "*" -> IF lp <= Len(s) /\ s[lp] = "*" THEN GEnds(ts, k + 1, s, lp + 1, m) ELSE {}
            [] t.t \in {"char", ".", "set"} -> UNION {GEnds(ts, next, s, q, m) : q \in runs}
            [] t.t = "^" /\ first -> IF lp = 1 THEN GEnds(ts, k + 1, s, lp, m) ELSE {}
            [] t.t = "^" /\ ~first -> {}
            [] t.t = "$" -> IF k = Len(ts) /\ lp = Len(s) + 1 THEN {lp} ELSE {}
            [] t.t = "(" -> GEnds(ts, k + 1, s, lp, Append(m, <<lp>>))
            [] t.t = ")" -> GEnds(ts, k + 1, s, lp, [m EXCEPT ![Len(m)] = SubSeq(s, @[1], lp - 1)])
            [] t.t = "back" -> UNION {GEnds(ts, next, s, lp + n * Len(held), m) : n \in times}
            [] t.t = "<" -> IF word(lp) /\ ~word(lp - 1) THEN GEnds(ts, k + 1, s, lp, m) ELSE {}
            [] t.t = ">" -> IF ~word(lp) THEN GEnds(ts, k + 1, s, lp, m) ELSE {}
GWrong == {<<")">>, <<"(", "a", "2", ")">>}
GMatches(s) ==
  LET word(p) == p \in 1 .. Len(s) /\ s[p] # " "
  IN \E lp \in 1 .. Len(s) + 1 : \E q \in GEnds(job.p, 1, s, lp, <<>>) :
       job.o.w => word(lp) /\ ~word(lp - 1) /\ ~word(q)

(* grep prints the lines that contain a match of the expression, or with   *)
(* -v the others, for each file that opens: the lines, with -c how many,   *)
(* with -l the file's name once, with -s nothing; its status is 2 after an *)
(* error, else 0 if something was found.  The jobs leave out -c with -s    *)
(* and -c with -h, where the program prints what its usage text denies.    *)
GrepSelects ==
  Ended("grep") =>
    LET o == job.o
        read == SelectSeq(job.files, LAMBDA f : f.opens)
        hits(f) == SelectSeq([k \in 1 .. Len(f.lines) |-> k], LAMBDA k : GMatches(f.lines[k]) # o.v)
        many == Len(job.files) > 1
        named(f, with) == IF many /\ with THEN <<f.name>> ELSE <<>>
        printed(f) ==
          CASE o.s -> <<>>
            [] ~o.s /\ o.c -> <<named(f, o.h) \o <<Len(hits(f))>>>>
            [] ~o.s /\ ~o.c /\ o.l -> IF hits(f) = <<>> THEN <<>> ELSE <<<<f.name>>>>
            [] OTHER -> [i \in DOMAIN hits(f) |->
                 named(f, o.h) \o (IF o.n THEN <<hits(f)[i]>> ELSE <<>>) \o <<f.lines[hits(f)[i]]>>]
    IN IF job.p \in GWrong THEN out = [out |-> <<>>, status |-> 2]
       ELSE /\ out.out = FlattenSeq([i \in DOMAIN read |-> printed(read[i])])
            /\ out.status = IF read # job.files THEN 2
                            ELSE IF \E i \in DOMAIN read : hits(read[i]) # <<>> THEN 0 ELSE 1

-----------------------------------------------------------------------------
(***************************************************************************)
(* sed: the expressions and the s command.                                 *)
(***************************************************************************)
RE == INSTANCE SedRegex WITH Order <- <<"a", "b", "x", "]">>, LBSIZE <- 12

\* Expressions that match an empty text, and those that do not.
RLoose == {<<"x", "*">>, <<"[", "a", "-", "b", "]", "*", "x", "*">>, <<"\\", "(", "a", "*", "\\", ")", "x", "*", "\\", "1">>}
RTight == {<<"a", "*", "b">>, <<"^", "a">>, <<"b", "$">>, <<"[", "^", "a", "]", "*", "b">>, <<".", "*", "a">>, <<"[", "]", "a", "]">>,
  <<"\\", "(", "a", "*", "\\", ")", "b", "\\", "1">>, <<"\\", "(", ".", "\\", ")", "\\", "1", "*", "b">>, <<"a", "*", "a", "b", "*", ".", "x", "*">>,
  <<"\\", "(", "a", "\\", ")", "\\", "(", "b", "*", "\\", ")", "\\", "2", "\\", "1">>, <<"\\", "(", ".", ".", "\\", ")", "x", "*", "\\", "1">>}
RegexJobs == [prog : {"regex"}, e : RLoose \cup RTight, t : {<<"&", "x">>, <<"\\", "1", "b">>, <<>>}, g : BOOLEAN,
              s : UpTo({"a", "b", "x"}, 4)]
RegexRuns ==
  /\ job.prog = "regex" /\ ~done
  /\ \E c \in {RE!Compile(job.e)} : \E r \in {RE!Match(c, job.s)}, sub \in {RE!Compsub(job.t, c.numbra)} :
       Answer([c |-> c, r |-> r, sub |-> sub, new |-> IF sub.ok THEN RE!Substitute(c, sub.rhs, job.g, job.s) ELSE <<>>])

\* All the ways the items from k on match the line from lp on.
RECURSIVE RWays(_, _, _, _, _)
RWays(it, k, s, lp, m) ==
  LET i == it[k]
      fits(p) == p <= Len(s) /\ (i.op = "dot" \/ s[p] \in (IF i.op = "chr" THEN {i.arg} ELSE i.arg))
      runs == {q \in lp .. Len(s) + 1 : (i.star \/ q = lp + 1) /\ \A p \in lp .. q - 1 : fits(p)}
      held == SubSeq(s, m.b[i.arg], m.e[i.arg] - 1)
      copies == {n \in 0 .. Len(s) + 1 : (i.star \/ n = 1) /\ lp + n * Len(held) <= Len(s) + 1
                   /\ SubSeq(s, lp, lp + n * Len(held) - 1) = FlattenSeq([j \in 1 .. n |-> held])}
  IN IF k > Len(it) THEN {[at |-> lp, b |-> m.b, e |-> m.e]}
     ELSE CASE i.op \in {"chr", "dot", "ccl"} -> UNION {RWays(it, k + 1, s, q, m) : q \in runs}
            [] i.op = "dol" -> IF lp > Len(s) THEN RWays(it, k + 1, s, lp, m) ELSE {}
            [] i.op = "bra" -> RWays(it, k + 1, s, lp, [m EXCEPT !.b[i.arg] = lp])
            [] i.op = "ket" -> RWays(it, k + 1, s, lp, [m EXCEPT !.e[i.arg] = lp])
            [] i.op = "back" -> UNION {RWays(it, k + 1, s, lp + n * Len(held), m) : n \in copies}
RFrom(lp) == RWays(out.c.items, 1, job.s, lp, RE!Nowhere)
RPlaces(p) == {lp \in p .. Len(job.s) + 1 : (out.c.first => lp = 1) /\ RFrom(lp) # {}}

(* A match begins at the first place where the expression can match, ends  *)
(* where it may, and its brackets hold what they matched; no match is      *)
(* missed.                                                                 *)
FirstMatch ==
  IF out.r.ok
  THEN /\ out.r.loc1 \in RPlaces(1) /\ \A p \in RPlaces(1) : out.r.loc1 <= p
       /\ [at |-> out.r.loc2, b |-> out.r.m.b, e |-> out.r.m.e] \in RFrom(out.r.loc1)
  ELSE RPlaces(1) = {}

(* s replaces that match, or with g each next one behind it, the longest   *)
(* there, and leaves the rest of the line.                                 *)
RECURSIVE RReplaced(_)
RReplaced(p) ==
  IF RPlaces(p) = {} THEN SubSeq(job.s, p, Len(job.s))
  ELSE LET lp == Min(RPlaces(p))
           w == CHOOSE w \in RFrom(lp) : \A v \in RFrom(lp) : v.at <= w.at
           r == [loc1 |-> lp, loc2 |-> w.at, m |-> w]
       IN SubSeq(job.s, p, lp - 1) \o RE!Expansion(out.sub.rhs, job.s, r)
            \o (IF job.g THEN RReplaced(w.at) ELSE SubSeq(job.s, w.at, Len(job.s)))
EveryMatch == job.e \in RTight /\ out.sub.ok => out.new.ends /\ out.new.s = RReplaced(1)
SedReplaces == Ended("regex") => FirstMatch /\ EveryMatch

=============================================================================
