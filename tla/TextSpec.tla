------------------------------ MODULE TextSpec -------------------------------
(***************************************************************************)
(* What the filters of TextTools promise, and the inputs they are checked  *)
(* on: sets for tr of ranges and single characters, files of a few lines;  *)
(* what sq, usq and sqtype promise one another; what diff and diffh do.    *)
(***************************************************************************)
EXTENDS Jobs, Integers, Sequences, FiniteSets, FiniteSetsExt, SequencesExt, TLC

Text == INSTANCE TextTools WITH Codes <- 5, Line <- 3

Places(n, Test(_)) == SelectSeq([i \in 1 .. n |-> i], Test)

UniqLines == {<<"a">>, <<"b", " ", "a">>, <<"a", " ", "a">>}
UniqJobs == [prog : {"uniq"}, o : [mode : {"", "u", "d"}, fields : 0 .. 1, letters : 0 .. 1],
             in : UpTo(UniqLines, 4)]

\* A part of a set is a range of codes; a dash by itself is written with a backslash.
Parts == {<<1, 1>>, <<2, 2>>, <<3, 5>>, <<4, 5>>, <<3, 3>>}
Written(p) == IF p[1] # p[2] THEN <<p[1], Text!Dash, p[2]>>
              ELSE IF p[1] = Text!Dash THEN <<-p[1]>> ELSE <<p[1]>>
Meant(p) == [i \in 1 .. (p[2] - p[1] + 1) |-> p[1] + i - 1]
All(parts, Op(_)) == FlattenSeq([i \in DOMAIN parts |-> Op(parts[i])])
TrJobs == [prog : {"tr"}, from : UpTo(Parts, 2), to : UpTo(Parts, 2),
           c : BOOLEAN, d : BOOLEAN, s : BOOLEAN]
TrText == <<1, 1, 2, 3, 0, 3, 4, 4, 5, 3, 3, 2, 2>>

UuJobs == [prog : {"uu"}, bytes : UpTo({0, 77, 200}, 5)]
CrcFiles == [bytes : UpTo({{0, 1}, {2, 5, 7}}, 2), opens : {TRUE}, whole : {TRUE}]
                \cup {[bytes |-> <<{1}>>, opens |-> FALSE, whole |-> FALSE], [bytes |-> <<{1}>>, opens |-> TRUE, whole |-> FALSE]}
CrcJobs == [prog : {"crc"}, n : BOOLEAN, fs : UpTo(CrcFiles, 2)]

\* Letters, a digit, punctuation and the two marks of the command line.
FoldChars == [kind : {"letter"}, big : BOOLEAN] \cup [kind : {"digit", "dash", "percent", "back"}, big : {FALSE}]
FoldJobs == [prog : {"fold"}, s : UpTo(FoldChars, 4)]

TextJobs == FoldJobs \cup UniqJobs \cup TrJobs \cup UuJobs \cup CrcJobs
TrArgs == [from |-> All(job.from, Written), to |-> All(job.to, Written), c |-> job.c, d |-> job.d, s |-> job.s]
TextRuns ==
  \/ job.prog = "uniq" /\ Answer(Text!Uniq(job.o, job.in))
  \/ job.prog = "tr" /\ Answer(Text!Tr(TrArgs, TrText))
  \/ job.prog = "fold" /\ Answer(Text!Casefold(job.s, FALSE))
  \/ job.prog = "uu" /\ Answer(Text!Decode(Text!Encode(job.bytes, <<170, 85, 255>>)))
  \/ job.prog = "crc" /\ Answer(Text!CrcPrinted(job.n, job.fs))

(* uniq prints, in order, the first line of every group of equal lines that *)
(* the mode asks for, with the group's size.                               *)
UniqGroups ==
  Ended("uniq") =>
    LET same(i) == i > 1 /\ Text!Equal(job.o, job.in[i - 1], job.in[i])
        size(i) == CHOOSE n \in 1 .. Len(job.in) :
                     /\ \A k \in (i + 1) .. (i + n - 1) : k <= Len(job.in) /\ same(k)
                     /\ i + n > Len(job.in) \/ ~same(i + n)
        asked(i) == /\ ~same(i)
                    /\ job.o.mode = "u" => size(i) = 1
                    /\ job.o.mode = "d" => size(i) > 1
        firsts == Places(Len(job.in), asked)
    IN out = [k \in DOMAIN firsts |-> <<job.in[firsts[k]], size(firsts[k])>>]

One(from, to, c) ==
  LET at == {i \in DOMAIN from : from[i] = c}
  IN IF at = {} THEN c ELSE IF job.d THEN 0
     ELSE IF to = <<>> THEN c ELSE to[Min({Len(to), Max(at)})]
\* All that is kept, and that without the repeats.
TrKept(from, to) ==
  LET coded == [i \in DOMAIN TrText |-> IF TrText[i] = 0 THEN 0 ELSE One(from, to, TrText[i])]
  IN SelectSeq(coded, LAMBDA c : c # 0)
TrOnce(kept, to) ==
  LET places == Places(Len(kept), LAMBDA i : ~(job.s /\ i > 1 /\ kept[i] = kept[i - 1] /\ kept[i] \in to))
  IN [k \in DOMAIN places |-> kept[places[k]]]
TrFrom(set) == IF job.c THEN Places(5, LAMBDA c : c \notin ToSet(set)) ELSE set
TrMeant(from, to) == TrOnce(TrKept(from, to), ToSet(to))
(* tr replaces each character of the first set by the one at its place in  *)
(* the second, whose last character stands for those it lacks, or deletes  *)
(* it; then repeats of a character of the second set become one.           *)
TrTranslates == Ended("tr") => out = TrMeant(TrFrom(All(job.from, Meant)), All(job.to, Meant))

(* A set comes out no longer than it was, for it is folded in its place;   *)
(* without backslashes, a letter is large where the number of % since the  *)
(* last punctuation is odd.                                                *)
FoldInPlace ==
  Ended("fold") =>
    LET in    == job.s
        marks == SelectSeq(in, LAMBDA c : c.kind = "back")
        since(i) == {k \in 1 .. i : \A j \in k .. i : in[j].kind # "dash"}
        big(i) == Cardinality({k \in since(i) : in[k].kind = "percent"}) % 2 = 1
        kept  == Places(Len(in), LAMBDA i : in[i].kind # "percent")
    IN /\ Len(out) <= Len(in)
       /\ marks = <<>> => out = [k \in DOMAIN kept |-> IF in[kept[k]].kind # "letter" THEN in[kept[k]]
                                                      ELSE [kind |-> "letter", big |-> big(kept[k])]]

(* uudecode gives back the file that uuencode was given.                   *)
UuRoundTrip == Ended("uu") => out = job.bytes

(* crc prints for several files what it prints for one with all their      *)
(* bytes, computed bit by bit; with -n, a sum for each file it read.       *)
CrcOfAll ==
  Ended("crc") =>
    LET bit(crc, on) == LET s == Text!Shift(crc, 1) IN IF (0 \in crc) # on THEN Text!Xor(s, Text!Polynomial) ELSE s
        byte(crc, b) == FoldLeft(LAMBDA r, i : bit(r, (i - 1) \in b), crc, <<1, 2, 3, 4, 5, 6, 7, 8>>)
        sum(bytes) == (0 .. 31) \ FoldLeft(byte, 0 .. 31, bytes)
        read == SelectSeq(job.fs, LAMBDA f : f.opens /\ f.whole)
    IN out = IF job.n THEN [i \in DOMAIN read |-> sum(read[i].bytes)]
             ELSE IF read = <<>> THEN <<>> ELSE <<sum(All(read, LAMBDA f : f.bytes))>>


-----------------------------------------------------------------------------
(***************************************************************************)
(* sq, usq and sqtype, on bytes of three bits.                             *)
(***************************************************************************)
Sq == INSTANCE Squeeze WITH ByteBits <- 3, DLE <- 4, MaxName <- 6, RECOGNIZE <- 62, CPMEOF <- 5

QRun(b, n) == [k \in 1 .. n |-> b]
\* Short files, runs at the length a count can hold, and weights that make long codes.
QLong == {QRun(1, a) \o QRun(b, c) : a \in {6, 7, 8, 14, 15}, b \in {0, 4}, c \in {0, 1, 7}}
QPairs(bs, n) == FlattenSeq([k \in 1 .. n |-> bs])
QDeep(bs) == QPairs(<<0, 1>>, 13) \o QPairs(<<0, 2>>, 8) \o QPairs(<<3, 5>>, 3) \o QPairs(<<3, 6>>, 2) \o <<7>> \o bs
\* The code of the byte 6 is a word of ones.
QSkewed == QPairs(<<3, 2>>, 16) \o QPairs(<<3, 1>>, 9) \o <<0, 7, 0, 7, 0, 0>>
SkewedJobs == [prog : {"sq"}, nl : {FALSE},
  f : {SubSeq(QSkewed, 1, k) \o <<6, 6>> \o SubSeq(QSkewed, k + 1, Len(QSkewed)) : k \in 0 .. 49}]
SqueezeJobs == [prog : {"sq"}, f : UpTo({0, 1, 4, 5}, 5) \cup QLong \cup {QDeep(bs) : bs \in UpTo({1, 3}, 3)}, nl : BOOLEAN]
  \cup [prog : {"cut"}, room : 0 .. 40, f : UpTo({1, 2, 4}, 4)]
  \cup [prog : {"sqname"}, p : UpTo({"A", "b", ".", "Q", "/"}, 5)]
QWhole == [opens |-> TRUE, creates |-> TRUE, room |-> 1000]
SqueezeRuns ==
  \/ job.prog = "sq" /\ \E a \in {Sq!SqueezeFile(QWhole, <<3>>, job.f).out} :
       Answer([back |-> Sq!Unsqueeze(a, job.nl, 5), shown |-> Sq!Qsend(a), plain |-> Sq!Qsend(job.f)])
  \/ job.prog = "cut" /\ \E a \in {Sq!SqueezeFile([QWhole EXCEPT !.room = job.room], <<3>>, job.f)} :
       Answer([made |-> a.status, back |-> Sq!Unsqueeze(a.out, FALSE, 5)])
  \/ job.prog = "sqname" /\ Answer([made |-> Sq!Obey(job.p), again |-> Sq!Obey(Sq!Obey(job.p)),
                                    back |-> Sq!OrigName(job.p, TRUE)])

(* usq gives back the file that sq squeezed, without carriage returns if   *)
(* asked, with its checksum right; sqtype shows the text of the squeezed   *)
(* file as it shows that of the file.                                      *)
SqueezeRoundTrip ==
  Ended("sq") =>
    /\ out.back.status = "ok"
    /\ out.back.out = IF job.nl THEN SelectSeq(job.f, LAMBDA b : b # 5) ELSE job.f
    /\ out.plain.shown = out.shown.shown
    /\ out.shown.shown = IF 5 \in ToSet(job.f) THEN SubSeq(job.f, 1, CHOOSE k \in 0 .. Len(job.f) - 1 :
                            job.f[k + 1] = 5 /\ \A j \in 1 .. k : job.f[j] # 5) ELSE job.f

(* A squeezed file that the disk had no room for is reported by sq, and by  *)
(* usq unless the file has come out whole: its bytes, none of them zero,   *)
(* have a smaller sum.                                                     *)
CutsSeen ==
  Ended("cut") =>
    /\ out.made = "ok" => out.back.status = "ok"
    /\ out.back.status = "ok" => out.back.out = job.f

(* sq marks the output's type so that it does not squeeze it again, and    *)
(* usq's name for a file has no directory.                                 *)
NamesMarked ==
  Ended("sqname") =>
    /\ out.made # <<"s", "q", ".", "o", "u", "t">> => out.made = <<>> \/ out.again = <<>>
    /\ "/" \notin ToSet(out.back)

(* All of these at once.                                                   *)
SqueezedKept == SqueezeRoundTrip /\ CutsSeen /\ NamesMarked

-----------------------------------------------------------------------------
(***************************************************************************)
(* diff and diffh: every form of their output makes one file of the other. *)
(***************************************************************************)
FLines == {"a", "b", "c"}
FSelf == [x \in FLines |-> x]
\* Hashes are signed; with the second function a and c have the same.
Df == INSTANCE Diff WITH Class <- FSelf, Hash <- ("a" :> 5) @@ ("b" :> -3) @@ ("c" :> 6), MAXCONTEXT <- 2,
  C <- 3, RANGE <- 5
Dfc == INSTANCE Diff WITH Class <- FSelf, Hash <- ("a" :> 5) @@ ("b" :> -3) @@ ("c" :> 5), MAXCONTEXT <- 2,
  C <- 3, RANGE <- 5

DiffJobs == [prog : {"diff"}, f : UpTo(FLines, 3) \cup UpTo({"a", "b"}, 4), g : UpTo(FLines, 3) \cup UpTo({"a", "b"}, 4)]
  \cup [prog : {"diffc"}, f : UpTo(FLines, 3), g : UpTo(FLines, 3)]
  \cup [prog : {"diffh"}, f : UpTo({"a", "b"}, 5), g : UpTo({"a", "b"}, 6)]
FAnswer(J) == [J |-> J, down |-> Df!Changes(J, Len(job.f), Len(job.g), FALSE), up |-> Df!Changes(J, Len(job.f), Len(job.g), TRUE)]
DiffRuns ==
  \/ job.prog = "diff" /\ ~done /\ \E J \in {Df!Correspondence(job.f, job.g)} : Answer(FAnswer(J))
  \/ job.prog = "diffc" /\ ~done /\ \E J \in {Dfc!Correspondence(job.f, job.g)} : Answer(FAnswer(J))
  \/ job.prog = "diffh" /\ Answer(Df!Diffh(job.f, job.g))

RECURSIVE FCommon(_, _)
FCommon(f, g) == IF f = <<>> \/ g = <<>> THEN 0
                 ELSE IF Head(f) = Head(g) THEN 1 + FCommon(Tail(f), Tail(g))
                 ELSE Max({FCommon(Tail(f), g), FCommon(f, Tail(g))})
FMatched == {i \in 1 .. Len(job.f) : out.J[i] # 0}

(* The lines that diff matches are a longest common subsequence, if no two *)
(* lines have the same hash; with such lines, still a common one.          *)
MatchRight ==
  /\ \A i \in FMatched : job.f[i] = job.g[out.J[i]]
  /\ \A i, k \in FMatched : i < k => out.J[i] < out.J[k]
  /\ job.prog = "diff" => Cardinality(FMatched) = FCommon(job.f, job.g)

(* The script for ed (-e), carried out from the end of the file up, the    *)
(* commands of -n, counted in the old file, and the text of -D make the    *)
(* new file, and the last the old one too.                                 *)
FEd(f, e) == IF e.cmd = "a" THEN SubSeq(f, 1, e.from) \o e.text \o SubSeq(f, e.from + 1, Len(f))
             ELSE SubSeq(f, 1, e.from - 1) \o e.text \o SubSeq(f, e.to + 1, Len(f))
FRcs(s, e) == IF e.cmd = "a" THEN [at |-> Max({s.at, e.at}), out |-> s.out \o SubSeq(job.f, s.at + 1, e.at) \o e.text]
              ELSE [at |-> e.at + e.n - 1, out |-> s.out \o SubSeq(job.f, s.at + 1, e.at - 1)]
FCpp(text, def) ==
  FoldLeft(LAMBDA s, l :
      CASE l \in FLines -> IF s.on THEN [s EXCEPT !.out = Append(@, l)] ELSE s
        [] l = "#ifdef" -> [s EXCEPT !.on = def]
        [] l = "#ifndef" -> [s EXCEPT !.on = ~def]
        [] l = "#else" -> [s EXCEPT !.on = ~@]
        [] l = "#endif" -> [s EXCEPT !.on = TRUE],
    [on |-> TRUE, out |-> <<>>], text).out
ScriptsRight ==
  /\ FoldLeft(FEd, job.f, [i \in DOMAIN out.up |-> Df!Edit(out.up[i], job.g)]) = job.g
  /\ LET s == FoldLeft(FRcs, [at |-> 0, out |-> <<>>], FlattenSeq([i \in DOMAIN out.down |-> Df!Numbered(out.down[i], job.g)]))
     IN s.out \o SubSeq(job.f, s.at + 1, Len(job.f)) = job.g
  /\ LET text == Df!Merged(job.f, job.g, out.down) IN FCpp(text, TRUE) = job.g /\ FCpp(text, FALSE) = job.f

(* Both halves of a hunk of -c are consecutive lines with the context      *)
(* asked for around the first and the last change, and the changed lines   *)
(* are those that are marked.                                              *)
HunksRight ==
  \A ctx \in 0 .. 1 :
    LET hs == Df!Hunks(out.down, ctx)
        right(len, lo, hi) == \A k \in DOMAIN hs :
          LET h == Df!Half(hs[k], len, lo, hi, ctx)
              from == Max({1, hs[k][1][lo] - ctx})
          IN h # <<>> =>
               /\ Len(h) = Min({len, Last(hs[k])[hi] + ctx}) - from + 1
               /\ \A i \in DOMAIN h : /\ h[i][2] = from + i - 1
                                      /\ h[i][1] = "!" <=> \E c \in ToSet(hs[k]) : h[i][2] \in c[lo] .. c[hi]
    IN right(Len(job.f), 1, 2) /\ right(Len(job.g), 3, 4)

(* What diffh writes makes the new file of the old one, unless it gave up. *)
FPart(f, e) == LET at == IF e.cmd = "a" THEN e.from ELSE e.from - 1
               IN SubSeq(f, 1, at) \o e.new \o SubSeq(f, at + Len(e.old) + 1, Len(f))
HalfHearted ==
  out.ok => /\ FoldLeft(FPart, job.f, Reverse(out.out)) = job.g
            /\ \A i \in DOMAIN out.out : LET e == out.out[i] IN (e.cmd = "a") = (e.old = <<>>) /\ (e.cmd = "d") = (e.new = <<>>)
(* All of these at once.                                                   *)
DiffMakesNew ==
  /\ Ended("diff") \/ Ended("diffc") => MatchRight /\ ScriptsRight /\ HunksRight
  /\ Ended("diffh") => HalfHearted
=============================================================================
