------------------------------ MODULE Squeeze ------------------------------
(***************************************************************************)
(* sq and usq (xsq.c, xusq.c): runs of a byte become a mark and a count,   *)
(* then every token its Huffman code; and sqtype (xtype.c), which shows a  *)
(* squeezed file or a plain one.                                           *)
(***************************************************************************)
EXTENDS Integers, Sequences, FiniteSets, FiniteSetsExt, SequencesExt, Folds

CONSTANTS
  ByteBits,   \* bits of a byte, 8: a word has twice as many
  DLE,        \* the byte that marks a run, 0x90
  MaxName,    \* characters of an output name, 14
  RECOGNIZE,  \* the word that begins a squeezed file, 0xFF76
  CPMEOF      \* the byte that ends a text, 0x1A

SPEOF == 2 ^ ByteBits
NUMVALS == SPEOF + 1
MaxRun == SPEOF - 1
Word == 2 ^ (2 * ByteBits)
MAXCOUNT == Word - 1
EOF == -1
\* Op of a value that is computed once.
Let(v, Op(_)) == Op(v)

----------------------------------------------------------------------------
\* Getcnr gives the tokens of the bytes: a run of three or more becomes its byte, DLE
\* and its length, and DLE itself DLE and zero.
RECURSIVE Getcnr(_)
Getcnr(bytes) ==
  IF bytes = <<>> THEN <<>>
  ELSE LET b == Head(bytes)
           likect == CHOOSE n \in 1 .. MaxRun :
             /\ n <= Len(bytes) /\ \A k \in 1 .. n : bytes[k] = b
             /\ n = MaxRun \/ n = Len(bytes) \/ bytes[n + 1] # b
       IN IF b = DLE THEN <<DLE, 0>> \o Getcnr(Tail(bytes))
          ELSE (IF likect < 3 THEN [k \in 1 .. likect |-> b] ELSE <<b, DLE, likect>>)
                 \o Getcnr(SubSeq(bytes, likect + 1, Len(bytes)))
Tokens(bytes) == Append(Getcnr(bytes), SPEOF)

\* Weights are a sequence: that of value v is at v + 1.
Counts(tokens) ==
  [v \in 1 .. NUMVALS |-> Min({MAXCOUNT, Cardinality({k \in DOMAIN tokens : tokens[k] = v - 1})})]

Overflows(w, ceil) ==
  FoldLeft(LAMBDA s, x : [n   |-> s.n + (IF x > (ceil - s.sum) % Word THEN 1 ELSE 0),
                          sum |-> (s.sum + x) % Word], [n |-> 0, sum |-> 0], w).n
\* A weight that the divisor would lose is raised to it, and the divisor found again.
RECURSIVE Scale(_, _)
Scale(w, ceil) ==
  LET divisor == Overflows(w, ceil) + 1
      raised  == FoldLeft(LAMBDA s, x : Append(s, IF x # 0 /\ x < divisor THEN divisor ELSE x), <<>>, w)
  IN IF raised # w THEN Scale(raised, ceil)
     ELSE FoldLeft(LAMBDA s, x : Append(s, x \div divisor), <<>>, w)

\* n holds the nodes, leaves first: weight, longest path and children. A list of nodes
\* is a heap with the lightest tree, and of these the lowest, on top.
Greater(n, a, b) == n[a].w > n[b].w \/ (n[a].w = n[b].w /\ n[a].d > n[b].d)
RECURSIVE Adjust(_, _, _)
Adjust(n, list, top) ==
  LET two == 2 * top < Len(list) /\ Greater(n, list[2 * top], list[2 * top + 1])
      k   == IF two THEN 2 * top + 1 ELSE 2 * top
  IN IF k <= Len(list) /\ Greater(n, list[top], list[k])
     THEN Adjust(n, [list EXCEPT ![top] = list[k], ![k] = list[top]], k)
     ELSE list
RECURSIVE Heap(_, _, _)
Heap(n, list, i) == IF i = 0 THEN list ELSE Heap(n, Adjust(n, list, i), i - 1)

RECURSIVE BldTree(_, _)
Node(n, l, r) == [w |-> (n[l].w + n[r].w) % Word, l |-> l, r |-> r, d |-> 1 + (IF n[l].d > n[r].d THEN n[l].d ELSE n[r].d)]
BldTree(n, list) ==
  IF Len(list) = 1 THEN [n |-> n, head |-> list[1]]
  ELSE Let(Adjust(n, [Front(list) EXCEPT ![1] = Last(list)], 1), LAMBDA rest :
         Let(Append(n, Node(n, list[1], IF Len(list) = 2 THEN list[2] ELSE rest[1])), LAMBDA more :
           BldTree(more, Adjust(more, [rest EXCEPT ![1] = Len(more)], 1))))

\* The path to every leaf below a node, from the root.
RECURSIVE Buildenc(_, _, _)
Buildenc(n, root, path) ==
  IF root <= NUMVALS THEN {<<root - 1, path>>}
  ELSE Buildenc(n, n[root].l, Append(path, 0)) \cup Buildenc(n, n[root].r, Append(path, 1))

\* A tree whose codes are too long for a word is built again from smaller weights.
RECURSIVE InitHuff(_, _)
Tree(w) ==
  LET list  == SelectSeq([v \in 1 .. NUMVALS |-> v], LAMBDA v : w[v] # 0)
      leaf  == [v \in 1 .. NUMVALS |-> [w |-> w[v], d |-> 0, l |-> 0, r |-> 0]]
  IN Let(SubSeq(leaf, 1, NUMVALS), LAMBDA n : BldTree(n, Heap(n, list, Len(list) \div 2)))
Coded(t) == [n |-> t.n, head |-> t.head, codes |-> Buildenc(t.n, t.head, <<>>)]
InitHuff(weights, ceiling) ==
  Let(Scale(weights, ceiling), LAMBDA w : Let(Coded(Tree(w)), LAMBDA t :
    IF \E c \in t.codes : Len(c[2]) > 2 * ByteBits THEN InitHuff(w, ceiling \div 2) ELSE t))

Putwe(w) == <<w % SPEOF, (w \div SPEOF) % SPEOF>>
\* Interior nodes from the head down; a leaf is minus its value, less one.
WrtHead(crc, name, t) ==
  LET numnodes == IF t.head <= NUMVALS THEN 0 ELSE t.head - NUMVALS
      child(c) == Putwe(IF c <= NUMVALS THEN -c ELSE t.head - c)
      row(k)   == LET m == t.n[t.head - k + 1] IN child(m.l) \o child(m.r)
  IN Putwe(RECOGNIZE) \o Putwe(crc) \o Append(name, 0) \o Putwe(numnodes)
       \o FoldLeft(LAMBDA s, k : s \o row(k), <<>>, [k \in 1 .. numnodes |-> k])

\* s.r holds the bits of the byte begun, s.need says how many it lacks. A byte is taken
\* with all the bits of its code that follow, and they are not dropped from the value:
\* one that is a whole word of ones is taken for the end of the file.
RECURSIVE PutCode(_, _, _)
PutCode(s, ccode, cbitsrem) ==
  LET rbyte == (s.r + ccode * 2 ^ (ByteBits - s.need)) % Word
  IN IF s.stop THEN s
     ELSE IF cbitsrem < s.need THEN [s EXCEPT !.r = rbyte, !.need = @ - cbitsrem]
     ELSE IF rbyte = Word - 1 THEN [s EXCEPT !.stop = TRUE]
     ELSE PutCode([s EXCEPT !.out = Append(@, rbyte % SPEOF), !.r = 0, !.need = ByteBits],
                  ccode \div 2 ^ s.need, cbitsrem - s.need)
Number(path) == FoldLeft(LAMBDA x, k : x + path[k] * 2 ^ (k - 1), 0, [k \in DOMAIN path |-> k])
Gethuff(codes, tokens) ==
  LET code == [v \in {c[1] : c \in codes} |-> CHOOSE c \in codes : c[1] = v]
  IN Let(FoldLeft(LAMBDA t, v : PutCode(t, Number(code[v][2]), Len(code[v][2])),
                  [out |-> <<>>, r |-> 0, need |-> ByteBits, stop |-> FALSE], tokens),
         LAMBDA s : IF s.stop \/ s.need = ByteBits THEN s.out ELSE Append(s.out, s.r))

Crc(bytes) == FoldLeft(LAMBDA s, b : (s + b) % Word, 0, bytes)
\* A name whose second character is ":" (58) has a drive before it.
NoDrive(name) == IF Len(name) >= 2 /\ name[2] = 58 THEN SubSeq(name, 3, Len(name)) ELSE name
\* What sq writes in a file with room for so many bytes. Without room for the header
\* the program ends.
Written(io, head, all) ==
  IF io.room < Len(head) THEN [status |-> "exit", out |-> SubSeq(head, 1, io.room)]
  ELSE IF io.room < Len(all) THEN [status |-> "write error", out |-> SubSeq(all, 1, io.room)]
  ELSE [status |-> "ok", out |-> all]
SqueezeFile(io, name, bytes) ==
  IF ~io.opens THEN [status |-> "can't open", out |-> <<>>]
  ELSE IF ~io.creates THEN [status |-> "can't create", out |-> <<>>]
  ELSE Let(InitHuff(Counts(Tokens(bytes)), MAXCOUNT), LAMBDA t :
         Let(WrtHead(Crc(bytes), NoDrive(name), t), LAMBDA head :
           Written(io, head, head \o Gethuff(t.codes, Tokens(bytes)))))

\* The output's name, characters; <<>> if the file's type says that it is squeezed.
Obey(p) ==
  LET w    == Max({0} \cup {k \in DOMAIN p : p[k] = "/"})
      dots == {k \in w + 1 .. Len(p) : p[k] = "."}
      q    == Min(dots)
      name == IF dots = {} THEN p \o <<".", "Q", "Q", "Q">>
              ELSE IF q = Len(p) THEN Front(p) \o <<".", "Q", "Q", "Q">>
              ELSE IF Len(p) = q + 1 THEN Append(p, "Q") ELSE [p EXCEPT ![q + 2] = "Q"]
  IN IF dots # {} /\ q + 2 <= Len(p) /\ p[q + 2] \in {"q", "Q"} THEN <<>>
     ELSE IF Len(name) - w > MaxName THEN <<"s", "q", ".", "o", "u", "t">> ELSE name

----------------------------------------------------------------------------
\* Words read at place k; getc gives EOF, -1, past the end.
Getc(f, k) == IF k <= Len(f) THEN f[k] ELSE EOF
Portgetw(f, k) ==
  LET x == ((Getc(f, k) % SPEOF) + Getc(f, k + 1) * SPEOF) % Word
  IN IF x >= Word \div 2 THEN x - Word ELSE x

\* The header: the place of the code and the tree, or what is wrong with it.
Header(f) ==
  LET zeros == {k \in 5 .. Len(f) : f[k] = 0}
      z  == Min(zeros)
      n  == Portgetw(f, z + 1)
      at(k) == z + 3 + 4 * (k - 1)
      tree == [k \in 1 .. n |-> <<Portgetw(f, at(k)), Portgetw(f, at(k) + 2)>>]
      bad == n < 0 \/ n >= NUMVALS \/ at(n + 1) - 1 > Len(f)
               \/ \E k \in 1 .. n, c \in 1 .. 2 : tree[k][c] < -(SPEOF + 1) \/ tree[k][c] >= n
  IN IF (Portgetw(f, 1) - RECOGNIZE) % Word # 0 THEN [status |-> "not squeezed"]
     ELSE IF zeros = {} THEN [status |-> "name"]
     ELSE IF bad THEN [status |-> "tree"]
     ELSE [status |-> "ok", crc |-> Portgetw(f, 3) % Word, name |-> SubSeq(f, 5, z - 1), at |-> at(n + 1),
           tree |-> IF n = 0 THEN <<<<-(SPEOF + 1), -(SPEOF + 1)>>>> ELSE SubSeq(tree, 1, n)]

\* A walk from the root, of the k bits read; x is the value found.
RECURSIVE Walk(_, _, _, _, _)
Walk(h, f, i, k, depth) ==
  LET place == h.at + (k \div ByteBits)
      bit   == (f[place] \div 2 ^ (k % ByteBits)) % 2
      next  == h.tree[i + 1][bit + 1]
  IN IF depth >= NUMVALS - 1 THEN [x |-> EOF, k |-> k, bad |-> TRUE]
     ELSE IF place > Len(f) THEN [x |-> EOF, k |-> k, bad |-> FALSE]
     ELSE IF next >= 0 THEN Walk(h, f, next, k + 1, depth + 1)
     ELSE [x |-> IF -(next + 1) = SPEOF THEN EOF ELSE -(next + 1), k |-> k + 1, bad |-> FALSE]
Getuhuff(h, f, k) == Walk(h, f, 0, k, 0)

CopiesAll(v, n) == [k \in 1 .. n + 1 |-> v]
Copies(v, n) == [k \in 1 .. n |-> v]
\* Bytes until the end: value is the last one that a run would repeat. More says whether
\* the reader goes on after a byte; the first it does not want is dropped.
RECURSIVE Getcr(_, _, _, _)
Before(bytes, rest) == [rest EXCEPT !.bytes = bytes \o @]
Getcr(h, f, k, value) ==
  Let(Getuhuff(h, f, k), LAMBDA a :
    IF a.x = EOF THEN [bytes |-> <<>>, bad |-> a.bad]
    ELSE IF a.x # DLE THEN Before(<<a.x>>, Getcr(h, f, a.k, a.x))
    ELSE Let(Getuhuff(h, f, a.k), LAMBDA b :
           Let(Before(IF b.x = 0 THEN <<DLE>> ELSE Copies(value, IF b.x < 3 THEN 1 ELSE b.x - 1), Getcr(h, f, b.k, value)),
               LAMBDA all : [all EXCEPT !.bad = @ \/ b.bad])))

\* What usq leaves: the file written and its result.
Unsqueeze(f, Nlmode, CR) ==
  Let(Header(f), LAMBDA h :
    IF h.status # "ok" THEN [out |-> <<>>, status |-> h.status]
    ELSE Let(Getcr(h, f, 0, 0), LAMBDA got :
           [out    |-> IF Nlmode THEN SelectSeq(got.bytes, LAMBDA c : c # CR) ELSE got.bytes,
            status |-> IF got.bad THEN "tree" ELSE IF Crc(got.bytes) # h.crc THEN "checksum" ELSE "ok"]))

\* The name usq writes: small letters if it has none, and no directory.
Lower == [c \in {"A", "B", "Q"} |-> CASE c = "A" -> "a" [] c = "B" -> "b" [] c = "Q" -> "q"]
OrigName(name, MakeLCPathname) ==
  LET small == \E k \in DOMAIN name : name[k] \in {Lower[c] : c \in DOMAIN Lower}
      one(c) == IF c = "/" THEN "_" ELSE IF MakeLCPathname /\ ~small /\ c \in DOMAIN Lower THEN Lower[c] ELSE c
  IN [k \in DOMAIN name |-> one(name[k])]

\* What sqtype shows of a file: its text up to the first CPMEOF.
Text(bytes) ==
  LET ends == {k \in DOMAIN bytes : bytes[k] = CPMEOF}
  IN SubSeq(bytes, 1, Min(ends \cup {Len(bytes) + 1}) - 1)
\* xtype.c has usq's functions again.
Shown(h, f) == Text(Getcr(h, f, 0, 0).bytes)
Qsend(f) ==
  Let(Header(f), LAMBDA h :
    CASE h.status = "not squeezed" -> [shown |-> Text(f), status |-> "ok"]
      [] h.status \in {"name", "tree"} -> [shown |-> <<>>, status |-> h.status]
      [] h.status = "ok" -> [shown |-> Shown(h, f), status |-> "ok"])
=============================================================================
