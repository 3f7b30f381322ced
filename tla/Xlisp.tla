------------------------------- MODULE Xlisp -------------------------------
(***************************************************************************)
(* xlisp: its memory (xldmem.c), reader (xlread.c), evaluator (xleval.c,   *)
(* xlbind.c) and built-in functions (xlsubr.c, xllist.c, xlmath.c,         *)
(* xlstr.c, xlprin.c).  A state s has the nodes h and the free ones, the   *)
(* values that C frames hold on the stack, the environment, the input and  *)
(* the output, the value v of what ran last and what failed, if anything.  *)
(***************************************************************************)
EXTENDS Integers, Sequences, FiniteSets, FiniteSetsExt, SequencesExt, Folds

CONSTANTS
  Ints,    \* tokens that are numbers, each with its value
  Strs,    \* tokens that are strings, each with its tokens
  Subrs    \* names of the built-in functions

Node(t, l, r) == [t |-> t, l |-> l, r |-> r]
Fail(s, msg) == [s EXCEPT !.err = msg]
Give(s, v) == [s EXCEPT !.v = v]
Then(s, Op(_)) == IF s.err = "" THEN Op(s) ELSE s
\* Op runs while a frame holds the values, which a collection keeps.
Held(s, vals, Op(_)) ==
  Then(s, LAMBDA t : LET u == Op([t EXCEPT !.stk = vals \o @]) IN [u EXCEPT !.stk = s.stk])
Car(s, n) == s.h[n].l
Cdr(s, n) == s.h[n].r
Is(s, n, type) == n # 0 /\ s.h[n].t = type
List(s, n) == n = 0 \/ s.h[n].t = "LIST"
Truth(s, c) == Give(s, IF c THEN s.true ELSE 0)

----------------------------------------------------------------------------
\* Memory. A pointer that mark has gone through is reversed until it comes back.
HasLeft(n) == n.t \in {"LIST", "OBJ"} /\ n.l # 0
HasRightNoValue(n) == n.t \in {"LIST", "OBJ"} /\ n.r # 0
HasRight(n) == n.t \in {"LIST", "OBJ", "SYM"} /\ n.r # 0
\* One turn of the loop, down or back up; 2^n turns, or as many as it takes.
Descend(m, n, c) ==
  IF m.this \in m.mark THEN [m EXCEPT !.up = TRUE]
  ELSE IF HasLeft(n) THEN [c EXCEPT !.left = @ \cup {m.this}, !.prev = m.this, !.this = n.l, !.h[m.this].l = m.prev]
  ELSE IF HasRight(n) THEN [c EXCEPT !.left = @ \ {m.this}, !.prev = m.this, !.this = n.r, !.h[m.this].r = m.prev]
  ELSE [c EXCEPT !.up = TRUE]
BackLeft(m) == [m EXCEPT !.prev = m.h[m.prev].l, !.this = m.prev, !.h[m.prev].l = m.this]
BackRightLost(m) == [m EXCEPT !.prev = m.h[m.prev].r, !.this = m.prev]
BackRight(m) == [m EXCEPT !.prev = m.h[m.prev].r, !.this = m.prev, !.h[m.prev].r = m.this]
ToRight(m) == [m EXCEPT !.left = @ \ {m.prev}, !.this = m.h[m.prev].r, !.up = FALSE,
                        !.h[m.prev].l = m.this, !.h[m.prev].r = m.h[m.prev].l]
Backup(m) ==
  IF m.prev \notin m.left THEN BackRight(m)
  ELSE IF HasRight(m.h[m.prev]) THEN ToRight(m) ELSE BackLeft(m)
Over(m) == m.up /\ m.prev = 0
RECURSIVE Turns(_, _)
Turns(m, n) ==
  IF Over(m) /\ m.ptrs = <<>> THEN m
  ELSE IF n > 0 THEN Turns(Turns(m, n - 1), n - 1)
  ELSE IF Over(m) THEN [m EXCEPT !.this = Head(m.ptrs), !.ptrs = Tail(m.ptrs), !.up = FALSE]
  ELSE IF m.up THEN Backup(m) ELSE Descend(m, m.h[m.this], [m EXCEPT !.mark = @ \cup {m.this}])
\* Every pointer that is not nil is gone through, one after the other.
Mark(h, ptrs) ==
  Turns([h |-> h, mark |-> {}, left |-> {}, prev |-> 0, this |-> 0, up |-> TRUE, ptrs |-> SelectSeq(ptrs, LAMBDA p : p # 0)], 16)

Addseg(s) ==
  LET n == Len(s.h)
  IN IF n + s.anodes > s.max THEN s
     ELSE [s EXCEPT !.h = @ \o [k \in 1 .. s.anodes |-> Node("FREE", 0, 0)],
                    !.free = [k \in 1 .. s.anodes |-> n + k] \o @]
Roots(s) == s.oblist \o s.stk \o <<s.env>>
Swept(s, m) ==
  [s EXCEPT !.free = SelectSeq([k \in 1 .. Len(m.h) |-> k], LAMBDA k : k \notin m.mark),
            !.h = SubSeq([k \in DOMAIN m.h |-> IF k \in m.mark THEN m.h[k] ELSE Node("FREE", 0, 0)], 1, Len(m.h))]
Collected(s, m) ==
  IF \E k \in m.mark : s.h[k].t = "FREE" THEN Fail(s, "bad node type")
  ELSE IF s.string # 0 /\ s.string \notin m.mark THEN Fail(s, "string freed while it is read")
  ELSE IF m.mark = DOMAIN m.h THEN Addseg(Swept(s, m)) ELSE Swept(s, m)
Gc(s) == Collected(s, Mark(s.h, Roots(s)))
Newnode(s, t, l, r) ==
  LET u == IF s.free = <<>> THEN Gc(s) ELSE s
  IN Then(u, LAMBDA x : IF x.free = <<>> THEN Fail(x, "insufficient node space")
                        ELSE [x EXCEPT !.free = Tail(@), !.v = Head(x.free), !.h[Head(x.free)] = Node(t, l, r)])

----------------------------------------------------------------------------
\* Reading: tokens, a blank being one. After a name or a number the reader has looked
\* at the character that follows; xlread begins by forgetting it.
Xlenter(s, name) ==
  IF name = "nil" THEN 0 ELSE s.oblist[CHOOSE k \in DOMAIN s.oblist : s.h[s.oblist[k]].l = name]
Blank == {" ", "\n"}
Getch(s) == IF s.looked THEN [s EXCEPT !.looked = FALSE]
            ELSE IF s.pos < Len(s.in) THEN [s EXCEPT !.pos = @ + 1]
            ELSE Fail(s, IF s.level > 0 THEN "input aborted" ELSE "exit")
Thisch(s) == Then(Getch(s), LAMBDA t : [t EXCEPT !.looked = TRUE])
RECURSIVE Nextch(_)
Nextch(s) == Then(Thisch(s), LAMBDA t : IF t.in[t.pos] \in Blank THEN Nextch([t EXCEPT !.looked = FALSE]) ELSE t)
Skip(s) == [s EXCEPT !.looked = FALSE]

RECURSIVE Parse(_), Plist(_, _, _)
Pquote(s) ==
  Then(Newnode(Skip(s), "LIST", Xlenter(s, "quote"), 0), LAMBDA x : LET q == x.v IN
    Held(x, <<q>>, LAMBDA y : Then(Newnode(y, "LIST", 0, 0), LAMBDA z : LET a == z.v IN
      Then(Parse([z EXCEPT !.h[q].r = a]), LAMBDA w : Give([w EXCEPT !.h[a].l = w.v], q)))))
Pnumber(s, ch) == Then(Thisch(Skip(s)), LAMBDA x : Newnode(x, "INT", Ints[ch], 0))
Pstring(s, ch) == Newnode(Skip(s), "STR", Strs[ch], 0)
Pname(s, ch) == Then(Thisch(Skip(s)), LAMBDA x : Give(x, Xlenter(x, ch)))
Parse(s) ==
  Then(Nextch(s), LAMBDA t :
    LET ch == t.in[t.pos]
    IN CASE ch = "(" -> LET u == Plist([Skip(t) EXCEPT !.level = @ + 1], 0, 0)
                        IN Then(u, LAMBDA x : [Skip(x) EXCEPT !.level = @ - 1])
         [] ch = ")" -> Fail(t, "extra right paren")
         [] ch = "." -> Fail(t, "misplaced dot")
         [] ch = "'" -> Pquote(t)
         [] ch \in DOMAIN Ints -> Pnumber(t, ch)
         [] ch \in DOMAIN Strs -> Pstring(t, ch)
         [] OTHER -> Pname(t, ch))
\* The list read so far: its first and its last node.
Plist(s, val, last) ==
  Held(s, <<val>>, LAMBDA y : Then(Nextch(y), LAMBDA t :
    CASE t.in[t.pos] = ")" -> Give(t, val)
      [] t.in[t.pos] = "." /\ last = 0 -> Fail(t, "invalid dotted pair")
      [] t.in[t.pos] = "." /\ last # 0 ->
           Then(Parse(Skip(t)), LAMBDA x : LET z == Nextch([x EXCEPT !.h[last].r = x.v]) IN
             Then(z, LAMBDA w : IF w.in[w.pos] = ")" THEN Give(w, val) ELSE Fail(w, "invalid dotted pair")))
      [] OTHER -> Then(Newnode(t, "LIST", 0, 0), LAMBDA x :
           LET n == x.v
               first == IF last = 0 THEN n ELSE val
               linked == IF last = 0 THEN x ELSE [x EXCEPT !.h[last].r = n]
           IN Held(linked, <<first>>, LAMBDA z : Then(Parse(z), LAMBDA w : Plist([w EXCEPT !.h[n].l = w.v], first, n))))))
Xlread(s) == Parse([s EXCEPT !.looked = FALSE, !.level = 0])

----------------------------------------------------------------------------
\* Bindings: a list of pairs of a symbol and the value it does not have.
Xlbind(s, sym, val) ==
  Then(Newnode(s, "LIST", 0, s.env), LAMBDA t : LET a == t.v IN
    Then(Newnode([t EXCEPT !.env = a], "LIST", sym, val), LAMBDA u : [u EXCEPT !.h[a].l = u.v]))
RECURSIVE Xlunbind(_, _)
Xlunbind(s, env) ==
  IF s.env = env THEN s
  ELSE LET bnd == Car(s, s.env)
       IN Xlunbind([s EXCEPT !.h[Car(s, bnd)].r = Cdr(s, bnd), !.env = Cdr(s, s.env)], env)
RECURSIVE Swapped(_, _, _)
Swapped(s, eptr, env) ==
  IF eptr = env THEN s
  ELSE LET bnd == Car(s, eptr)
           sym == Car(s, bnd)
       IN Swapped([s EXCEPT !.h[sym].r = Cdr(s, bnd), !.h[bnd].r = Cdr(s, sym)], Cdr(s, eptr), env)
Xlfixbindings(s, env) == Swapped(s, s.env, env)

----------------------------------------------------------------------------
\* What calls itself through a program: an evaluation, a call of a built-in function,
\* a message and a printed value.
RECURSIVE Do(_, _)
Xleval(s, e) == Do(s, <<"eval", e>>)
Subr(s, f, args) == Do(s, <<"subr", f, args>>)
Xlxsend(s, obj, msg, args) == Do(s, <<"send", obj, msg, args>>)
Xlprint(s, v) == Do(s, <<"print", v>>)
RECURSIVE Args(_, _, _, _), Body(_, _), Xlabind(_, _, _), Xlist(_, _, _, _), Cond(_, _), Append1(_, _, _, _),
  Arith(_, _, _, _, _), Logic(_, _, _), Copied(_, _, _, _), While(_, _, _), Repeat(_, _, _, _), Foreach(_, _, _, _, _),
  Xprint(_, _), Xstrcat(_, _, _)

Match(s, n, type) == CASE type = "LIST" -> List(s, n) [] type = "ANY" -> TRUE [] OTHER -> Is(s, n, type)
Xlevarg(s, args) ==
  IF args = 0 THEN Fail(s, "too few arguments")
  ELSE Held(s, <<Car(s, args)>>, LAMBDA t : Xleval(t, Car(s, args)))
Xlevmatch(s, args, type) ==
  Then(Xlevarg(s, args), LAMBDA t : IF Match(t, t.v, type) THEN t ELSE Fail(t, "bad argument type"))
\* The arguments, of these types and no more unless the types end so, each held.
Args(s, args, types, vals) ==
  IF types = <<>> THEN IF args = 0 THEN [s EXCEPT !.vs = vals] ELSE Fail(s, "too many arguments")
  ELSE IF Head(types) = "..." THEN [s EXCEPT !.vs = vals]
  ELSE Then(Xlevmatch(s, args, Head(types)),
            LAMBDA t : Args([t EXCEPT !.stk = <<t.v>> \o @], Cdr(t, args), Tail(types), Append(vals, t.v)))
With(s, args, types, Op(_, _)) ==
  LET t == Args(s, args, types, <<>>)
      u == Then(t, LAMBDA x : Op(x, x.vs))
  IN [u EXCEPT !.stk = s.stk]

\* The variable of the current object that a symbol names: the node that holds it.
RECURSIVE Down(_, _, _)
Down(s, n, num) == IF n = 0 \/ num = 0 THEN n ELSE Down(s, Cdr(s, n), num - 1)
Ivar(s, obj, num) == Down(s, Cdr(s, obj), num)
MESSAGES == 0
IVARS == 1
CVARS == 2
CVALS == 3
SUPERCLASS == 4
IVARCNT == 5
IVARTOTAL == 6
CLASSSIZE == 7
Of(s, cls, num) == Car(s, Ivar(s, cls, num))
Getivcnt(s, cls, num) == IF Of(s, cls, num) = 0 THEN 0 ELSE Car(s, Of(s, cls, num))
RECURSIVE Items(_, _)
Items(s, list) == IF list = 0 THEN <<>> ELSE <<Car(s, list)>> \o Items(s, Cdr(s, list))
\* What findvar finds: the node, 0 for none, -1 for an error.
RECURSIVE Findvar(_, _, _, _, _, _)
Findvar(s, obj, cls, sym, last, seen) ==
  IF cls = 0 THEN 0
  ELSE LET base  == last - Getivcnt(s, cls, IVARCNT)
           found == seen \/ cls = Cdr(s, s.msgclass)
           at(num) == LET items == Items(s, Of(s, cls, num))
                          ks == {k \in DOMAIN items : found /\ items[k] = sym}
                      IN IF ks = {} THEN -1 ELSE Min(ks) - 1
       IN IF base < 0 THEN -1
          ELSE IF at(IVARS) >= 0 THEN Ivar(s, obj, base + at(IVARS))
          ELSE IF at(CVARS) >= 0
          THEN Down(s, Of(s, cls, CVALS), at(CVARS))
          ELSE Findvar(s, obj, Of(s, cls, SUPERCLASS), sym, base, found)
Xlobsym(s, sym) ==
  LET obj == IF s.self = 0 THEN 0 ELSE Cdr(s, s.self)
  IN IF Is(s, obj, "OBJ") THEN Findvar(s, obj, Car(s, obj), sym, Getivcnt(s, Car(s, obj), IVARTOTAL), FALSE) ELSE 0
Evsym(s, sym) ==
  LET lptr == Xlobsym(s, sym)
  IN IF lptr = -1 THEN Fail(s, "error finding instance variable")
     ELSE Give(s, IF lptr # 0 THEN Car(s, lptr) ELSE Cdr(s, sym))
Assign(s, sym, val) ==
  LET lptr == Xlobsym(s, sym)
  IN IF lptr = -1 THEN Fail(s, "error finding instance variable")
     ELSE IF lptr # 0 THEN [s EXCEPT !.h[lptr].l = val, !.v = val] ELSE [s EXCEPT !.h[sym].r = val, !.v = val]

\* The message's entry in the class or the nearest above that has one, and that class.
RECURSIVE Findmsg(_, _, _)
Findmsg(s, cls, sym) ==
  IF cls = 0 THEN <<0, 0>>
  ELSE LET mine == SelectSeq(Items(s, Of(s, cls, MESSAGES)), LAMBDA m : m # 0 /\ Car(s, m) = sym)
       IN IF mine # <<>> THEN <<mine[1], cls>> ELSE Findmsg(s, Of(s, cls, SUPERCLASS), sym)

Body(s, code) == IF code = 0 THEN s ELSE Then(Xlevarg(s, code), LAMBDA t : Body(t, Cdr(t, code)))

\* Formals get the values of the arguments, and the locals after "/" nil; nothing is
\* visible until xlfixbindings.
RECURSIVE Locals(_, _)
Locals(s, farg) == IF farg = 0 THEN s ELSE Then(Xlbind(s, Car(s, farg), 0), LAMBDA t : Locals(t, Cdr(t, farg)))
Xlabind(s, farg, aarg) ==
  LET slash == farg # 0 /\ Car(s, farg) = s.slash
  IN IF slash
     THEN Then(Locals(s, Cdr(s, farg)), LAMBDA t : IF aarg = 0 THEN t ELSE Fail(t, "incorrect number of arguments to a function"))
     ELSE IF farg = 0 \/ aarg = 0
     THEN IF farg = aarg THEN s ELSE Fail(s, "incorrect number of arguments to a function")
     ELSE Then(Xlevarg(s, aarg), LAMBDA t : Held(t, <<t.v>>, LAMBDA u :
            Then(Xlbind(u, Car(u, farg), t.v), LAMBDA w : Xlabind(w, Cdr(w, farg), Cdr(w, aarg)))))

Evfun(s, fun, args) ==
  IF ~List(s, Car(s, fun)) THEN Fail(s, "bad formal argument list")
  ELSE LET oldenv == s.env
           t == Then(Xlabind(s, Car(s, fun), args), LAMBDA x : Body(Xlfixbindings(x, oldenv), Cdr(x, fun)))
       IN Then(t, LAMBDA x : Xlunbind(x, oldenv))
Sent(s, obj, msg, args) ==
  LET method == Cdr(s, msg[1])
      oldenv == s.env
      bound  == Then(Xlbind(s, s.self, obj), LAMBDA t : Xlbind(t, s.msgclass, msg[2]))
      run(t) == IF Is(t, method, "SUBR") THEN Subr(Xlfixbindings(t, oldenv), Car(t, method), args)
                ELSE Then(Xlabind(t, Car(t, method), args), LAMBDA x : Body(Give(Xlfixbindings(x, oldenv), 0), Cdr(x, method)))
      \* a new object is sent "isnew" with the same arguments
      isnew(t) == IF Car(t, msg[1]) # s.new \/ t.v = 0 THEN t
                  ELSE LET m == Findmsg(t, Car(t, t.v), Xlenter(t, "isnew"))
                       IN IF m[1] = 0 THEN Fail(t, "no method for the isnew message")
                          ELSE Held(t, <<t.v>>, LAMBDA x : Xlxsend(x, t.v, m, args))
  IN IF ~Is(s, method, "SUBR") /\ ~Is(s, method, "LIST") THEN Fail(s, "bad method")
     ELSE Held(bound, <<method>>, LAMBDA t : Then(run(t), LAMBDA x : isnew(Xlunbind(x, oldenv))))
Send(s, obj, cls, args) ==
  Then(Xlevmatch(s, args, "SYM"), LAMBDA t : LET m == Findmsg(t, cls, t.v) IN
    IF m[1] = 0 THEN Fail(t, "no method for this message") ELSE Xlxsend(t, obj, m, Cdr(t, args)))

Evlist(s, e) ==
  LET fun == Car(s, e)
      args == Cdr(s, e)
      call(t) == CASE t.v = 0 -> Fail(t, "null function")
                   [] Is(t, t.v, "SUBR") -> Subr(t, Car(t, t.v), args)
                   [] Is(t, t.v, "LIST") -> Evfun(t, t.v, args)
                   [] Is(t, t.v, "OBJ") -> Send(t, t.v, Car(t, t.v), args)
                   [] OTHER -> Fail(t, "bad function")
  IN Held(s, <<fun, args>>, LAMBDA t : Then(Xleval(t, fun), LAMBDA x : Held(x, <<x.v>>, call)))
Evaluated(s, e) ==
  CASE e = 0 -> Give(s, 0)
    [] Is(s, e, "LIST") -> Evlist(s, e)
    [] Is(s, e, "SYM") -> Evsym(s, e)
    [] Is(s, e, "INT") \/ Is(s, e, "STR") \/ Is(s, e, "SUBR") -> Give(s, e)
    [] OTHER -> Fail(s, "can't evaluate expression")

----------------------------------------------------------------------------
\* The built-in functions.
Wrap(x) == ((x + 32768) % 65536) - 32768
Quot(x, y) == IF x >= 0 THEN IF y > 0 THEN x \div y ELSE -(x \div (-y))
              ELSE IF y > 0 THEN -((-x) \div y) ELSE (-x) \div (-y)
Op2(f, x, y) ==
  CASE f = "+" -> Wrap(x + y) [] f = "-" -> Wrap(x - y) [] f = "*" -> Wrap(x * y) [] f = "/" -> Wrap(Quot(x, y))
    [] f = "%" -> x - y * Quot(x, y) [] f = "min" -> IF x < y THEN x ELSE y [] f = "max" -> IF x > y THEN x ELSE y
Arith(s, f, args, first, ival) ==
  IF args = 0 THEN Newnode(s, "INT", ival, 0)
  ELSE Then(Xlevmatch(s, args, "INT"), LAMBDA t :
         IF f \in {"/", "%"} /\ ~first /\ Car(t, t.v) = 0 THEN Fail(t, "division by zero")
         ELSE Arith(t, f, Cdr(t, args), FALSE, IF first THEN Car(t, t.v) ELSE Op2(f, ival, Car(t, t.v))))
Compare(f, cmp) == CASE f = "<" -> cmp < 0 [] f = "<=" -> cmp <= 0 [] f = "==" -> cmp = 0
                     [] f = "!=" -> cmp # 0 [] f = ">=" -> cmp >= 0 [] f = ">" -> cmp > 0
\* Numbers are compared by a difference that wraps, strings here only for equality,
\* and other values by their places.
Cmp(s, a, b) == IF Is(s, a, "INT") /\ Is(s, b, "INT") THEN Wrap(Car(s, a) - Car(s, b))
                ELSE IF Is(s, a, "STR") /\ Is(s, b, "STR") THEN (IF Car(s, a) = Car(s, b) THEN 0 ELSE 1)
                ELSE a - b
Logic(s, f, args) ==
  IF args = 0 THEN Truth(s, f = "&&")
  ELSE Then(Xlevarg(s, args), LAMBDA t : IF (t.v = 0) = (f = "&&") THEN Truth(t, f = "||") ELSE Logic(t, f, Cdr(t, args)))

Xlist(s, args, list, last) ==
  IF args = 0 THEN Give(s, list)
  ELSE Held(s, <<list>>, LAMBDA t : Then(Xlevarg(t, args), LAMBDA u : Held(u, <<u.v>>, LAMBDA w :
         Then(Newnode(w, "LIST", u.v, 0), LAMBDA x :
           IF last = 0 THEN Xlist(x, Cdr(x, args), x.v, x.v)
           ELSE Xlist([x EXCEPT !.h[last].r = x.v], Cdr(x, args), list, x.v)))))
\* The elements of a list after val, whose last node is last; vs is where they end.
Append1(s, list, val, last) ==
  IF list = 0 THEN [s EXCEPT !.vs = <<val, last>>]
  ELSE IF ~Is(s, list, "LIST") THEN Fail(s, "bad list")
  ELSE Held(s, <<list, val>>, LAMBDA t : Then(Newnode(t, "LIST", Car(t, list), 0), LAMBDA x :
         IF last = 0 THEN Append1(x, Cdr(x, list), x.v, x.v)
         ELSE Append1([x EXCEPT !.h[last].r = x.v], Cdr(x, list), val, x.v)))
Copied(s, args, val, last) ==
  IF args = 0 THEN Give(s, val)
  ELSE Held(s, <<val>>, LAMBDA t : Then(Xlevmatch(t, args, "LIST"), LAMBDA u :
         Then(Append1(u, u.v, val, last), LAMBDA w : Copied(w, Cdr(w, args), w.vs[1], w.vs[2]))))
RECURSIVE Reversed(_, _, _)
Reversed(s, list, val) ==
  IF list = 0 THEN Give(s, val)
  ELSE IF ~Is(s, list, "LIST") THEN Fail(s, "bad list")
  ELSE Held(s, <<list, val>>, LAMBDA t : Then(Newnode(t, "LIST", Car(t, list), val), LAMBDA x : Reversed(x, Cdr(x, list), x.v)))
Cond(s, args) ==
  IF args = 0 THEN Give(s, 0)
  ELSE IF ~List(s, Car(s, args)) THEN Fail(s, "bad argument type")
  ELSE Then(Xlevarg(s, Car(s, args)), LAMBDA t :
         IF t.v # 0 THEN Body(Give(t, 0), Cdr(t, Car(t, args))) ELSE Cond(t, Cdr(t, args)))
Xeq(s, a, b) == IF Is(s, a, "INT") /\ Is(s, b, "INT") THEN Car(s, a) = Car(s, b) ELSE a = b
\* 1 or 0; -1 when the head of an empty list, a list too, is read.
RECURSIVE Xequal(_, _, _)
Xequal(s, a, b) ==
  IF Xeq(s, a, b) THEN 1
  ELSE IF ~List(s, a) \/ ~List(s, b) THEN 0
  ELSE IF a = 0 \/ b = 0 THEN -1
  ELSE LET heads == Xequal(s, Car(s, a), Car(s, b)) IN IF heads # 1 THEN heads ELSE Xequal(s, Cdr(s, a), Cdr(s, b))
RECURSIVE Nth(_, _, _)
Nth(s, n, list) == IF n = 1 THEN Give(s, Car(s, list))
                   ELSE IF ~Is(s, Cdr(s, list), "LIST") THEN Fail(s, "invalid argument") ELSE Nth(s, n - 1, Cdr(s, list))

Testvalue(s, v) == v # 0 /\ (Is(s, v, "INT") => Car(s, v) # 0) /\ (Is(s, v, "STR") => Car(s, v) # <<>>)
While(s, args, val) ==
  Then(Xlevarg(s, args), LAMBDA t : IF ~Testvalue(t, t.v) THEN Give(t, val)
                                    ELSE Then(Body(Give(t, val), Cdr(t, args)), LAMBDA u : While(u, args, u.v)))
Repeat(s, code, cnt, val) ==
  IF cnt <= 0 THEN Give(s, val) ELSE Then(Body(Give(s, val), code), LAMBDA t : Repeat(t, code, cnt - 1, t.v))
\* The loop sets the symbol itself, and gives it back its value when it ends.
Foreach(s, sym, list, code, val) ==
  IF list = 0 THEN Give(s, val)
  ELSE IF ~Is(s, list, "LIST") THEN Fail(s, "bad node type in list")
  ELSE Then(Body([s EXCEPT !.h[sym].r = Car(s, list), !.v = val], code), LAMBDA t : Foreach(t, sym, Cdr(t, list), code, t.v))
Xif(s, args) ==
  Then(Xlevarg(s, args), LAMBDA t : LET c == t.v
                                        then == Cdr(t, args)
                                        other == Cdr(t, then)
    IN IF then = 0 THEN Fail(t, "too few arguments")
       ELSE IF ~List(t, Car(t, then)) \/ (other # 0 /\ ~List(t, Car(t, other))) THEN Fail(t, "bad argument type")
       ELSE IF other # 0 /\ Cdr(t, other) # 0 THEN Fail(t, "too many arguments")
       ELSE IF Testvalue(t, c) THEN Body(Give(t, c), Car(t, then))
       ELSE Body(Give(t, c), IF other = 0 THEN 0 ELSE Car(t, other)))
Defun(s, args) ==
  LET fargs == Cdr(s, args)
  IN IF args = 0 \/ fargs = 0 THEN Fail(s, "too few arguments")
     ELSE IF ~Is(s, Car(s, args), "SYM") \/ ~List(s, Car(s, fargs)) THEN Fail(s, "bad argument type")
     ELSE Then(Newnode(s, "LIST", Car(s, fargs), Cdr(s, fargs)), LAMBDA t :
            Then(Assign(t, Car(t, args), t.v), LAMBDA u : Give(u, Car(u, args))))
\* The reader takes its characters from the string until the expression ends.
Read(s, args) ==
  IF args = 0 THEN Xlread(s)
  ELSE With(s, args, <<"STR">>, LAMBDA t, a :
         Then(Xlread([t EXCEPT !.stk = s.stk, !.in = Car(t, a[1]), !.pos = 0, !.string = a[1]]),
              LAMBDA u : [u EXCEPT !.in = s.in, !.pos = s.pos, !.looked = FALSE, !.string = s.string]))

Put(s, x) == [s EXCEPT !.out = Append(@, x)]
RECURSIVE Printed(_, _)
Printed(s, n) ==
  Then(Xlprint(s, Car(s, n)), LAMBDA t :
    IF Cdr(t, n) = 0 THEN Put(t, ")")
    ELSE IF Is(t, Cdr(t, n), "LIST") THEN Printed(Put(t, " "), Cdr(t, n))
    ELSE Then(Xlprint(Put(t, "."), Cdr(t, n)), LAMBDA u : Put(u, ")")))
Shown(i) == CHOOSE k \in DOMAIN Ints : Ints[k] = i
Shows(s, v) ==
  CASE v = 0 -> Put(Put(s, "("), ")")
    [] Is(s, v, "LIST") -> Printed(Put(s, "("), v)
    [] Is(s, v, "SYM") -> Put(s, Car(s, v))
    [] Is(s, v, "INT") -> Put(s, IF \E k \in DOMAIN Ints : Ints[k] = Car(s, v) THEN Shown(Car(s, v)) ELSE "number")
    [] Is(s, v, "STR") -> [s EXCEPT !.out = @ \o Car(s, v)]
    [] Is(s, v, "OBJ") -> LET m == Findmsg(s, Car(s, v), Xlenter(s, "print"))
                          IN IF m[1] = 0 THEN Fail(s, "no print message") ELSE Xlxsend(s, v, m, 0)
    [] OTHER -> Put(s, "<subr>")
\* The value printed is in no frame.
Xprint(s, args) ==
  IF args = 0 THEN Give(s, 0)
  ELSE Then(Xlevarg(s, args), LAMBDA t : Then(Xlprint(t, t.v), LAMBDA u : Xprint(u, Cdr(u, args))))
\* One string at a time is added to the result.
Xstrcat(s, args, rval) ==
  IF args = 0 THEN Give(s, rval)
  ELSE Held(s, <<rval>>, LAMBDA t : Then(Xlevmatch(t, args, "STR"), LAMBDA u :
         Xstrcat([u EXCEPT !.h[rval].l = @ \o Car(u, u.v)], Cdr(u, args), rval)))
\* A part of a string; one that begins before it, or has a negative length, is outside.
Substr(str, start, forlen) ==
  LET len  == IF start + forlen > Len(str) THEN Len(str) - start + 1 ELSE forlen
  IN IF start > Len(str) THEN <<>> ELSE IF start < 1 \/ len < 0 THEN <<"outside">> ELSE SubSeq(str, start, start + len - 1)
Xsubstr(s, args) ==
  LET short == args # 0 /\ Cdr(s, args) # 0 /\ Cdr(s, Cdr(s, args)) = 0
  IN With(s, args, IF short THEN <<"STR", "INT">> ELSE <<"STR", "INT", "INT">>, LAMBDA t, a :
       LET str == Car(t, a[1])
       IN Newnode(t, "STR", Substr(str, Car(t, a[2]), IF short THEN Len(str) ELSE Car(t, a[3])), 0))

----------------------------------------------------------------------------
\* Objects (xlobj.c): a class is an object too, with a list of seven variables.
Self(s) == Cdr(s, s.self)
SetOf(s, cls, num, v) == [s EXCEPT !.h[Ivar(s, cls, num)].l = v]
SetCount(s, cls, num, n) == Then(Newnode(s, "INT", n, 0), LAMBDA t : SetOf(t, cls, num, t.v))
RECURSIVE Makelist(_, _, _)
Makelist(s, cnt, list) ==
  IF cnt <= 0 THEN Give(s, list)
  ELSE Held(s, <<list>>, LAMBDA t : Then(Newnode(t, "LIST", 0, list), LAMBDA u : Makelist(u, cnt - 1, u.v)))
NewObject(s, cls, cnt) ==
  Then(Newnode(s, "OBJ", cls, 0), LAMBDA t : LET obj == t.v IN
    Held(t, <<obj>>, LAMBDA u : Then(Makelist(u, cnt, 0), LAMBDA w : Give([w EXCEPT !.h[obj].r = w.v], obj))))
ObjectSize(s, cls) == Getivcnt(s, cls, IVARTOTAL)
Misnew(s, args) ==
  LET class(t, super) == Then(SetCount(SetOf(t, Self(t), SUPERCLASS, super), Self(t), IVARTOTAL, Getivcnt(t, super, IVARTOTAL)),
                              LAMBDA u : Give(u, Self(u)))
  IN IF args = 0 THEN class(s, s.object) ELSE With(s, args, <<"OBJ">>, LAMBDA t, a : class(t, a[1]))
Entermsg(s, cls, msg) ==
  LET mine == SelectSeq(Items(s, Of(s, cls, MESSAGES)), LAMBDA m : Car(s, m) = msg)
  IN IF mine # <<>> THEN Give(s, mine[1])
     ELSE Then(Newnode(s, "LIST", 0, Of(s, cls, MESSAGES)), LAMBDA t : LET l == t.v IN
            Then(Newnode(SetOf(t, cls, MESSAGES, l), "LIST", msg, 0), LAMBDA u : [u EXCEPT !.h[l].l = u.v]))
Answer(s, args) ==
  With(s, args, <<"SYM", "LIST", "LIST">>, LAMBDA t, a :
    Then(Entermsg(t, Self(t), a[1]), LAMBDA u : LET m == u.v IN
      Then(Newnode(u, "LIST", a[2], a[3]), LAMBDA w : Give([w EXCEPT !.h[m].r = w.v], Self(w)))))
RECURSIVE Checkvar(_, _, _)
Checkvar(s, cls, sym) ==
  cls # 0 /\ (sym \in ToSet(Items(s, Of(s, cls, IVARS)) \o Items(s, Of(s, cls, CVARS))) \/ Checkvar(s, Of(s, cls, SUPERCLASS), sym))
Defvars(s, args, num, Op(_, _)) ==
  With(s, args, <<"LIST">>, LAMBDA t, a :
    LET vars == Items(t, a[1])
    IN IF \E k \in DOMAIN vars : ~Is(t, vars[k], "SYM") THEN Fail(t, "bad variable list")
       ELSE IF \E k \in DOMAIN vars : Checkvar(t, Self(t), vars[k]) THEN Fail(t, "multiply defined variable")
       ELSE Then(Op(SetOf(t, Self(t), num, a[1]), Len(vars)), LAMBDA u : Give(u, Self(u))))
Mivars(s, args) ==
  Defvars(s, args, IVARS, LAMBDA t, n :
    LET super == Of(t, Self(t), SUPERCLASS)
        scnt  == IF super = 0 THEN 0 ELSE Getivcnt(t, super, IVARTOTAL)
    IN Then(SetCount(t, Self(t), IVARCNT, n), LAMBDA u : SetCount(u, Self(u), IVARTOTAL, scnt + n)))
Mcvars(s, args) ==
  Defvars(s, args, CVARS, LAMBDA t, n : Then(Makelist(t, n, 0), LAMBDA u : SetOf(u, Self(u), CVALS, u.v)))
\* The method looked for above the class of the object, not of the message.
Sendsuper(s, args) == Send(s, Self(s), Of(s, Car(s, Self(s)), SUPERCLASS), args)

\* The built-in functions by name: those that ask, and those that take lists apart.
Predicate(s, f, args) ==
  CASE f = "atom"    -> With(s, args, <<"ANY", "...">>, LAMBDA t, a : Truth(t, ~Is(t, a[1], "LIST")))
    [] f = "null"    -> With(s, args, <<"ANY", "...">>, LAMBDA t, a : Truth(t, a[1] = 0))
    [] f = "listp"   -> With(s, args, <<"ANY", "...">>, LAMBDA t, a : Truth(t, List(t, a[1])))
    [] f = "eq"      -> With(s, args, <<"ANY", "ANY">>, LAMBDA t, a : Truth(t, Xeq(t, a[1], a[2])))
    [] f = "equal"   -> With(s, args, <<"ANY", "ANY">>, LAMBDA t, a : LET same == Xequal(t, a[1], a[2])
                          IN IF same < 0 THEN Fail(t, "null pointer") ELSE Truth(t, same = 1))
Part(s, f, args) ==
  CASE f = "car"     -> With(s, args, <<"LIST">>, LAMBDA t, a : IF a[1] = 0 THEN Fail(t, "null list") ELSE Give(t, Car(t, a[1])))
    [] f = "cdr"     -> With(s, args, <<"LIST">>, LAMBDA t, a : IF a[1] = 0 THEN Fail(t, "null list") ELSE Give(t, Cdr(t, a[1])))
    [] f = "nth"     -> With(s, args, <<"INT", "LIST">>, LAMBDA t, a :
                          IF Car(t, a[1]) < 1 \/ a[2] = 0 THEN Fail(t, "invalid argument") ELSE Nth(t, Car(t, a[1]), a[2]))
    [] f = "length"  -> With(s, args, <<"LIST">>, LAMBDA t, a : Newnode([t EXCEPT !.stk = s.stk], "INT", Len(Items(t, a[1])), 0))
Fcons(s, args) == With(s, args, <<"ANY", "ANY">>, LAMBDA t, a : Newnode(t, "LIST", a[1], a[2]))
Set(s, args) == With(s, args, <<"SYM", "ANY">>, LAMBDA t, a : Assign(t, a[1], a[2]))
Setq(s, args) ==
  IF args = 0 THEN Fail(s, "too few arguments")
  ELSE IF ~Is(s, Car(s, args), "SYM") THEN Fail(s, "bad argument type")
  ELSE With(s, Cdr(s, args), <<"ANY">>, LAMBDA t, a : Assign(t, Car(t, args), a[1]))
Frepeat(s, args) == Then(Xlevmatch(s, args, "INT"), LAMBDA t : Repeat(t, Cdr(t, args), Car(t, t.v), 0))
Fforeach(s, args) ==
  IF args = 0 THEN Fail(s, "too few arguments")
  ELSE IF ~Is(s, Car(s, args), "SYM") THEN Fail(s, "bad argument type")
  ELSE LET old == Cdr(s, Car(s, args)) IN
    Then(Xlevmatch(s, Cdr(s, args), "LIST"), LAMBDA t : Held(t, <<old, t.v>>, LAMBDA u :
      Then(Foreach(u, Car(u, args), u.v, Cdr(u, Cdr(u, args)), 0), LAMBDA w : [w EXCEPT !.h[Car(w, args)].r = old])))
Quote(s, args) == IF args = 0 \/ Cdr(s, args) # 0 THEN Fail(s, "incorrect number of arguments") ELSE Give(s, Car(s, args))
ObjectSubr(s, f, args) ==
  IF args # 0 THEN Fail(s, "too many arguments")
  ELSE CASE f = "Object.class" -> Give(s, Car(s, Self(s)))
         [] f = "Object.isnew" -> Give(s, Self(s))
         [] f = "Object.print" -> Give(Put(s, "<object>"), Self(s))
         [] f = "Object.show"  -> Then(Xlprint(s, Cdr(s, Self(s))), LAMBDA t : Give(t, Self(t)))

Builtin(s, f, args) ==
  CASE f = "eval"    -> With(s, args, <<"ANY">>, LAMBDA t, a : Xleval(t, a[1]))
    [] f = "list"    -> Xlist(s, args, 0, 0)
    [] f = "cond"    -> Cond(s, args)
    [] f \in {"atom", "null", "listp", "eq", "equal"} -> Predicate(s, f, args)
    [] f \in {"car", "cdr", "nth", "length"} -> Part(s, f, args)
    [] f = "append"  -> Copied(s, args, 0, 0)
    [] f = "reverse" -> With(s, args, <<"LIST">>, LAMBDA t, a : Reversed(t, a[1], 0))
    [] f = "cons"    -> Fcons(s, args)
    [] f = "set"     -> Set(s, args)
    [] f = "setq"    -> Setq(s, args)
    [] f = "quote"   -> Quote(s, args)
    [] f = "if"      -> Xif(s, args)
    [] f = "while"   -> While(s, args, 0)
    [] f = "repeat"  -> Frepeat(s, args)
    [] f = "foreach" -> Fforeach(s, args)
    [] f = "defun"   -> Defun(s, args)
    [] f = "read"    -> Read(s, args)
    [] f = "gc"      -> IF args # 0 THEN Fail(s, "too many arguments") ELSE Then(Gc(s), LAMBDA t : Give(t, 0))
    [] f = "princ"   -> Xprint(s, args)
    [] f = "strcat"  -> Then(Newnode(s, "STR", <<>>, 0), LAMBDA t : Xstrcat(t, args, t.v))
    [] f = "substr"  -> Xsubstr(s, args)
    [] f = "!"       -> With(s, args, <<"ANY">>, LAMBDA t, a : Truth(t, a[1] = 0))
    [] f \in {"&&", "||"} -> Logic(s, f, args)
    [] f \in {"+", "-", "*", "/", "%", "min", "max"} -> Arith(s, f, args, TRUE, 0)
    [] f \in {"<", "<=", "==", "!=", ">=", ">"} -> With(s, args, <<"ANY", "ANY">>, LAMBDA t, a : Truth(t, Compare(f, Cmp(t, a[1], a[2]))))
    [] f = "Class.new"    -> NewObject(s, Self(s), ObjectSize(s, Self(s)))
    [] f = "Class.isnew"  -> Misnew(s, args)
    [] f = "Class.answer" -> Answer(s, args)
    [] f = "Class.ivars"  -> Mivars(s, args)
    [] f = "Class.cvars"  -> Mcvars(s, args)
    [] f = "Object.sendsuper" -> Sendsuper(s, args)
    [] f \in {"Object.class", "Object.isnew", "Object.print", "Object.show"} -> ObjectSubr(s, f, args)

Evalprint(s, e) ==
  Then(Xleval(s, e), LAMBDA z : Held(z, <<z.v>>, LAMBDA w : Then(Xlprint(w, z.v), LAMBDA q : Put(q, "\n"))))
Do(s, c) ==
  CASE c[1] = "eval"  -> Evaluated(s, c[2])
    [] c[1] = "subr"  -> Builtin(s, c[2], c[3])
    [] c[1] = "send"  -> Sent(s, c[2], c[3], c[4])
    [] c[1] = "print" -> Shows(s, c[2])
    [] c[1] = "round" -> Evalprint(s, c[2])

----------------------------------------------------------------------------
\* Every name of the program is in the object list from the start.
ClassVars == <<"messages", "ivars", "cvars", "cvals", "superclass", "ivarcnt", "ivartotal">>
ClassMsgs == <<"new", "answer", "ivars", "cvars", "isnew">>
ObjectMsgs == <<"class", "print", "show", "isnew", "sendsuper">>
Addmsg(s, cls, prefix, msg) ==
  Then(Entermsg(s, cls, Xlenter(s, msg)), LAMBDA t :
    Then(Newnode(t, "SUBR", prefix[msg], 0), LAMBDA u : [u EXCEPT !.h[t.v].r = u.v]))
Xlclass(s, name, class, object) ==
  Then(NewObject(s, class, CLASSSIZE), LAMBDA t : SetOf([t EXCEPT !.h[Xlenter(s, name)].r = t.v], t.v, SUPERCLASS, object))
Methods == [cls \in {"Class", "Object"} |-> [m \in ToSet(ClassMsgs \o ObjectMsgs) |->
  CASE cls = "Class" /\ m = "new" -> "Class.new" [] cls = "Class" /\ m = "answer" -> "Class.answer"
    [] cls = "Class" /\ m = "ivars" -> "Class.ivars" [] cls = "Class" /\ m = "cvars" -> "Class.cvars"
    [] cls = "Class" /\ m = "isnew" -> "Class.isnew" [] m = "class" -> "Object.class" [] m = "print" -> "Object.print"
    [] m = "show" -> "Object.show" [] m = "isnew" -> "Object.isnew" [] m = "sendsuper" -> "Object.sendsuper"
    [] OTHER -> ""]]
Ivarnamed(s, class, var) == Then(Newnode(s, "LIST", Xlenter(s, var), Of(s, class, IVARS)), LAMBDA t : SetOf(t, class, IVARS, t.v))
RECURSIVE Ivarsnamed(_, _, _), Addmsgs(_, _, _, _)
Ivarsnamed(s, class, vars) == IF vars = <<>> THEN s ELSE Ivarnamed(Ivarsnamed(s, class, Tail(vars)), class, Head(vars))
Addmsgs(s, cls, prefix, msgs) ==
  IF msgs = <<>> THEN s ELSE Then(Addmsg(s, cls, prefix, Head(msgs)), LAMBDA t : Addmsgs(t, cls, prefix, Tail(msgs)))
Xloinit(s) ==
  Then(Xlclass(s, "Class", 0, 0), LAMBDA a : LET class == a.v IN
    Then(Xlclass([a EXCEPT !.h[class].l = class], "Object", class, 0), LAMBDA b : LET object == b.v IN
      Then(SetCount(SetCount(SetOf(b, class, SUPERCLASS, object), class, IVARCNT, CLASSSIZE), class, IVARTOTAL, CLASSSIZE), LAMBDA c :
        Then(Addmsgs(Addmsgs(Ivarsnamed(c, class, ClassVars), class, Methods["Class"], ClassMsgs),
                     object, Methods["Object"], ObjectMsgs), LAMBDA d :
          [d EXCEPT !.object = object, !.self = Xlenter(d, "self"), !.msgclass = Xlenter(d, "msgclass"), !.new = Xlenter(d, "new")]))))
ObjNames == ClassVars \o <<"new", "answer", "isnew", "class", "print", "show", "sendsuper", "self", "msgclass", "Class", "Object">>

\* The names in a text, in their order, and those in its strings.
Blanks == {" ", "\n", "(", ")", ".", "'", "nil"}
Names(in) ==
  LET words == <<"t", "quote">> \o (IF "Class" \in ToSet(in) THEN ObjNames ELSE <<>>)
               \o in \o FlattenSeq(SetToSeq({Strs[w] : w \in DOMAIN Strs \cap ToSet(in)}))
      ks    == SelectSeq([k \in DOMAIN words |-> k], LAMBDA k : words[k] \notin Blanks \cup DOMAIN Ints \cup DOMAIN Strs
                                                             /\ \A j \in 1 .. k - 1 : words[j] # words[k])
  IN [n \in DOMAIN ks |-> words[ks[n]]]
\* The nodes that are free at the start are given back.
Limited(s, anodes, max) == [s EXCEPT !.h = SubSeq(@, 1, Len(@) - Len(s.free)), !.free = <<>>, !.anodes = anodes, !.max = max]
\* A number is kept inside its node, and so is the name of a function.
Start(in, anodes, max) ==
  LET syms == Names(in)
      n    == Len(syms)
      h    == [k \in 1 .. n |-> Node("SYM", syms[k], IF syms[k] = "t" THEN k ELSE IF syms[k] \in Subrs THEN n + k ELSE 0)]
              \o [k \in 1 .. n |-> IF syms[k] \in Subrs THEN Node("SUBR", syms[k], 0) ELSE Node("FREE", 0, 0)]
      at(name) == LET ks == {k \in 1 .. n : syms[k] = name} IN IF ks = {} THEN 0 ELSE Min(ks)
      s    == [h |-> h, free |-> <<>>, stk |-> <<>>, env |-> 0, in |-> in, pos |-> 0, looked |-> FALSE, level |-> 0,
               string |-> 0, out |-> <<>>, err |-> "", v |-> 0, vs |-> <<>>, anodes |-> 200, max |-> 2000,
               oblist |-> [k \in 1 .. n |-> k], true |-> at("t"), slash |-> at("/"), self |-> 0, msgclass |-> 0, new |-> 0, object |-> 0]
  IN Limited(IF at("Class") = 0 THEN s ELSE Xloinit(s), anodes, max)

\* An error unbinds everything, and the rest of the line is dropped.
Xlfail(s, tty) ==
  LET t == Xlunbind(s, 0)
      back == IF t.string # 0 THEN [t EXCEPT !.in = tty.in, !.pos = tty.pos, !.string = 0] ELSE t
      ends == {k \in back.pos + 1 .. Len(back.in) : back.in[k] = "\n"}
      fresh == back.pos = 0 \/ back.in[back.pos] = "\n"
  IN [back EXCEPT !.pos = IF fresh THEN @ ELSE IF ends = {} THEN Len(back.in) ELSE Min(ends), !.err = "", !.out = @ \o <<"error", s.err, "\n">>]
Fatal == {"exit", "bad node type", "string freed while it is read", "division by zero", "null pointer"}
\* What was read, in r, evaluated and printed.
Round(r) == Then(r, LAMBDA x : Held(x, <<x.v>>, LAMBDA y : Do(y, <<"round", y.v>>)))
After(t, r) == IF t.err = "" THEN t ELSE Xlfail(t, r)
RECURSIVE Session(_)
Rest(t, r) == IF t.err \in Fatal THEN t ELSE Session(After(t, r))
Ending(r) == Rest(Round(r), r)
Session(s) == Ending(Xlread([s EXCEPT !.stk = <<>>, !.env = 0]))
Main(in, anodes, max) == Session(Start(in, anodes, max))
=============================================================================
