------------------------------ MODULE Sokoban ------------------------------
(***************************************************************************)
(* sokoban.c: the map and the counts that go with it, the last step and    *)
(* what undoes it, the position that c keeps and r goes back to, and the   *)
(* keys, some of which are several characters.                             *)
(***************************************************************************)
EXTENDS Integers, Sequences, FiniteSets, FiniteSetsExt, Folds, SequencesExt

CONSTANTS
  Screens,              \* the file of levels, cut at its form feeds
  MAX_ROWS, MAX_COLS,
  KeyCodes,             \* the characters the console gives
  MaxMoves              \* bound: no more keys that move after so many moves

VARIABLES
  now,       \* the map, the player's place, and the counts of moves, pushes, packets saved
  screen,    \* rows, columns and packets of the level
  level, last, undolock, tmp, state, phase

vars == <<now, screen, level, last, undolock, tmp, state, phase>>

Player == "@"
PlayerStore == "+"
Store == "."
Packet == "$"
Save == "*"
Ground == " "
Wall == "#"
End == "end"

----------------------------------------------------------------------------
\* Reading a level, over what the map held: rows and columns from 0.
Blank == [i \in 0 .. MAX_ROWS |-> [j \in 0 .. MAX_COLS |-> End]]
PutCell(r, c) ==
  LET t == [r EXCEPT !.map[r.rows][r.j] = c, !.j = @ + 1]
  IN IF t.j > MAX_COLS THEN [t EXCEPT !.ret = "too many columns"] ELSE t
ReadChar(r, c) ==
  CASE r.ret # "" -> r
    [] c = "\n" ->
         LET t == [r EXCEPT !.map[r.rows][r.j] = End, !.rows = @ + 1]
         IN IF t.rows > MAX_ROWS THEN [t EXCEPT !.ret = "too many rows"]
            ELSE [t EXCEPT !.cols = IF r.j > @ THEN r.j ELSE @, !.j = 0]
    [] c \in {Player, PlayerStore} ->
         IF r.ppos # <<-1, -1>> THEN [r EXCEPT !.ret = "two players"]
         ELSE PutCell([r EXCEPT !.ppos = <<r.rows, r.j>>], c)
    [] c \in {Save, Packet, Wall, Store, Ground} ->
         PutCell([r EXCEPT !.savepack = IF c = Save THEN @ + 1 ELSE @,
                           !.packets = IF c \in {Save, Packet} THEN @ + 1 ELSE @], c)
    [] OTHER -> [r EXCEPT !.ret = "illegal character"]
Readscreen(map, n) ==
  LET r == FoldLeft(ReadChar, [map |-> map, rows |-> 0, j |-> 0, cols |-> 0, ppos |-> <<-1, -1>>,
                               savepack |-> 0, packets |-> 0, ret |-> ""],
                    IF n \in DOMAIN Screens THEN Screens[n] ELSE <<>>)
  IN IF r.ret = "" /\ r.ppos = <<-1, -1>> THEN [r EXCEPT !.ret = "no player"] ELSE r
Position(r) == [map |-> r.map, ppos |-> r.ppos, moves |-> 0, pushes |-> 0, savepack |-> r.savepack]
Sizes(r) == [rows |-> r.rows, cols |-> r.cols, packets |-> r.packets]

----------------------------------------------------------------------------
\* A step: what it would be, and what it does.
Cell(n, p) == n.map[p[1]][p[2]]
Delta(dir) == CASE dir = "k" -> <<-1, 0>> [] dir = "j" -> <<1, 0>> [] dir = "h" -> <<0, -1>> [] dir = "l" -> <<0, 1>>
Plus(p, d, n) == <<p[1] + n * d[1], p[2] + n * d[2]>>
Testmove(n, dir, stop) ==
  LET tc == Cell(n, Plus(n.ppos, Delta(dir), 1))
      beyond == Cell(n, Plus(n.ppos, Delta(dir), 2))
  IN CASE tc \in {Packet, Save} /\ stop -> ""
       [] tc \in {Packet, Save} /\ ~stop ->
            (CASE beyond = Ground -> (IF tc = Save THEN "UNSAVE" ELSE "PUSH")
               [] beyond = Store -> (IF tc = Save THEN "STOREPUSH" ELSE "SAVE")
               [] OTHER -> "")
       [] tc = Ground -> "MOVE"
       [] tc = Store -> "STOREMOVE"
       [] OTHER -> ""
Put(map, p, c) == [map EXCEPT ![p[1]][p[2]] = c]
SavedBy(action) == CASE action = "SAVE" -> 1 [] action = "UNSAVE" -> -1 [] OTHER -> 0
Pushes(action) == IF action \in {"PUSH", "UNSAVE", "SAVE", "STOREPUSH"} THEN 1 ELSE 0
Domove(n, dir, action) ==
  LET p1 == Plus(n.ppos, Delta(dir), 1)
      m1 == Put(n.map, p1, IF action \in {"STOREMOVE", "UNSAVE", "STOREPUSH"} THEN PlayerStore ELSE Player)
      m2 == IF Pushes(action) = 0 THEN m1 ELSE Put(m1, Plus(p1, Delta(dir), 1), IF action \in {"SAVE", "STOREPUSH"} THEN Save ELSE Packet)
  IN [map |-> Put(m2, n.ppos, IF Cell(n, n.ppos) = Player THEN Ground ELSE Store), ppos |-> p1, moves |-> n.moves + 1,
      pushes |-> n.pushes + Pushes(action), savepack |-> n.savepack + SavedBy(action)]
\* The step and the cells it may change, as they were.
Remember(n, dir, action) ==
  [action |-> action, ppos |-> n.ppos, p1 |-> Plus(n.ppos, Delta(dir), 1), p2 |-> Plus(n.ppos, Delta(dir), 2),
   lppc |-> Cell(n, n.ppos), ltp1c |-> Cell(n, Plus(n.ppos, Delta(dir), 1)), ltp2c |-> Cell(n, Plus(n.ppos, Delta(dir), 2))]
Undomove(n, l) ==
  [map |-> Put(Put(Put(n.map, l.ppos, l.lppc), l.p1, l.ltp1c), l.p2, l.ltp2c), ppos |-> l.ppos,
   moves |-> n.moves - 1, pushes |-> n.pushes - Pushes(l.action), savepack |-> n.savepack - SavedBy(l.action)]
\* A key goes on while it can, unless it is a small letter or the level is done.
RECURSIVE Run(_, _, _, _)
Run(n, l, key, started) ==
  LET action == Testmove(n, key.dir, key.stop)
      t == Domove(n, key.dir, action)
  IN IF action = "" THEN [now |-> n, last |-> l, moved |-> started]
     ELSE IF key.once \/ t.savepack = screen.packets THEN [now |-> t, last |-> Remember(n, key.dir, action), moved |-> TRUE]
     ELSE Run(t, Remember(n, key.dir, action), key, TRUE)

----------------------------------------------------------------------------
\* Keys: state is 1 after escape, 2 after escape and a bracket, 3 after a zero.
Arrow3 == [c \in {"M", "K", "P", "H"} |-> CASE c = "M" -> "l" [] c = "K" -> "h" [] c = "P" -> "j" [] c = "H" -> "k"]
Arrow2 == [c \in {"C", "D", "B", "A"} |-> CASE c = "C" -> "l" [] c = "D" -> "h" [] c = "B" -> "j" [] c = "A" -> "k"]
Other == [c \in {"8", "2", "4", "6", "5", "^E", "^S", "^D", "^X"} |->
  CASE c \in {"8", "^E"} -> "k" [] c \in {"2", "^X"} -> "j" [] c \in {"4", "^S"} -> "h" [] c \in {"6", "^D"} -> "l" [] c = "5" -> "u"]
Prefix(c) == c \in {"ESC", "NUL"} \/ (c = "[" /\ state = 1)
Command(c) ==
  CASE state = 3 -> (IF c \in DOMAIN Arrow3 THEN Arrow3[c] ELSE "")
    [] state = 2 \/ (state = 1 /\ c \in DOMAIN Arrow2) -> (IF c \in DOMAIN Arrow2 THEN Arrow2[c] ELSE "")
    [] OTHER -> (IF c \in DOMAIN Other THEN Other[c] ELSE c)
MoveKey(dir, once, stop) == [dir |-> dir, once |-> once, stop |-> stop]
MoveKeys == [c \in {"h", "j", "k", "l", "H", "J", "K", "L", "^H", "^J", "^K", "^L"} |->
  CASE c \in {"h", "j", "k", "l"} -> MoveKey(c, TRUE, FALSE)
    [] c = "H" -> MoveKey("h", FALSE, FALSE) [] c = "J" -> MoveKey("j", FALSE, FALSE)
    [] c = "K" -> MoveKey("k", FALSE, FALSE) [] c = "L" -> MoveKey("l", FALSE, FALSE)
    [] c = "^H" -> MoveKey("h", FALSE, TRUE) [] c = "^J" -> MoveKey("j", FALSE, TRUE)
    [] c = "^K" -> MoveKey("k", FALSE, TRUE) [] c = "^L" -> MoveKey("l", FALSE, TRUE)]

After(n) == phase' = IF n.savepack = screen.packets THEN "won" ELSE "play"
Same == UNCHANGED <<screen, level>>
Playing(c, cmd) == phase = "play" /\ c \in KeyCodes /\ ~Prefix(c) /\ Command(c) = cmd

Prefixed ==
  \E c \in KeyCodes :
    /\ phase = "play" /\ Prefix(c)
    /\ state' = CASE c = "ESC" -> 1 [] c = "NUL" -> 3 [] OTHER -> 2
    /\ UNCHANGED <<now, last, undolock, tmp, phase>> /\ Same
Ignored == \* an unknown arrow; any other key only helps
  \E c \in KeyCodes :
    /\ phase = "play" /\ ~Prefix(c) /\ Command(c) \notin DOMAIN MoveKeys \cup {"q", "c", "r", "U", "u"}
    /\ state' = 0 /\ UNCHANGED <<now, last, undolock, tmp>> /\ Same
    /\ IF Command(c) = "" THEN UNCHANGED phase ELSE After(now)
Quit == \E c \in KeyCodes : Playing(c, "q") /\ state' = 0 /\ phase' = "over" /\ UNCHANGED <<now, last, undolock, tmp>> /\ Same
Tmpsave == \E c \in KeyCodes : Playing(c, "c") /\ state' = 0 /\ tmp' = now /\ After(now) /\ UNCHANGED <<now, last, undolock>> /\ Same
TmpresetUnlocked == \E c \in KeyCodes : Playing(c, "r") /\ state' = 0 /\ now' = tmp /\ After(tmp) /\ UNCHANGED <<undolock, last, tmp>> /\ Same
Tmpreset == \E c \in KeyCodes : Playing(c, "r") /\ state' = 0 /\ now' = tmp /\ undolock' = TRUE /\ After(tmp) /\ UNCHANGED <<last, tmp>> /\ Same
Again ==
  \E c \in {c \in KeyCodes : Playing(c, "U")} : \E r \in {Readscreen(now.map, level)} :
    /\ r.ret = "" /\ state' = 0
    /\ now' = Position(r) /\ screen' = Sizes(r) /\ undolock' = TRUE
    /\ phase' = IF r.savepack = r.packets THEN "won" ELSE "play"
    /\ UNCHANGED <<level, last, tmp>>
Undo ==
  \E c \in KeyCodes :
    /\ Playing(c, "u") /\ state' = 0
    /\ now' = IF undolock THEN now ELSE Undomove(now, last)
    /\ undolock' = TRUE /\ After(now') /\ UNCHANGED <<last, tmp>> /\ Same
MoveCodes == {c \in KeyCodes : phase = "play" /\ ~Prefix(c) /\ Command(c) \in DOMAIN MoveKeys}
Move ==
  \E c \in MoveCodes : \E r \in {Run(now, last, MoveKeys[Command(c)], FALSE)} :
    /\ now.moves < MaxMoves
    /\ now' = r.now /\ last' = r.last /\ undolock' = (undolock /\ ~r.moved) /\ state' = 0
    /\ After(r.now) /\ UNCHANGED tmp /\ Same
\* The game ends with the levels: after the last there is no player.
NextLevel ==
  phase = "won" /\ \E r \in {Readscreen(now.map, level + 1)} :
    /\ level' = level + 1
    /\ now' = Position(r) /\ screen' = Sizes(r)
    /\ phase' = IF r.ret = "" THEN "play" ELSE "over"
    /\ tmp' = (IF r.ret = "" THEN Position(r) ELSE tmp) /\ undolock' = TRUE /\ state' = 0 /\ UNCHANGED last

Init ==
  \E r \in {Readscreen(Blank, 1)} :
    /\ level = 1 /\ now = Position(r) /\ screen = Sizes(r) /\ last = [action |-> ""] /\ undolock = TRUE
    /\ tmp = Position(r) /\ state = 0 /\ phase = IF r.ret = "" THEN "play" ELSE "over"
Next == Prefixed \/ Ignored \/ Quit \/ Tmpsave \/ Tmpreset \/ Again \/ Undo \/ Move \/ NextLevel
Spec == Init /\ [][Next]_vars

----------------------------------------------------------------------------
Cells == (0 .. MAX_ROWS) \X (0 .. MAX_COLS)
Width(row) == Min({j \in 0 .. MAX_COLS : row[j] = End} \cup {MAX_COLS + 1})
Visible(n) == UNION {{i} \X (0 .. Width(n.map[i]) - 1) : i \in 0 .. screen.rows - 1}
Holding(n, kinds) == {p \in Visible(n) : Cell(n, p) \in kinds}
(* The counts on the screen are those of the map, whatever has been undone *)
(* or kept: the packets, those on a store, and the one player.             *)
CountsRight ==
  phase # "over" =>
    /\ Holding(now, {Player, PlayerStore}) = {now.ppos}
    /\ Cardinality(Holding(now, {Save})) = now.savepack
    /\ Cardinality(Holding(now, {Save, Packet})) = screen.packets
    /\ 0 <= now.pushes /\ now.pushes <= now.moves

\* The position that the rules speak of.
Place(n) == [player |-> n.ppos, packets |-> Holding(n, {Packet, Save})]
Drawn == [n \in DOMAIN Screens |-> Readscreen(Blank, n)]
CellsOf(kinds) == [n \in DOMAIN Screens |-> {p \in Cells : p[1] < Drawn[n].rows /\ Cell(Drawn[n], p) \in kinds}]
Floors == CellsOf({Player, PlayerStore, Store, Packet, Save, Ground})
AllStores == CellsOf({Store, PlayerStore, Save})
AllPackets == CellsOf({Packet, Save})
At(f, n) == IF n \in DOMAIN f THEN f[n] ELSE {}
FloorOf(n) == At(Floors, n)
StoresOf(n) == At(AllStores, n)
BeginOf(n) == [player |-> IF n \in DOMAIN Screens THEN Drawn[n].ppos ELSE <<-1, -1>>, packets |-> At(AllPackets, n)]
Nowhere == [player |-> <<-1, -1>>, packets |-> {}]
(* What is played is the game: a step is one the rules allow, undo gives   *)
(* back the position before the last one, and a level is left when it is   *)
(* solved and never otherwise.                                             *)
Rules == INSTANCE SokobanRules WITH
  level <- IF phase = "over" THEN 0 ELSE level,
  at    <- IF phase = "over" THEN Nowhere ELSE Place(now),
  prev  <- IF phase = "over" \/ undolock THEN Nowhere ELSE Place(Undomove(now, last)),
  kept  <- IF phase = "over" THEN Nowhere ELSE Place(tmp),
  Floor <- FloorOf, Stores <- StoresOf, Begin <- BeginOf, Far <- MAX_COLS
PlaysTheGame == Rules!Spec
=============================================================================
