---------------------------- MODULE SokobanRules ----------------------------
(***************************************************************************)
(* The rules of the game: a player walks and pushes one packet at a time   *)
(* over the floor, may take back the last step, go back to the position    *)
(* that was kept, or start the level again; the next level comes when      *)
(* every packet is on a store.                                             *)
(***************************************************************************)
EXTENDS Integers, Sequences

CONSTANTS
  Floor(_), Stores(_), Begin(_),  \* of a level: cells without a wall, stores, position
  Far                             \* no run has more steps
VARIABLES level, at, prev, kept

vars == <<level, at, prev, kept>>
None == [player |-> <<-1, -1>>, packets |-> {}]
Dirs == {<<0, 1>>, <<0, -1>>, <<1, 0>>, <<-1, 0>>}
Shift(cell, d) == <<cell[1] + d[1], cell[2] + d[2]>>
Can(p, d) ==
  LET to == Shift(p.player, d)
  IN to \in Floor(level) /\ (to \in p.packets => Shift(to, d) \in Floor(level) \ p.packets)
Step(p, d) ==
  LET to == Shift(p.player, d)
  IN [player |-> to, packets |-> {IF b = to THEN Shift(to, d) ELSE b : b \in p.packets}]
\* The positions of a run in one direction, as far as it can go.
RECURSIVE Way(_, _, _)
Way(p, d, n) == <<p>> \o (IF n > 0 /\ Can(p, d) THEN Way(Step(p, d), d, n - 1) ELSE <<>>)

Enter(n) == level' = n /\ at' = Begin(n) /\ prev' = None /\ kept' = Begin(n)
Walk ==
  \E to \in {at'}, from \in {prev'}, way \in {Way(at, d, Far) : d \in Dirs} :
    /\ \E n \in 2 .. Len(way) : to = way[n] /\ from = way[n - 1]
    /\ UNCHANGED <<level, kept>>
Undo == prev # None /\ at' = prev /\ prev' = None /\ UNCHANGED <<level, kept>>
Keep == kept' = at /\ UNCHANGED <<level, at, prev>>
Return == at' = kept /\ prev' = None /\ UNCHANGED <<level, kept>>
Restart == at' = Begin(level) /\ prev' = None /\ UNCHANGED <<level, kept>>
Win == at.packets \subseteq Stores(level) /\ Enter(level + 1)
End == level' = 0 /\ at' = None /\ prev' = None /\ kept' = None

Init == level = 1 /\ at = Begin(1) /\ prev = None /\ kept = Begin(1)
Next == Walk \/ Undo \/ Keep \/ Return \/ Restart \/ Win \/ End
Spec == Init /\ [][Next]_vars
=============================================================================
