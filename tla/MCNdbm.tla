-------------------------------- MODULE MCNdbm --------------------------------
(***************************************************************************)
(* Instances of Ndbm for TLC.  Two pairs of the value "small" fit on a     *)
(* page, one of "large" fits only alone, "huge" never does.                *)
(***************************************************************************)
EXTENDS Ndbm

CONSTANTS k1, k2, k3, small, large, huge

\* k1 and k2 part at the second bit: the store of one may split twice, leaving
\* a half empty.
ScanHash == (k1 :> 1) @@ (k2 :> 3) @@ (k3 :> 0)
\* k3 parts from the other two at the second bit.
CrashHash == (k1 :> 1) @@ (k2 :> 5) @@ (k3 :> 3)
SizeOf(v) == CASE v = small -> 500 [] v = large -> 520 [] v = huge -> 1018
MCSize == [p \in Keys \X Vals |-> SizeOf(p[2])]

\* One full page, not yet split.
OnePage == <<<<<<k1, small>>, <<k2, small>>>>>>
\* All the pairs of the second block.
FullPage == << << >>, <<<<k1, small>>, <<k3, small>>>>>>
OneBit == {0}
===============================================================================
