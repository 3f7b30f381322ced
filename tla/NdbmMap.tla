------------------------------- MODULE NdbmMap -------------------------------
(***************************************************************************)
(* What the ndbm library promises a program: a map from keys to values     *)
(* that outlives the open data base.  Ndbm is shown to implement it.       *)
(***************************************************************************)
CONSTANTS Keys, Vals, NoVal, TooBig(_, _)

VARIABLES
  map,   \* the value of each key, NoVal where there is none
  ret,   \* what the last call returned
  bad,   \* the handle is in error and refuses calls until it is closed
  ro     \* the handle only reads, and refuses changes

vars == <<map, ret, bad, ro>>

Init == map \in [Keys -> Vals \cup {NoVal}] /\ ret = "none" /\ bad = FALSE /\ ro = FALSE

Keep == UNCHANGED <<map, bad, ro>>

Fetch(k) == ~bad /\ ret' = map[k] /\ Keep

Delete(k) ==
  /\ ~bad /\ ~ro
  /\ ret' = IF map[k] = NoVal THEN "fail" ELSE "ok"
  /\ map' = [map EXCEPT ![k] = NoVal]
  /\ UNCHANGED <<bad, ro>>

Set(k, v) == ret' = "ok" /\ UNCHANGED <<bad, ro>> /\ map' = [map EXCEPT ![k] = v]

Refuse == ret' = "fail" /\ bad' = TRUE /\ UNCHANGED <<ro, map>>

\* DBM_INSERT leaves an existing value, DBM_REPLACE does not; a pair too large
\* for a page is refused.
Insert(k, v) ==
  /\ ~bad /\ ~ro
  /\ \/ ret' = "exists" /\ map[k] # NoVal /\ Keep
     \/ map[k] = NoVal /\ IF TooBig(k, v) THEN Refuse ELSE Set(k, v)

Replace(k, v) == ~bad /\ ~ro /\ IF TooBig(k, v) THEN Refuse ELSE Set(k, v)

RefuseAll == bad /\ Refuse

RefuseChange == ro /\ ret' = "fail" /\ Keep

\* Opening, closing, scanning and the steps inside a call change nothing.
Other == ret' = "none" /\ bad' \in {bad, FALSE} /\ ro' \in BOOLEAN /\ UNCHANGED map

Next ==
  \/ Other \/ RefuseAll \/ RefuseChange
  \/ \E k \in Keys : Fetch(k) \/ Delete(k)
  \/ \E k \in Keys, v \in Vals : Insert(k, v) \/ Replace(k, v)

Spec == Init /\ [][Next]_vars
==============================================================================
