---------------------------- MODULE KermitTransfer ----------------------------
(***************************************************************************)
(* What a Kermit transfer promises (c86ker.a86: "Error-free Reciprocal     *)
(* Micro Interconnect over TTY-lines"): the files arrive whole, each chunk *)
(* once, in the order of the send list, and then both ends report          *)
(* completion, the receiver first.  KermitLink is shown to implement this  *)
(* where the code does (see link_forward in README).                       *)
(***************************************************************************)
EXTENDS Integers, Sequences

CONSTANT FileLen   \* number of chunks of each file

VARIABLES disk, done

Files == DOMAIN FileLen

Init ==
  /\ disk = [f \in Files |-> [status |-> "absent", chunks |-> << >>]]
  /\ done = {}

Create(f) ==
  /\ disk[f].status = "absent"
  /\ \A g \in Files : g < f => disk[g].status = "kept"
  /\ disk' = [disk EXCEPT ![f].status = "open"]
  /\ UNCHANGED done

Write(f) ==
  /\ disk[f].status = "open" /\ Len(disk[f].chunks) < FileLen[f]
  /\ disk' = [disk EXCEPT ![f].chunks = Append(@, <<f, Len(@) + 1>>)]
  /\ UNCHANGED done

Close(f) ==
  /\ disk[f].status = "open" /\ Len(disk[f].chunks) = FileLen[f]
  /\ disk' = [disk EXCEPT ![f].status = "kept"]
  /\ UNCHANGED done

Complete(e) ==
  /\ \A f \in Files : disk[f].status = "kept"
  /\ e \notin done
  /\ e = "snd" => "rcv" \in done
  /\ done' = done \cup {e}
  /\ UNCHANGED disk

Next ==
  \/ \E f \in Files : Create(f) \/ Write(f) \/ Close(f)
  \/ \E e \in {"snd", "rcv"} : Complete(e)

vars == <<disk, done>>

Spec == Init /\ [][Next]_vars /\ WF_vars(Next)
===============================================================================
