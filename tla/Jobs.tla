-------------------------------- MODULE Jobs --------------------------------
(***************************************************************************)
(* A program without interaction is checked as a job: its input is chosen, *)
(* one step computes its output, and the properties compare the two.       *)
(***************************************************************************)
EXTENDS Integers, Sequences

VARIABLES job, done, out

Chosen(jobs) == job \in jobs /\ done = FALSE /\ out = <<>>
Answer(v) == ~done /\ done' = TRUE /\ out' = v /\ UNCHANGED job
Ended(prog) == done /\ job.prog = prog

\* The sequences over S of up to n elements.
UpTo(S, n) == {SubSeq(f, 1, Len(f)) : f \in UNION {[1 .. k -> S] : k \in 0 .. n}}
=============================================================================
