---------------------------- MODULE MCKermitLink ----------------------------
(***************************************************************************)
(* Instances of KermitLink for TLC.                                        *)
(***************************************************************************)
EXTENDS KermitLink

\* Two files of two and one chunks: nine packets, once and a half round six numbers.
TwoFiles == <<2, 1>>
\* Two files of one chunk each.
ShortFiles == <<1, 1>>
Both == {"snd", "rcv"}
=============================================================================
