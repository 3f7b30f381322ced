----------------------------- MODULE MCKermitFile -----------------------------
(***************************************************************************)
(* Instances of KermitFile for TLC.                                        *)
(***************************************************************************)
EXTENDS KermitFile

\* ^A, ^Z, '#', '&', A, DEL, and ^Z, '#' and '&' with the eighth bit.
SomeChars == {1, 26, 35, 38, 65, 127, 154, 163, 166}
===============================================================================
