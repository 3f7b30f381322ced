----------------------------- MODULE MCPrograms -----------------------------
(***************************************************************************)
(* The programs that read, compute and write, for TLC: one job is chosen,  *)
(* carried out and judged.                                                 *)
(***************************************************************************)
EXTENDS TextSpec, PatternSpec, NumberSpec, XlispSpec, YaccSpec, RatforSpec, TinybasSpec

Init == \/ Chosen(TextJobs) \/ Chosen(GrepJobs) \/ Chosen(KeysJobs) \/ Chosen(DcJobs) \/ Chosen(RegexJobs)
        \/ Chosen(DiffJobs) \/ Chosen(SqueezeJobs) \/ Chosen(XlispJobs) \/ Chosen(YaccJobs)
        \/ Chosen(RatforJobs) \/ Chosen(BasicJobs)
Next == TextRuns \/ GrepRuns \/ KeysRuns \/ DcRuns \/ RegexRuns \/ DiffRuns \/ SqueezeRuns
          \/ XlispRuns \/ YaccRuns \/ RatforRuns \/ BasicRuns

\* Files in which a character of the squeezed file reads as its end.
Skewed == Chosen(SkewedJobs)
\* A grammar in which a state leads to itself before its lookahead is known.
Looped == Chosen(EnclosedJobs)
=============================================================================
