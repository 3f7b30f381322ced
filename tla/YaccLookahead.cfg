\* The goto of a state to itself ends the spread of its lookaheads.
INIT Looped
NEXT Next
INVARIANT ParsesTheLanguage
CHECK_DEADLOCK FALSE
