\* A squeezed file with sixteen bits set in a row.
INIT Skewed
NEXT Next
INVARIANT SqueezeRoundTrip
CHECK_DEADLOCK FALSE
