---------------------------- MODULE MCSmsdOutbox ----------------------------
EXTENDS SmsdOutbox

CONSTANTS d1, d2, long, short

MCLength == [m \in Messages |-> IF m = long THEN 2 ELSE 1]
=============================================================================
