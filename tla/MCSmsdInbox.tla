----------------------------- MODULE MCSmsdInbox -----------------------------
EXTENDS SmsdInbox

CONSTANTS long, twin, spam

MCLength == [m \in Messages |-> CASE m = long -> 3 [] m = twin -> 2 [] OTHER -> 1]
\* The two longer messages have different senders and the same id.
MCUdhId == [m \in Messages |-> IF m = spam THEN 2 ELSE 1]
=============================================================================
