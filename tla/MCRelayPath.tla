---------------------------- MODULE MCRelayPath -----------------------------
\* One phone that sends two requests, so that one can wait behind the other,
\* and three connections: one can replace another while the end of a third is
\* left open by a break.
EXTENDS RelayPath

CONSTANT p1

MCSends == [p \in Phones |-> 2]
=============================================================================
