------------------------- MODULE MCBridgeController -------------------------
\* Two windows; the first can have two calls under way at a time.
EXTENDS BridgeController

CONSTANTS left, right

MCWindowOf == [c \in Calls |-> IF c = 3 THEN right ELSE left]
=============================================================================
