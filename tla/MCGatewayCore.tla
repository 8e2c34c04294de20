--------------------------- MODULE MCGatewayCore ---------------------------
\* GatewayCore on small instances: requests 1 .. n, the odd ones from socket
\* "a" and the even ones from socket "b"; the sessions are shared out among
\* the adapters in turn.
EXTENDS GatewayCore

CONSTANTS a, b, s1, s2, claude, codex

MCOwnerOf == [r \in Requests |-> IF r % 2 = 1 THEN a ELSE b]

\* Both sessions belong to Codex.
OneProvider == [s \in Sessions |-> codex]
CodexOnly == <<codex>>

\* One session each; the two adapters are asked one after the other.
TwoProviders == [s \in Sessions |-> IF s = s1 THEN claude ELSE codex]
Both == <<claude, codex>>
=============================================================================
