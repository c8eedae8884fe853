--------------------------- MODULE MCConnectorSync ---------------------------
(* Small instances of ConnectorSync for TLC.                                *)
EXTENDS ConnectorSync, TLC

CONSTANTS d1, d2, r1, r2, s1, s2, txt, md

OneRootEach == [d \in Docs |-> IF d = d1 THEN r1 ELSE r2]
SameRoot    == [d \in Docs |-> r1]
NoRoots     == {}
Nobody      == {}

=============================================================================
