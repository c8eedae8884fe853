--------------------------- MODULE MCIssueListing ---------------------------
(***************************************************************************)
(* An instance of IssueListing for TLC: issues 1, 2, 3 and 5 of one        *)
(* project and 4 of another.                                               *)
(***************************************************************************)
EXTENDS IssueListing

MCProjectOf == [k \in IssueKeys |-> IF k = 4 THEN 2 ELSE 1]
=============================================================================
