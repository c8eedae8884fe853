---------------------------- MODULE MCConnections ----------------------------
(***************************************************************************)
(* Two sites with a project each, two repositories and a board, two        *)
(* Google accounts and two folders.                                        *)
(***************************************************************************)
EXTENDS Connections, TLC

CONSTANTS s1, s2, k1, k2, p1, p2, r1, r2, b1, a1, a2, f1, f2, d1, d2

MCHas == (s1 :> {k1}) @@ (s2 :> {k2})
MCPreset == [repo |-> r2, board |-> None]

\* Folder d1 holds f1, folder d2 holds both; the second account sees f2 and d2
MCInside == (d1 :> {f1}) @@ (d2 :> {f1, f2})
MCReadable == (a1 :> {f1, f2, d1, d2}) @@ (a2 :> {f2, d2})

\* Requests, and the two sites, each with its project
Symmetry == Permutations(Requests)
    \union {(s1 :> s2) @@ (s2 :> s1) @@ (k1 :> k2) @@ (k2 :> k1)}
=============================================================================
