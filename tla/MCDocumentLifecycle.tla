------------------------- MODULE MCDocumentLifecycle -------------------------
(* Small instances of DocumentLifecycle for TLC.                            *)
EXTENDS DocumentLifecycle, TLC

CONSTANTS d1, d2, w1, w2, r1

\* Odd uploads are long, even ones short: a shorter text after a longer one
\* is what could leave chunks behind.
LongThenShort == [v \in 1..MaxVersion |-> IF v % 2 = 1 THEN 2 ELSE 1]

WriterSymmetry == Permutations(Writers)

=============================================================================
