--------------------------- MODULE MCUnifiedDiff ---------------------------
(* Every pair of texts of at most five lines over two different lines. *)
EXTENDS UnifiedDiff

MCTexts == UNION {[1..n -> Lines] : n \in 0..5}
=============================================================================
