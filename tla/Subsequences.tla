----------------------------- MODULE Subsequences -----------------------------
(***************************************************************************)
(* What is left of a sequence, in its order: rows of a table after an      *)
(* UPDATE, entries of an OrderedDict after some are removed.               *)
(***************************************************************************)
EXTENDS Naturals, Sequences, FiniteSets

Increasing(f) == \A i, j \in DOMAIN f : i < j => f[i] < f[j]

\* the elements at these places
LeftAt(seq, places) ==
    LET order == CHOOSE f \in [1 .. Cardinality(places) -> places] : Increasing(f)
    IN  [i \in 1 .. Cardinality(places) |-> seq[order[i]]]
=============================================================================
