------------------------- MODULE MCReclamationWatch -------------------------
(* Small instances of ReclamationWatch: one GPU, one or two jobs, durations *)
(* of a few instants, readings at every instant or every few instants.      *)
EXTENDS ReclamationWatch

CONSTANTS a, b

Pair == {a, b}
Single == {a}

Steady == {1}
Coarse == {3}
=============================================================================
