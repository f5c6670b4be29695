--------------------------- MODULE MCOutputCollect ---------------------------
EXTENDS OutputCollect, TLC

\* Nothing tells the workers apart, or the names.
Symmetry == {p @@ q : p \in Permutations(Workers), q \in Permutations(Names)}
==============================================================================
