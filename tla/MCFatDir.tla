------------------------------ MODULE MCFatDir ------------------------------
EXTENDS FatDir

CONSTANTS s, t, l

\* Two short names, and a long one that takes two slots.
MCSlotsOf == [n \in {s, t, l} |-> IF n = l THEN 2 ELSE 1]

\* The short names may change places.
MCSymmetry == Permutations({s, t})
=============================================================================
