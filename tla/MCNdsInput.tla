----------------------------- MODULE MCNdsInput -----------------------------
EXTENDS NdsInput, TLC

CONSTANTS a, b

\* No key, one, and the other.
MCPads == {{}, {a}, {b}}

\* The keys are alike.
Symmetry == Permutations({a, b})
=============================================================================
