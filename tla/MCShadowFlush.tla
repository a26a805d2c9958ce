--------------------------- MODULE MCShadowFlush ----------------------------
EXTENDS ShadowFlush, FiniteSets, TLC

CONSTANTS x, a

Symmetry == Permutations({x, a})

\* Bound: the pages have at most two lines between them in DRAM.  A page that
\* was overwritten as a whole counts with all of its lines.
Touched(p) == IF frame[p].all_resident THEN LineCount ELSE Cardinality(frame[p].resident)
Few == Touched(0) + Touched(1) <= 2
=============================================================================
