----------------------------- MODULE MC_CpldMux -----------------------------
EXTENDS CpldMux, TLC

CONSTANTS c1, c2, p1

ChildrenMC == {c1, c2}
ParentsMC == {p1}
ChildSymmetry == Permutations(ChildrenMC)

\* The first, the last, and the channel whose select value is the
\* deselect value.
UseChansMC == {0, 3, 6}

\* A power-on value no select_chan writes.
PowerOnMC == 7
=============================================================================
