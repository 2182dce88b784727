------------------------------ MODULE MCMemory ------------------------------
EXTENDS Memory

\* What the proof about the arguments assumes of the layout.
ASSUME ApartAssumption == SegmentsApart

MCAddrs == {4, 5, 8, 10, 11, 12, 24, 60, 77, 80, 86, 91, 92, 96, 98, 104, 120}
MCWords == {<<1, 2, 3, 4>>}
MCAmounts == {-1, 0, 1, 4, 5, 127}
MCArgVectors == {[argv |-> <<<<65>>>>, env |-> <<>>],
                [argv |-> <<<<65>>, <<66, 67>>>>, env |-> <<<<68>>>>]}
=============================================================================
