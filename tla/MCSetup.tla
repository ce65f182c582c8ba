------------------------------- MODULE MCSetup ------------------------------
EXTENDS SetupProperties, TLC

ClockSkews == {-1, 0, 2}
Symmetry == Permutations(Joiners)
=============================================================================
