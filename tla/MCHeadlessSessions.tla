-------------------------- MODULE MCHeadlessSessions --------------------------
EXTENDS HeadlessSessions, TLC

CharacterSymmetry == Permutations(Characters)
=============================================================================
