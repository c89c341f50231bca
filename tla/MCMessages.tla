------------------------------- MODULE MCMessages -------------------------------
EXTENDS Messages, TLC

MCSymmetry == Permutations(Other)
====
