------------------------------- MODULE MCMainLoop -------------------------------
EXTENDS MainLoop, TLC

MCSymmetry == Permutations(Client)
====
