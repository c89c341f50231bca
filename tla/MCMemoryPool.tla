------------------------------ MODULE MCMemoryPool ------------------------------
EXTENDS MemoryPool, TLC

MCSymmetry == Permutations(Node)
====
