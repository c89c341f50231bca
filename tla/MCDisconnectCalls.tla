--------------------------- MODULE MCDisconnectCalls ---------------------------
EXTENDS DisconnectCalls, TLC

MCSymmetry == Permutations(Session)
====
