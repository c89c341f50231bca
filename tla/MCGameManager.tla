---------------------------- MODULE MCGameManager ----------------------------
(* Instances of GameManager for TLC.                                        *)
EXTENDS GameManager, TLC

(* Attack reaches, in the unit of the coordinates.                          *)
MCDamage == [t \in AttackType |-> t]
MCRangeX == [t \in AttackType |-> t + 1]
MCRangeY == [t \in AttackType |-> t + 1]

Symmetry == Permutations(Session)
====
