---------------------------- MODULE MCNetworkManage ----------------------------
(* An instance of NetworkManage for TLC: four sessions in batches of two,     *)
(* so that the table may grow between the two batches of a round.             *)
EXTENDS NetworkManage

MCSession == 1..4
====
