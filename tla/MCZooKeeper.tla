---------------------------- MODULE MCZooKeeper ----------------------------
(* Small instance of ZooKeeper for TLC. *)
EXTENDS ZooKeeper

CONSTANTS l1, l2, l3
=============================================================================
