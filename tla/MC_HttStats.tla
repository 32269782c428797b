---------------------------- MODULE MC_HttStats ----------------------------
(* Small instance of HttStats for TLC: two processes that open the file, *)
(* three allocations, replies of two fragments.                           *)
EXTENDS HttStats

CONSTANTS c1, c2, o1, o2, o3

MCCallers == {c1, c2}
MCObjs == {o1, o2, o3}
=============================================================================
