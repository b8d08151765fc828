---------------------------- MODULE MCStateFile ----------------------------
(* Constants of the runs of StateFile: two sessions, a direct writer, three inodes. *)
EXTENDS StateFile, TLC

CONSTANTS s1, s2, d1, i1, i2, i3
=============================================================================
