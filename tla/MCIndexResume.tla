---------------------------- MODULE MCIndexResume ----------------------------
(* IndexResume on a small instance: a workspace of two files.                 *)
EXTENDS IndexResume

TwoFiles == 1..2
=============================================================================
