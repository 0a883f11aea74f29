-------------------------- MODULE MCFileTransaction --------------------------
(* FileTransaction on small instances.                                        *)
EXTENDS FileTransaction, TLC

FileSymmetry    == Permutations(Files)
ContentSymmetry == Permutations(Contents \ {Absent})
Symmetry        == FileSymmetry \cup ContentSymmetry
=============================================================================
