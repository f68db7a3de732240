------------------------------- MODULE MCFiles -------------------------------
(***************************************************************************)
(* Two processes, three runs of main between them, and four programs: two  *)
(* of one sum, one that ends in a zero and an empty one.                   *)
(***************************************************************************)
EXTENDS AymFiles, TLC

MCBlobs == {<<1, 2>>, <<3>>, <<2, 0>>, <<>>}
MCSymmetry == Permutations(Procs)
=============================================================================
