----------------------------- MODULE MCCodeCache -----------------------------
(* The pages of the emulated memory are interchangeable.                     *)
EXTENDS CodeCache, TLC

PageSymmetry == Permutations(Pages)
=============================================================================
