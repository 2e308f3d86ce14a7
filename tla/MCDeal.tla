------------------------------- MODULE MCDeal -------------------------------
(* Small instances of Deal for TLC. *)
EXTENDS Deal, TLC

Symmetry ==
  UNION {Permutations(Quotes), Permutations(Numbers), Permutations(Signers), Permutations(Staff)}
=============================================================================
