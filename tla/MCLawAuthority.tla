--------------------------- MODULE MCLawAuthority ---------------------------
(* Instances of LawAuthority for TLC. *)
EXTENDS LawAuthority, LawFiles, TLC

Symmetry == Permutations(Call)

==============================================================================
