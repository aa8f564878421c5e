------------------------- MODULE MCUpdaterController -------------------------
(* Instances of UpdaterController for TLC.                                 *)
EXTENDS UpdaterController, TLC

Symmetry == Permutations(Versions)

=============================================================================
