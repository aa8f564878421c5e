----------------------------- MODULE MCCmdRunner -----------------------------
(* Instances of CmdRunner for TLC.                                         *)
EXTENDS CmdRunner, TLC

CONSTANTS s1, s2

TwoIds == {s1, s2}

Symmetry == Permutations(Ids)

=============================================================================
