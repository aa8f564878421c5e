---------------------------- MODULE MCWslServers ----------------------------
(* Instances of WslServers for TLC.                                        *)
EXTENDS WslServers

CONSTANTS s1, s2

OneServer  == {s1}
TwoServers == {s1, s2}

=============================================================================
