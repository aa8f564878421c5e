----------------------------- MODULE MCDraftPages -----------------------------
(* Instances of DraftPages for TLC.                                        *)
EXTENDS DraftPages, TLC

CONSTANTS p1, p2, k1, k2, b1

OnePage   == {p1}
TwoPages  == {p1, p2}
OneKey    == {k1}
TwoKeys   == {k1, k2}
OneBlob   == {b1}
NoBlobs   == {}
BothHosts == {"desktop", "browser"}

(* Two loads of the page are alike. *)
Symmetry == Permutations(TwoPages)

=============================================================================
