----------------------------- MODULE MCDesktopApp -----------------------------
(* An instance of DesktopApp for TLC.                                      *)
EXTENDS DesktopApp

CONSTANTS w1, w2, l1

TwoWindows   == {w1, w2}
OneLink      == {l1}
TwoPlatforms == {"darwin", "win32"}

=============================================================================
