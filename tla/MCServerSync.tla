---------------------------- MODULE MCServerSync ----------------------------
(* An instance of ServerSync for TLC.                                      *)
EXTENDS ServerSync, TLC

CONSTANTS k1, k2, d1, d2, f1, f2

TwoKeys      == {k1, k2}
TwoDirs      == {d1, d2}
TwoFragments == {f1, f2}

(* Frames of one event, and none of them a delta.                          *)
Quiet == Len(queue') <= 1 /\ \A i \in DOMAIN queue' : queue'[i].key \notin Keys

(* Several instances in one.  Where no directory is shown, frames are long *)
(* on a page that stays, and quiet on one that comes back, even twice.     *)
(* Where directories are shown, frames are quiet: two directories on a     *)
(* page that stays, or one on a page that comes back once.                 *)
Budget ==
  \/ active' = {} /\ ~paused' /\ (Quiet \/ Len(runs') = 1)
  \/ Quiet /\ Len(runs') <= 2 /\ (generation' = 1 \/ disposed' \/ active' \subseteq {d1})

MCSpec == Init /\ [][Next /\ Budget]_vars /\ Fairness

=============================================================================
