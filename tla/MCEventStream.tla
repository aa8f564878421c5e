---------------------------- MODULE MCEventStream ----------------------------
(* Instances of EventStream for TLC.                                       *)
EXTENDS EventStream, TLC

CONSTANTS s1, s2, c1, c2

OneId      == {s1}
TwoIds     == {s1, s2}
OneClient  == {c1}
TwoClients == {c1, c2}

(* Two instances in one: either the clock stands still, and sessions are   *)
(* prompted again, or one session is prompted once, and the clock drops a  *)
(* running session that is then made anew.                                 *)
Prompts == prompts'[s1] + prompts'[s2]

Budget ==
  \/ Prompts <= 2 /\ births' <= 2 /\ clock' = 0
  \/ Prompts <= 1 /\ clock' >= clock

LiveSpec == Init /\ [][Next /\ Budget]_vars /\ Fairness

Symmetry == Permutations(Ids) \cup Permutations(Clients)

=============================================================================
