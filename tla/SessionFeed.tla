----------------------------- MODULE SessionFeed -----------------------------
(***************************************************************************)
(* What the connections of GET /api/event promise about a session that is  *)
(* prompted once: every connection tells its client a well-formed story.   *)
(*                                                                         *)
(* First the start events; then at most one text part, whose deltas are    *)
(* consecutive deltas of one run; the text part is ended only if it was    *)
(* begun, and with the text of the run that wrote it; the step then ends   *)
(* or fails, never both; and session.updated is the last word.  A story    *)
(* is only ever added to, or dropped as a whole (the connection closes).   *)
(* This module knows nothing of child processes, the Map or CLI frames.    *)
(***************************************************************************)
EXTENDS Naturals, Sequences

CONSTANTS
  Connections,  \* the event stream connections
  Topics        \* the sessions they report

VARIABLE feed   \* feed[c][s]: the events connection c was sent about s

(* The types of event that may come after an event of a type.              *)
FollowedBy ==
  [start       |-> {"textStarted", "stepEnded", "stepFailed", "updated"},
   textStarted |-> {"delta"},
   delta       |-> {"delta", "textEnded", "stepFailed", "updated"},
   textEnded   |-> {"stepEnded"},
   stepEnded   |-> {"updated"},
   stepFailed  |-> {"updated"},
   updated     |-> {}]

(* Event e may be added to story l.                                        *)
MayAdd(l, e) ==
  IF l = <<>>
  THEN e.type = "start"
  ELSE LET last == l[Len(l)]
       IN /\ e.type \in FollowedBy[last.type]
          /\ last.type = "delta" /\ e.type = "delta" => e.run = last.run /\ e.n = last.n + 1
          /\ last.type = "delta" /\ e.type = "textEnded" => e.run = last.run

(* A handler may add several events at once.                               *)
Continues(l, m) ==
  /\ Len(l) <= Len(m) /\ SubSeq(m, 1, Len(l)) = l
  /\ \A i \in (Len(l) + 1) .. Len(m) : MayAdd(SubSeq(m, 1, i - 1), m[i])

FeedInit == feed = [c \in Connections |-> [s \in Topics |-> <<>>]]

FeedNext ==
  \A c \in Connections, s \in Topics :
    feed'[c][s] = <<>> \/ Continues(feed[c][s], feed'[c][s])

FeedSpec == FeedInit /\ [][FeedNext]_feed

=============================================================================
