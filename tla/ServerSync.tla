----------------------------- MODULE ServerSync -----------------------------
(***************************************************************************)
(* The event client and the refresh queue of one server together           *)
(* (packages/app/src/context/server-sync.tsx and server-sync/              *)
(* connection.ts).  The listener hears what the client flushes: the        *)
(* stream's first event queues every directory shown, a change queues its  *)
(* directory.  What happened while no stream was open was told to nobody;  *)
(* the directories are loaded anew instead.                                *)
(***************************************************************************)
EXTENDS EventClient, RefreshQueue

vars == <<clientVars, queueVars>>

(* The directories an event of the stream queues.                          *)
Refreshed(event) ==
  IF event.key = Hello THEN SetToSeq(active)
  ELSE IF event.key \in active THEN <<event.key>> ELSE <<>>

(* The listeners are called in the step that flushes.                      *)
Listen ==
  /\ push(FlattenSeq([i \in DOMAIN batch' |-> Refreshed(batch'[i])]))
  /\ UNCHANGED <<stale, joined>>

Init == ClientInit /\ QueueInit

(* The client's steps.  The directories shown when the stream opens have   *)
(* missed what happened before.                                            *)
Handshakes(r) ==
  /\ Handshake(r)
  /\ stale' = active /\ joined' = {}
  /\ UNCHANGED <<pending, scheduled, drain, awaiting, paused, active, loads, missed>>

Receives(r) == (\E event \in Arrivals : Receive(r, event)) /\ UNCHANGED queueVars
EndsAttempt(r) == EndAttempt(r) /\ Listen
LoopsOn(r) == (Resume(r) \/ Delayed(r)) /\ Listen
Flushes    == Flush /\ Listen
PageStep   == (Start \/ Stop) /\ UNCHANGED queueVars

(* The client and the stores are disposed together; the queue's timer is   *)
(* cleared, and directories being loaded stay.                             *)
Disposes ==
  /\ Dispose
  /\ dispose({d \in Dirs : ~Busy(d)})
  /\ scheduled' = FALSE

(* The queue's own steps, which the client does not see.                   *)
Unseen == nothingHeard /\ UNCHANGED <<lifecycle, runs, attempt, connected>>

Drains     == DrainStarts /\ Unseen
GoesOn     == Ticked /\ Unseen
Settles(d) == LoadEnds(d) /\ Unseen
Browses(d) == ~disposed /\ (Open(d, connected) \/ Evict(d)) /\ Unseen
Updates    == ~disposed /\ UpdateConfig /\ Unseen

Next ==
  \/ \E r \in DOMAIN runs : Handshakes(r) \/ EndsAttempt(r) \/ LoopsOn(r) \/ Receives(r)
  \/ Flushes \/ PageStep \/ Disposes
  \/ Drains \/ GoesOn \/ Updates
  \/ \E d \in Dirs : Settles(d) \/ Browses(d)

Spec == Init /\ [][Next]_vars

(* A promise that is settled resumes its function, a timer fires, and an   *)
(* aborted request is rejected; loads are answered or fail; and a daemon   *)
(* that is asked again and again answers some time.                        *)
Fairness ==
  /\ \A r \in 1 .. MaxStarts :
       /\ WF_vars(r \in DOMAIN runs /\ LoopsOn(r))
       /\ WF_vars(r \in DOMAIN runs /\ runs[r].aborted /\ EndsAttempt(r))
       /\ SF_vars(r \in DOMAIN runs /\ Handshakes(r))
  /\ WF_vars(Flushes)
  /\ WF_vars(Drains) /\ WF_vars(GoesOn)
  /\ \A d \in Dirs : WF_vars(Settles(d))

FairSpec == Spec /\ Fairness

TypeOK == ClientTypeOK /\ QueueTypeOK

(* Of every directory that is shown when a stream opens a load begins      *)
(* after that, whatever the queue is doing meanwhile.  (What the load asks *)
(* the server for again is the queries'.)  Two exceptions are the code's: a*)
(* load that was in flight then is joined, and what met a pending          *)
(* configuration update stays in the queue until something else is pushed. *)
CatchesUp ==
  \A d \in Dirs : d \in stale ~> (d \notin stale \/ d \in joined \/ missed \/ disposed)

=============================================================================
