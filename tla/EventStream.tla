----------------------------- MODULE EventStream -----------------------------
(***************************************************************************)
(* GET /api/event (packages/daemon/src/server.ts, compat.ts) over the      *)
(* session store: each connection turns what emit() calls it with into     *)
(* v2 events, guarded by three sets of session ids of its own.             *)
(*                                                                         *)
(* A listener runs inside emit(), so every step of CmdRunner is also a     *)
(* step of every open connection.  Subscribing and the replay of settled   *)
(* sessions are one handler without an await in between.                   *)
(***************************************************************************)
EXTENDS CmdRunner

CONSTANT Clients   \* the connections (an event stream is opened by a window)

ASSUME ClientsAssumption == IsFiniteSet(Clients)

VARIABLES
  streams,   \* per connection: the handler's sets, and the events written
  sequence,  \* textDeltaSequence: one counter per session, shared by all
  revived    \* history: sessions made anew since they were prompted

streamVars == <<streams, sequence, revived>>
vars == <<runnerVars, streamVars>>

-----------------------------------------------------------------------------
(* Events, as far as the order and the attribution of text are concerned.  *)
(* "start" stands for the four events of toStartEvents, sent in one loop.  *)
(* A delta has the place it had in its run (0: the whole text, replayed)   *)
(* and the number in its event id (0: the id has none).                    *)
EventTypes ==
  {"start", "textStarted", "delta", "textEnded", "stepEnded", "stepFailed", "updated"}

MaxSequence == MaxRuns * MaxDeltas * Cardinality(Clients)

Event == [type : EventTypes, run : 0 .. MaxRuns, n : 0 .. MaxDeltas, seq : 0 .. MaxSequence]

Plain(type) == [type |-> type, run |-> 0, n |-> 0, seq |-> 0]

Text(type, run) == [type |-> type, run |-> run, n |-> 0, seq |-> 0]

Stream ==
  [open        : BOOLEAN,
   started     : SUBSET Ids,
   textStarted : SUBSET Ids,
   settled     : SUBSET Ids,
   log         : [Ids -> Seq(Event)]]

Closed ==
  [open |-> FALSE, started |-> {}, textStarted |-> {}, settled |-> {},
   log |-> [s \in Ids |-> <<>>]]

(* send() in a loop                                                        *)
Send(st, id, events) == [st EXCEPT !.log[id] = @ \o events]

Only(condition, events) == IF condition THEN events ELSE <<>>

Replied(s) == s.final # 0 /\ s.state # "error"
Failed(s)  == s.error # "none" \/ s.state = "error"

-----------------------------------------------------------------------------
(* The event lists of compat.ts.                                           *)
ToEvents(s) ==
  Only(Replied(s), <<Plain("textStarted"), Text("delta", s.final), Text("textEnded", s.final),
                     Plain("stepEnded")>>)
  \o Only(Failed(s), <<Plain("stepFailed")>>)
  \o <<Plain("updated")>>

(* Mutants of ToStreamEndEvents: a noted error of a session that is done   *)
(* is not reported; the text part is ended whether or not it was begun.    *)
EndEventsByState(s, streamedText) ==
  Only(streamedText /\ Replied(s), <<Text("textEnded", s.final)>>)
  \o Only(Replied(s), <<Plain("stepEnded")>>)
  \o Only(s.state = "error", <<Plain("stepFailed")>>)
  \o <<Plain("updated")>>

EndEventsWithText(s, streamedText) ==
  Only(Replied(s), <<Text("textEnded", s.final), Plain("stepEnded")>>)
  \o Only(Failed(s), <<Plain("stepFailed")>>)
  \o <<Plain("updated")>>

ToStreamEndEvents(s, streamedText) ==
  Only(streamedText /\ Replied(s), <<Text("textEnded", s.final)>>)
  \o Only(Replied(s), <<Plain("stepEnded")>>)
  \o Only(Failed(s), <<Plain("stepFailed")>>)
  \o <<Plain("updated")>>

(* The handler's emitStart                                                 *)
EmitStart(st, id) ==
  IF id \in st.started
  THEN st
  ELSE Send([st EXCEPT !.started = @ \cup {id}], id, <<Plain("start")>>)

(* A text_delta frame of a running session, numbered seq.                  *)
StreamDelta(st, id, frame, seq) ==
  LET delta == [type |-> "delta", run |-> frame.run, n |-> frame.n, seq |-> seq]
  IN IF id \in st.textStarted
     THEN Send(st, id, <<delta>>)
     ELSE Send([st EXCEPT !.textStarted = @ \cup {id}], id, <<Plain("textStarted"), delta>>)

Settle(st, id, events) == Send([EmitStart(st, id) EXCEPT !.settled = @ \cup {id}], id, events)

(* Mutants of Receive: nothing is remembered of a settlement; only a frame *)
(* of the CLI settles a session.                                           *)
ReceiveAgain(st, m, seq) ==
  IF m.session.state = "running"
  THEN EmitStart(st, m.id)
  ELSE Settle(st, m.id, ToStreamEndEvents(m.session, m.id \in st.textStarted))

ReceiveFrames(st, m, seq) ==
  IF m.session.state = "running"
  THEN EmitStart(st, m.id)
  ELSE IF m.id \in st.settled \/ m.frame.kind = "synthetic"
  THEN st
  ELSE Settle(st, m.id, ToStreamEndEvents(m.session, m.id \in st.textStarted))

(* The listener of one connection; m is what emit() calls it with.         *)
Receive(st, m, seq) ==
  IF m.session.state = "running"
  THEN IF m.frame.kind = "delta"
       THEN StreamDelta(EmitStart(st, m.id), m.id, m.frame, seq)
       ELSE EmitStart(st, m.id)
  ELSE IF m.id \in st.settled
  THEN st
  ELSE Settle(st, m.id, ToStreamEndEvents(m.session, m.id \in st.textStarted))

ReceiveAll(st, ms, seq) ==
  CASE Len(ms) = 0 -> st
    [] Len(ms) = 1 -> Receive(st, ms[1], seq)
    [] OTHER       -> Receive(Receive(st, ms[1], seq), ms[2], seq)

Listening == {c \in Clients : streams[c].open}

(* Mutant of Numbers: every frame of a running session takes a number.     *)
NumbersAll(m) == m.session.state = "running"

(* Each listener that sends a delta takes the next number of the session.  *)
Numbers(m) == m.session.state = "running" /\ m.frame.kind = "delta"

Numbered(ms) == \E i \in DOMAIN ms : Numbers(ms[i])

(* Listeners are called in the order they subscribed, which is left open.  *)
Orders == {f \in [Listening -> 1 .. Cardinality(Listening)] :
             \A c, d \in Listening : c # d => f[c] # f[d]}

(* Mutant of Taken: the counter advances once a frame, not once a listener.*)
TakenOnce == 1

(* The numbers a frame takes from the counter.                             *)
Taken == Cardinality(Listening)

(* The sessions whose record was dropped and made anew, as idle, by        *)
(* ensure() since their last prompt; a child of theirs may still print.    *)
Revived ==
  {s \in Ids : /\ prompts'[s] = prompts[s]
               /\ \/ s \in revived
                  \/ /\ sessions[s].state = "absent" /\ sessions'[s].state # "absent"
                     /\ prompts[s] > 0}

(* emit() calls every listener with each emission of the step.             *)
Publish ==
  IF Numbered(wire')
  THEN LET id == wire'[1].id
       IN /\ \E order \in Orders :
               streams' = [c \in Clients |->
                             IF c \in Listening
                             THEN ReceiveAll(streams[c], wire', sequence[id] + order[c])
                             ELSE streams[c]]
          /\ sequence' = [sequence EXCEPT ![id] = @ + Taken]
  ELSE /\ streams' = [c \in Clients |-> IF c \in Listening
                                        THEN ReceiveAll(streams[c], wire', 0)
                                        ELSE streams[c]]
       /\ UNCHANGED sequence

Deliver == Publish /\ revived' = Revived

-----------------------------------------------------------------------------
(* What a new connection is sent: running sessions are announced, settled  *)
(* ones replayed, idle ones left out.                                      *)
ReplayLog(s) ==
  CASE s.state = "running" -> <<Plain("start")>>
    [] s.state \in Settled -> <<Plain("start")>> \o ToEvents(s)
    [] OTHER               -> <<>>

(* Mutant of Subscribed: failed sessions are not replayed.                 *)
SubscribedToDone ==
  [open        |-> TRUE,
   started     |-> {s \in Ids : sessions[s].state \in {"done", "running"}},
   textStarted |-> {},
   settled     |-> {s \in Ids : sessions[s].state = "done"},
   log         |-> [s \in Ids |-> IF sessions[s].state = "error" THEN <<>>
                                   ELSE ReplayLog(sessions[s])]]

Subscribed ==
  [open        |-> TRUE,
   started     |-> {s \in Ids : sessions[s].state \in Settled \cup {"running"}},
   textStarted |-> {},
   settled     |-> {s \in Ids : sessions[s].state \in Settled},
   log         |-> [s \in Ids |-> ReplayLog(sessions[s])]]

Connect(c) ==
  /\ ~streams[c].open
  /\ streams' = [streams EXCEPT ![c] = Subscribed]
  /\ wire' = <<>>
  /\ UNCHANGED <<sessions, runs, used, clock, births, prompts, stranded, sequence, revived>>

(* The request's 'close' event: unsubscribe.                               *)
Disconnect(c) ==
  /\ streams[c].open
  /\ streams' = [streams EXCEPT ![c] = Closed]
  /\ wire' = <<>>
  /\ UNCHANGED <<sessions, runs, used, clock, births, prompts, stranded, sequence, revived>>

(* The daemon dies: every connection and the module-level counter with it. *)
DaemonRestart ==
  /\ Restart
  /\ streams' = [c \in Clients |-> Closed]
  /\ sequence' = [s \in Ids |-> 0]
  /\ revived' = {}

-----------------------------------------------------------------------------
Init ==
  /\ RunnerInit
  /\ streams = [c \in Clients |-> Closed]
  /\ sequence = [s \in Ids |-> 0]
  /\ revived = {}

Next ==
  \/ Handler /\ Deliver
  \/ \E c \in Clients : Connect(c) \/ Disconnect(c)
  \/ DaemonRestart

Spec == Init /\ [][Next]_vars

(* A CLI process terminates sooner or later and Node then delivers 'close' *)
(* (the daemon itself has no timeout); nothing else is promised.           *)
Fairness == \A p \in Run : WF_vars(Closes(p) /\ Deliver)

FairSpec == Spec /\ Fairness

-----------------------------------------------------------------------------
StreamTypeOK ==
  /\ streams \in [Clients -> Stream]
  /\ sequence \in [Ids -> 0 .. MaxSequence]
  /\ revived \subseteq Ids

Occurrences(l, type) == Cardinality({i \in DOMAIN l : l[i].type = type})

(* "late subscribers don't get duplicate start events, and live streams    *)
(* aren't replayed a second time" (server.ts:421-422): on one connection a *)
(* session starts once and is finalized once, whatever is prompted again.  *)
NothingTwice ==
  \A c \in Clients, s \in Ids :
    \A type \in {"start", "textEnded", "updated"} :
      Occurrences(streams[c].log[s], type) <= 1

(* The number in a delta's event id grows along every connection, although *)
(* all connections draw from one counter.                                  *)
DeltaNumbersGrow ==
  \A c \in Clients, s \in Ids :
    LET l == streams[c].log[s]
    IN \A i, j \in DOMAIN l :
         i < j /\ l[i].type = "delta" /\ l[j].seq > 0 => l[i].seq < l[j].seq

(* The events that tell how a session went, in a log and of a record.      *)
Steps == {"stepEnded", "stepFailed"}

Outcome(l) == {l[i].type : i \in DOMAIN l} \cap Steps

Verdict(s) == {type \in Steps : IF type = "stepEnded" THEN Replied(s) ELSE Failed(s)}

Finalized(l) == \E i \in DOMAIN l : l[i].type = "updated"

(* Every open connection tells the outcome of a settled session, in the    *)
(* step that settles it or opens the connection, and sticks to the first   *)
(* outcome it has told.  So a later one (of another prompt, or of a result *)
(* after a line that was no frame) reaches only the connections that are   *)
(* opened after it: server.ts:452 drops it on every other.                 *)
FirstOutcomeIsTold ==
  [][\A c \in Clients, s \in Ids :
       LET old == streams[c].log[s]
           new == streams'[c].log[s]
       IN streams'[c].open /\ sessions'[s].state \in Settled =>
            /\ Finalized(new)
            /\ Outcome(new) = IF Finalized(old) THEN Outcome(old) ELSE Verdict(sessions'[s])]_vars

(* Two windows never disagree on how a session that was prompted once went:*)
(* the live account and the replay to a late connection are built by two   *)
(* different functions from the session at two different moments.  They do *)
(* disagree on a session that trimOld dropped while it ran and ensure()    *)
(* made anew as idle (server.ts:317): the next frame of its child, of any  *)
(* kind, settles it on the connections that are open (server.ts:447).      *)
StreamsAgree ==
  \A c, d \in Clients, s \in Ids :
    s \in (streams[c].settled \cap streams[d].settled) \ revived
      => Outcome(streams[c].log[s]) = Outcome(streams[d].log[s])

(* A connection that announced a run goes on to settle it, unless it is    *)
(* closed, the record was dropped (and perhaps made anew as idle), or the  *)
(* run's spawn() threw.                                                    *)
AnnouncedIsSettled ==
  \A c \in Clients, s \in Ids :
    s \in streams[c].started
      ~> \/ s \in streams[c].settled
         \/ ~streams[c].open
         \/ sessions[s].state = "absent" \/ s \in revived
         \/ s \in stranded

(* "Events emitted as soon as a run starts" (compat.ts:101): the step that *)
(* spawns another run of a settled session sends the start events to every *)
(* open connection.                                                        *)
StartEventsForEveryRun ==
  [][\A c \in Clients, p \in Run :
       LET s == runs'[p].id
       IN /\ runs[p].phase = "unused" /\ runs'[p].phase = "spawning"
          /\ streams[c].open /\ sessions[s].state \in Settled
          => Occurrences(streams'[c].log[s], "start") > Occurrences(streams[c].log[s], "start")]_vars

(* Every connection tells a well-formed story about every session.         *)
Feed == INSTANCE SessionFeed
          WITH Connections <- Clients, Topics <- Ids, feed <- [c \in Clients |-> streams[c].log]

WellFormedStories == Feed!FeedSpec

=============================================================================
