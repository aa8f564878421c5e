----------------------------- MODULE EventClient -----------------------------
(***************************************************************************)
(* The app's client of the daemon's event stream, one per server           *)
(* (packages/app/src/context/server-sdk.tsx).                              *)
(*                                                                         *)
(* start() makes a run: an async function that first awaits the run before *)
(* it and then, as long as it is the current one, opens the stream, reads  *)
(* it to its end and tries again a second later.  stop(), when the page is *)
(* hidden, and start(), when it comes back from the back-forward cache,    *)
(* may overtake each other's requests.  What is read is queued, and a      *)
(* timer hands the queue, its adjacent deltas merged, to the listeners     *)
(* (`batch').                                                              *)
(*                                                                         *)
(* The number of retries, the error and the time of the next frame are     *)
(* shown or waited for only, and left out.                                 *)
(***************************************************************************)
EXTENDS Naturals, Sequences, SequencesExt

CONSTANTS
  Keys,       \* the delta streams: a session's message and its part
  Others,     \* what the other events are about: a directory
  Fragments,  \* pieces of text a delta may carry
  Hello,      \* the key of the stream's first event, server.connected
  MaxStarts,  \* bound on the calls of start() that make a run
  MaxQueue    \* bound on the queue of a frame

ASSUME ClientAssumption == MaxStarts \in Nat \ {0} /\ MaxQueue \in Nat \ {0}
ASSUME KindsAssumption  == Keys \cap (Others \cup {Hello}) = {}

VARIABLES
  started, generation, disposed,  \* the lifecycle flags
  runs,       \* the runs, in the order start() made them
  attempt,    \* the run whose request stop() aborts, or 0
  connected,  \* connection.status is "connected"
  queue,      \* the events read in this frame
  timer,      \* a flush is scheduled
  batch       \* the events the listeners are given in this step

lifecycle  == <<started, generation, disposed>>
clientVars == <<lifecycle, runs, attempt, connected, queue, timer, batch>>

(* Events: a delta, a change of a directory, or the stream's first event.   *)
Event == [key : Keys \cup Others \cup {Hello}, text : Seq(Fragments)]

Heard(key) == [key |-> key, text |-> <<>>]
Arrivals   == [key : Keys, text : {<<f>> : f \in Fragments}] \cup {Heard(x) : x \in Others}

Phases  == {"queued", "opening", "reading", "delaying", "over"}
Latest  == Len(runs)
Trying(r) == runs[r].phase \in {"opening", "reading"}

-----------------------------------------------------------------------------
(* Mutant of AddEvent: a delta joins the last one of its stream, wherever. *)
AddToStream(output, event) ==
  LET same == {i \in DOMAIN output : event.key \in Keys /\ output[i].key = event.key}
      last == CHOOSE i \in same : \A j \in same : j <= i
  IN IF same = {} THEN Append(output, event)
     ELSE [output EXCEPT ![last].text = @ \o event.text]

(* coalesceServerEvents: a delta is appended to the last event of the      *)
(* output if that is a delta of the same stream.                           *)
AddEvent(output, event) ==
  IF output # <<>> /\ event.key \in Keys /\ Last(output).key = event.key
  THEN Front(output) \o <<[event EXCEPT !.text = Last(output).text \o event.text]>>
  ELSE Append(output, event)

coalesceServerEvents(events) == FoldLeft(AddEvent, <<>>, events)

flush ==
  /\ batch' = coalesceServerEvents(queue)
  /\ queue' = <<>>
  /\ timer' = FALSE

publish(event) ==
  /\ queue' = Append(queue, event)
  /\ timer' = TRUE
  /\ batch' = <<>>

nothingHeard == batch' = <<>> /\ UNCHANGED <<queue, timer>>

-----------------------------------------------------------------------------
(* The condition of runStream's loop: neither disposed nor stopped, and no *)
(* later run.                                                              *)
Live(r) == ~disposed /\ started /\ generation = runs[r].active

(* A turn of the loop: a new controller, and the request is made.          *)
Opens(r) ==
  /\ runs' = [runs EXCEPT ![r] = [@ EXCEPT !.phase = "opening", !.aborted = FALSE]]
  /\ attempt' = r
  /\ connected' = FALSE
  /\ nothingHeard

(* The run is over; the latest one forgets itself and flushes.             *)
Ends(r) ==
  /\ runs' = [runs EXCEPT ![r].phase = "over"]
  /\ attempt' = IF attempt = r THEN 0 ELSE attempt
  /\ IF r = Latest THEN flush ELSE nothingHeard
  /\ UNCHANGED connected

Loops(r) ==
  /\ IF Live(r) THEN Opens(r) ELSE Ends(r)
  /\ UNCHANGED lifecycle

(* The run before this one is over.                                        *)
Resume(r) ==
  /\ runs[r].phase = "queued"
  /\ runs[r - 1].phase = "over"
  /\ Loops(r)

(* The stream's first event has arrived.                                   *)
Handshake(r) ==
  /\ runs[r].phase = "opening" /\ ~runs[r].aborted
  /\ Len(queue) < MaxQueue
  /\ runs' = [runs EXCEPT ![r].phase = "reading"]
  /\ connected' = TRUE
  /\ publish(Heard(Hello))
  /\ UNCHANGED <<lifecycle, attempt>>

(* Another event of the stream.  The pauses between reads change nothing.  *)
Receive(r, event) ==
  /\ runs[r].phase = "reading" /\ ~runs[r].aborted
  /\ Len(queue) < MaxQueue
  /\ publish(event)
  /\ UNCHANGED <<lifecycle, runs, attempt, connected>>

(* connect() returns: the stream has ended or failed, the handshake took   *)
(* two seconds or was another event, or the request was aborted.           *)
EndAttempt(r) ==
  /\ Trying(r)
  /\ IF Live(r)
     THEN /\ runs' = [runs EXCEPT ![r].phase = "delaying"]
          /\ connected' = FALSE
          /\ nothingHeard
          /\ UNCHANGED attempt
     ELSE Ends(r)
  /\ UNCHANGED lifecycle

(* The delay of a second is over, or was cut short.                        *)
Delayed(r) == runs[r].phase = "delaying" /\ Loops(r)

Flush ==
  /\ timer
  /\ flush
  /\ UNCHANGED <<lifecycle, runs, attempt, connected>>

-----------------------------------------------------------------------------
(* Mutant of Start: the run before is not awaited.                         *)
StartAtOnce ==
  /\ ~disposed /\ ~started
  /\ Latest < MaxStarts
  /\ started' = TRUE
  /\ generation' = generation + 1
  /\ runs' = Append(runs, [phase |-> "opening", active |-> generation + 1, aborted |-> FALSE])
  /\ attempt' = Latest + 1
  /\ connected' = FALSE
  /\ nothingHeard
  /\ UNCHANGED disposed

(* The page is shown again: start() when nothing is started.  A run that   *)
(* has no other to await opens its request at once.                        *)
Start ==
  LET run == Latest + 1
      waits == runs[Latest].phase # "over"
  IN /\ ~disposed /\ ~started
     /\ run <= MaxStarts
     /\ started' = TRUE
     /\ generation' = generation + 1
     /\ runs' = Append(runs, [phase   |-> IF waits THEN "queued" ELSE "opening",
                              active  |-> generation + 1,
                              aborted |-> FALSE])
     /\ attempt' = IF waits THEN attempt ELSE run
     /\ connected' = (waits /\ connected)
     /\ nothingHeard
     /\ UNCHANGED disposed

stop(aborting) ==
  /\ started' = FALSE
  /\ generation' = generation + 1
  /\ runs' = [r \in DOMAIN runs |->
                [runs[r] EXCEPT !.aborted = @ \/ r \in aborting]]

(* Mutant of Stop: the request is left to the flags.                       *)
StopSoftly ==
  /\ ~disposed /\ started
  /\ stop({})
  /\ nothingHeard
  /\ UNCHANGED <<disposed, attempt, connected>>

(* The page is hidden.                                                     *)
Stop ==
  /\ ~disposed /\ started
  /\ stop({attempt})
  /\ nothingHeard
  /\ UNCHANGED <<disposed, attempt, connected>>

(* The server's context is disposed: stop(), every request is aborted, and *)
(* what was not flushed is dropped with the listeners.                     *)
Dispose ==
  /\ ~disposed
  /\ disposed' = TRUE
  /\ stop({attempt} \cup {r \in DOMAIN runs : Trying(r)})
  /\ queue' = <<>> /\ timer' = FALSE /\ batch' = <<>>
  /\ UNCHANGED <<attempt, connected>>

(* The context starts the stream when it is made.                          *)
ClientInit ==
  /\ started = TRUE /\ generation = 1 /\ disposed = FALSE
  /\ runs = <<[phase |-> "opening", active |-> 1, aborted |-> FALSE]>>
  /\ attempt = 1
  /\ connected = FALSE
  /\ queue = <<>> /\ timer = FALSE /\ batch = <<>>

-----------------------------------------------------------------------------
(* Whatever pages come and go, one request is open at a time, and one that *)
(* is not aborted belongs to the run that start() made last, which is      *)
(* still wanted.  A second stream would deliver every event twice.         *)
OneStream ==
  \A r \in DOMAIN runs : Trying(r) =>
    /\ \A q \in DOMAIN runs : Trying(q) => q = r
    /\ ~runs[r].aborted => r = Latest /\ Live(r)

(* The text of a list of events, as the sequence of what it is made of.    *)
Pieces(event) ==
  IF event.text = <<>> THEN <<event.key>>
  ELSE [i \in DOMAIN event.text |-> <<event.key, event.text[i]>>]
Spelled(events) == FoldLeft(LAMBDA all, event : all \o Pieces(event), <<>>, events)

(* Merging deltas neither loses, repeats nor moves anything: what leaves   *)
(* the queue is what the listeners are given, in the order it was read,    *)
(* whichever of the timer and the end of the run flushes it; only the      *)
(* disposal of the context drops it.                                       *)
HeardInOrder ==
  [][\/ disposed'
     \/ IsPrefix(queue, queue')
     \/ queue' = <<>> /\ Spelled(batch') = Spelled(queue)]_queue

(* The stream is served: the run wanted now reads it, and the app says so. *)
Served == connected /\ Live(Latest) /\ runs[Latest].phase = "reading"

(* A started client does not stay without its stream: if the daemon        *)
(* answers every now and then, the stream is open or the page is hidden    *)
(* again.  A restart must not wait for a run that never ends.              *)
Reconnects == started ~> Served \/ ~started

(* The client's state; what the listeners are given is left to             *)
(* HeardInOrder.                                                           *)
ClientTypeOK ==
  /\ started \in BOOLEAN /\ disposed \in BOOLEAN /\ generation \in Nat
  /\ runs \in Seq([phase : Phases, active : Nat, aborted : BOOLEAN])
  /\ Latest \in 1 .. MaxStarts
  /\ attempt \in 0 .. Latest
  /\ connected \in BOOLEAN
  /\ queue \in Seq(Event) /\ Len(queue) <= MaxQueue
  /\ timer = (queue # <<>>)

=============================================================================
