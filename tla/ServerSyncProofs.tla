--------------------------- MODULE ServerSyncProofs ---------------------------
(***************************************************************************)
(* One stream at a time, every event heard in order, and nothing of what   *)
(* a lost stream left out of date forgotten, for any number of restarts,   *)
(* directories and events.                                                 *)
(*                                                                         *)
(* Nothing stops a run from outside: start() and stop() only move the      *)
(* generation on and abort the attempt.  What keeps two requests apart is  *)
(* the chain of runs, each awaiting the one before it (Chained): whatever  *)
(* follows a run that is not over is still queued.  What keeps a request   *)
(* from outliving its run is that the attempt to abort is known (Known):   *)
(* one that is not aborted is `attempt', and of the latest run.  The same  *)
(* chain leaves a run that can go on (NeverStuck).                         *)
(*                                                                         *)
(* What is read passes four folds: the merging of deltas, the listeners'   *)
(* lists put one after the other, the pushes and the deletions of the      *)
(* queue of directories.  A fold is a CHOOSE of a function on sets of      *)
(* indices; each is shown to have one (FoldExists) and then read as the    *)
(* sequence of its values on the prefixes, over which a least              *)
(* counterexample does what induction would (Inductive).                   *)
(***************************************************************************)
EXTENDS ServerSync, TLAPS, SequenceTheorems, FiniteSetTheorems, WellFoundedInduction

Run == [phase : Phases, active : Nat, aborted : BOOLEAN]

Attempting(r) == runs[r].phase \in {"opening", "reading", "delaying"}

Chained ==
  /\ runs[1].phase # "queued"
  /\ \A q, r \in DOMAIN runs : q < r /\ runs[q].phase # "over" => runs[r].phase = "queued"

(* Only the latest run may be of this generation.                          *)
Outdated == \A r \in DOMAIN runs : /\ runs[r].active <= generation
                                   /\ r # Latest => runs[r].active < generation

Known ==
  \A r \in DOMAIN runs :
    Attempting(r) /\ ~runs[r].aborted => r = Latest /\ Live(r) /\ attempt = r

ClientInv == ClientTypeOK /\ Chained /\ Outdated /\ Known

-----------------------------------------------------------------------------
LEMMA RunsShape ==
  ASSUME ClientTypeOK
  PROVE  /\ runs \in Seq(Run)
         /\ DOMAIN runs = 1 .. Latest /\ Latest \in Nat \ {0} /\ Latest \in DOMAIN runs
         /\ \A r \in DOMAIN runs : runs[r] \in Run
<1>1. runs \in Seq(Run) /\ Len(runs) \in 1 .. MaxStarts
  BY DEF ClientTypeOK, Latest, Run
<1>2. Len(runs) \in Nat /\ DOMAIN runs = 1 .. Len(runs) /\ Len(runs) >= 1
  BY <1>1, LenProperties
<1>3. \A r \in 1 .. Len(runs) : runs[r] \in Run
  BY <1>1, ElementOfSeq
<1> QED
  BY <1>1, <1>2, <1>3 DEF Latest

(* The steps that leave the runs alone.                                    *)
LEMMA RunsAlone ==
  ASSUME ClientInv, UNCHANGED <<lifecycle, runs, attempt>>
  PROVE  Chained' /\ Outdated' /\ Known'
BY DEF ClientInv, Chained, Outdated, Known, Live, Latest, Attempting, lifecycle

LEMMA InitInv == ASSUME Init PROVE ClientInv
<1> USE DEF Init, ClientInit
<1>1. runs \in Seq(Run) /\ Len(runs) = 1 /\ runs[1] = [phase |-> "opening", active |-> 1, aborted |-> FALSE]
  BY DEF Run, Phases
<1>2. queue = <<>> /\ queue \in Seq(Event) /\ Len(queue) = 0
  OBVIOUS
<1>2a. Latest \in 1 .. MaxStarts /\ attempt \in 0 .. Latest /\ Len(queue) <= MaxQueue
  BY <1>1, <1>2, ClientAssumption DEF Latest
<1>2b. ClientTypeOK
  BY <1>1, <1>2, <1>2a DEF ClientTypeOK, Run
<1>3. DOMAIN runs = {1}
  BY <1>1
<1>4. Chained /\ Outdated /\ Known
  BY <1>1, <1>3 DEF Chained, Outdated, Known, Live, Latest, Attempting
<1> QED
  BY <1>2b, <1>4 DEF ClientInv

-----------------------------------------------------------------------------
(* What the runs become is a sequence of runs again.                       *)
LEMMA Reshaped ==
  ASSUME ClientTypeOK, NEW f \in [DOMAIN runs -> Run], runs' = f
  PROVE  runs' \in Seq(Run) /\ Latest' = Latest /\ DOMAIN runs' = DOMAIN runs
<1>1. DOMAIN runs = 1 .. Latest /\ Latest \in Nat
  BY RunsShape
<1>2. f \in Seq(Run) /\ Len(f) = Latest
  BY <1>1, SeqDef
<1> QED
  BY <1>1, <1>2 DEF Latest

(* A run is chained to those before it: one that is under way is the       *)
(* first that is not over.                                                 *)
LEMMA FirstUnderWay ==
  ASSUME ClientInv, NEW r \in DOMAIN runs,
         \/ runs[r].phase \notin {"queued", "over"}
         \/ runs[r].phase = "queued" /\ runs[r - 1].phase = "over" /\ r - 1 \in DOMAIN runs
         \/ runs[r].phase = "over"
  PROVE  \A q \in DOMAIN runs : q < r => runs[q].phase = "over"
<1>1. DOMAIN runs = 1 .. Latest /\ Latest \in Nat
  BY RunsShape DEF ClientInv
<1>2. SUFFICES ASSUME NEW q \in DOMAIN runs, q < r, runs[q].phase # "over" PROVE FALSE
  OBVIOUS
<1>3. runs[r].phase = "queued"
  BY <1>2 DEF ClientInv, Chained
<1>4. runs[r - 1].phase = "over" /\ r - 1 \in DOMAIN runs
  BY <1>3
<1>5. q < r - 1
  BY <1>1, <1>2, <1>4
<1>6. runs[r - 1].phase = "queued"
  BY <1>2, <1>4, <1>5 DEF ClientInv, Chained
<1> QED
  BY <1>4, <1>6

(* A step of one run that has none before it under way.                    *)
LEMMA OneRunMoves ==
  ASSUME ClientInv, NEW r \in DOMAIN runs, NEW new \in Run,
         runs' = [runs EXCEPT ![r] = new],
         new.active = runs[r].active, new.phase # "queued",
         \A q \in DOMAIN runs : q < r => runs[q].phase = "over",
         runs[r].phase # "over", UNCHANGED generation
  PROVE  /\ Chained' /\ Outdated'
         /\ runs' \in Seq(Run) /\ Latest' = Latest /\ DOMAIN runs' = DOMAIN runs
         /\ runs'[r] = new
         /\ \A q \in DOMAIN runs : q # r => runs'[q] = runs[q]
<1>1. DOMAIN runs = 1 .. Latest /\ Latest \in Nat /\ \A q \in DOMAIN runs : runs[q] \in Run
  BY RunsShape DEF ClientInv
<1>2. [runs EXCEPT ![r] = new] \in [DOMAIN runs -> Run]
  BY <1>1, RunsShape DEF ClientInv
<1>3. runs' \in Seq(Run) /\ Latest' = Latest /\ DOMAIN runs' = DOMAIN runs
  BY <1>2, Reshaped DEF ClientInv
<1>4. runs'[r] = new /\ \A q \in DOMAIN runs : q # r => runs'[q] = runs[q]
  BY RunsShape DEF ClientInv
<1>5. Outdated'
  BY <1>3, <1>4 DEF ClientInv, Outdated
<1>6. Chained'
  <2>0. runs'[1].phase # "queued"
    BY <1>1, <1>4, RunsShape DEF ClientInv, Chained
  <2>1. SUFFICES ASSUME NEW q \in DOMAIN runs, NEW t \in DOMAIN runs, q < t, runs'[q].phase # "over"
                 PROVE  runs'[t].phase = "queued"
    BY <1>3, <2>0 DEF Chained
  <2>2. CASE q = r
    <3>1. runs[t].phase = "queued" /\ t # r
      BY <1>1, <2>1, <2>2 DEF ClientInv, Chained
    <3> QED
      BY <3>1, <1>4
  <2>3. CASE q # r
    <3>1. runs[q].phase # "over" /\ runs[t].phase = "queued"
      BY <2>1, <2>3, <1>4 DEF ClientInv, Chained
    <3>2. t # r
      BY <2>1, <3>1
    <3> QED
      BY <3>1, <3>2, <1>4
  <2> QED
    BY <2>2, <2>3
<1> QED
  BY <1>3, <1>4, <1>5, <1>6

(* No other run is under way.                                              *)
LEMMA Alone ==
  ASSUME ClientInv, NEW r \in DOMAIN runs, runs[r].phase # "over",
         \A q \in DOMAIN runs : q < r => runs[q].phase = "over",
         NEW q \in DOMAIN runs, q # r
  PROVE  ~Attempting(q)
<1>1. DOMAIN runs = 1 .. Latest /\ Latest \in Nat
  BY RunsShape DEF ClientInv
<1>2. CASE q < r
  BY <1>2 DEF Attempting
<1>3. CASE r < q
  BY <1>3 DEF ClientInv, Chained, Attempting
<1> QED
  BY <1>1, <1>2, <1>3

(* The queue and its timer.                                                *)
QueueFits == queue \in Seq(Event) /\ Len(queue) <= MaxQueue /\ timer = (queue # <<>>)

LEMMA QueueKept ==
  ASSUME ClientTypeOK, nothingHeard \/ flush
  PROVE  QueueFits'
<1>1. CASE nothingHeard
  BY <1>1 DEF nothingHeard, ClientTypeOK, QueueFits
<1>2. CASE flush
  <2>1. queue' = <<>> /\ timer' = FALSE
    BY <1>2 DEF flush
  <2>2. queue' \in Seq(Event) /\ Len(queue') <= MaxQueue
    BY <2>1, ClientAssumption
  <2> QED
    BY <2>1, <2>2 DEF QueueFits
<1> QED
  BY <1>1, <1>2

LEMMA QueueGrows ==
  ASSUME ClientTypeOK, NEW event \in Event, Len(queue) < MaxQueue, publish(event)
  PROVE  QueueFits'
<1>1. queue' = Append(queue, event) /\ timer' = TRUE /\ queue \in Seq(Event)
  BY DEF publish, ClientTypeOK
<1>2. queue' \in Seq(Event) /\ Len(queue') = Len(queue) + 1
  BY <1>1, AppendProperties
<1>3. Len(queue) \in Nat /\ Len(queue') <= MaxQueue /\ queue' # <<>>
  BY <1>1, <1>2, LenProperties, ClientAssumption
<1> QED
  BY <1>1, <1>2, <1>3 DEF QueueFits

LEMMA AssembleType ==
  ASSUME ClientTypeOK, QueueFits',
         started' \in BOOLEAN, disposed' \in BOOLEAN, generation' \in Nat,
         runs' \in Seq(Run), Latest' \in 1 .. MaxStarts, attempt' \in 0 .. Latest',
         connected' \in BOOLEAN
  PROVE  ClientTypeOK'
BY DEF ClientTypeOK, QueueFits, Run

LEMMA TypeAssembled ==
  ASSUME ClientTypeOK, QueueFits', UNCHANGED <<started, generation, disposed>>,
         runs' \in Seq(Run), Latest' = Latest, attempt' \in 0 .. Latest,
         connected' \in BOOLEAN
  PROVE  ClientTypeOK'
<1>1. started' \in BOOLEAN /\ disposed' \in BOOLEAN /\ generation' \in Nat
  BY DEF ClientTypeOK
<1>2. Latest' \in 1 .. MaxStarts /\ attempt' \in 0 .. Latest'
  BY DEF ClientTypeOK
<1> QED
  BY <1>1, <1>2, AssembleType


-----------------------------------------------------------------------------
LEMMA EndsInv ==
  ASSUME ClientInv, NEW r \in DOMAIN runs, Ends(r), runs[r].phase # "over",
         \A q \in DOMAIN runs : q < r => runs[q].phase = "over",
         UNCHANGED <<started, generation, disposed>>
  PROVE  ClientInv'
<1> DEFINE new == [runs[r] EXCEPT !.phase = "over"]
<1>1. /\ DOMAIN runs = 1 .. Latest /\ Latest \in Nat \ {0}
      /\ \A q \in DOMAIN runs : runs[q] \in Run
  BY RunsShape DEF ClientInv
<1>2. new \in Run /\ new.active = runs[r].active /\ new.phase = "over"
  BY <1>1 DEF Run, Phases
<1>3. runs' = [runs EXCEPT ![r] = new]
  BY DEF Ends
<1> HIDE DEF new
<1>4. /\ Chained' /\ Outdated'
      /\ runs' \in Seq(Run) /\ Latest' = Latest /\ DOMAIN runs' = DOMAIN runs
      /\ runs'[r] = new
      /\ \A q \in DOMAIN runs : q # r => runs'[q] = runs[q]
  BY <1>2, <1>3, OneRunMoves
<1>5. Known'
  <2>1. SUFFICES ASSUME NEW q \in DOMAIN runs, Attempting(q)' PROVE FALSE
    BY <1>4 DEF Known
  <2>2. q # r
    BY <2>1, <1>2, <1>4 DEF Attempting
  <2> QED
    BY <2>1, <2>2, <1>4, Alone DEF Attempting
<1>6. QueueFits'
  BY QueueKept DEF Ends, ClientInv
<1>7. connected' \in BOOLEAN /\ attempt' \in 0 .. Latest
  BY <1>1 DEF Ends, ClientInv, ClientTypeOK
<1>8. ClientTypeOK'
  BY <1>4, <1>6, <1>7, TypeAssembled DEF ClientInv
<1> QED
  BY <1>4, <1>5, <1>8 DEF ClientInv

LEMMA LoopsInv ==
  ASSUME ClientInv, NEW r \in DOMAIN runs, Loops(r), runs[r].phase # "over",
         \A q \in DOMAIN runs : q < r => runs[q].phase = "over"
  PROVE  ClientInv'
<1>1. /\ DOMAIN runs = 1 .. Latest /\ Latest \in Nat \ {0}
      /\ \A q \in DOMAIN runs : runs[q] \in Run
  BY RunsShape DEF ClientInv
<1>2. UNCHANGED <<started, generation, disposed>>
  BY DEF Loops, lifecycle
<1>3. CASE Live(r) /\ Opens(r)
  <2> DEFINE new == [runs[r] EXCEPT !.phase = "opening", !.aborted = FALSE]
  <2>1. new \in Run /\ new.active = runs[r].active /\ new.phase = "opening" /\ ~new.aborted
    BY <1>1 DEF Run, Phases
  <2>2. runs' = [runs EXCEPT ![r] = new]
    BY <1>3 DEF Opens
  <2> HIDE DEF new
  <2>3. /\ Chained' /\ Outdated'
        /\ runs' \in Seq(Run) /\ Latest' = Latest /\ DOMAIN runs' = DOMAIN runs
        /\ runs'[r] = new
        /\ \A q \in DOMAIN runs : q # r => runs'[q] = runs[q]
    BY <1>2, <2>1, <2>2, OneRunMoves
  <2>4. r = Latest
    BY <1>1, <1>3 DEF Live, ClientInv, Outdated, ClientTypeOK, Run
  <2>5. Known'
    <3>1. SUFFICES ASSUME NEW q \in DOMAIN runs, Attempting(q)'
                   PROVE  q = Latest /\ Live(q)' /\ attempt' = q
      BY <2>3 DEF Known
    <3>2. q = r
      BY <3>1, <2>3, Alone DEF Attempting
    <3> QED
      BY <3>2, <2>1, <2>3, <2>4, <1>2, <1>3 DEF Live, Opens
  <2>6. attempt' = r /\ connected' = FALSE /\ QueueFits'
    BY <1>3, QueueKept DEF Opens, ClientInv
  <2>7. ClientTypeOK'
    <3>1. attempt' \in 0 .. Latest
      BY <1>1, <2>6
    <3> QED
      BY <3>1, <1>2, <2>3, <2>6, TypeAssembled DEF ClientInv
  <2> QED
    BY <2>3, <2>5, <2>7 DEF ClientInv
<1>4. CASE Ends(r)
  BY <1>2, <1>4, EndsInv
<1> QED
  BY <1>3, <1>4 DEF Loops

-----------------------------------------------------------------------------
(* Each of the client's steps keeps the invariant.                         *)
LEMMA ResumeInv ==
  ASSUME ClientInv, NEW r \in DOMAIN runs, Resume(r)
  PROVE  ClientInv'
<1>1. runs[r].phase = "queued" /\ runs[r - 1].phase = "over" /\ Loops(r)
  BY DEF Resume
<1>2. r - 1 \in DOMAIN runs
  <2>1. DOMAIN runs = 1 .. Latest /\ Latest \in Nat
    BY RunsShape DEF ClientInv
  <2>2. r # 1
    BY <1>1 DEF ClientInv, Chained
  <2> QED
    BY <2>1, <2>2
<1>3. \A q \in DOMAIN runs : q < r => runs[q].phase = "over"
  BY <1>1, <1>2, FirstUnderWay
<1> QED
  BY <1>1, <1>3, LoopsInv

LEMMA DelayedInv ==
  ASSUME ClientInv, NEW r \in DOMAIN runs, Delayed(r)
  PROVE  ClientInv'
<1>1. runs[r].phase = "delaying" /\ Loops(r)
  BY DEF Delayed
<1>2. \A q \in DOMAIN runs : q < r => runs[q].phase = "over"
  BY <1>1, FirstUnderWay
<1> QED
  BY <1>1, <1>2, LoopsInv

(* A run under way goes on to read, or to wait.                            *)
LEMMA PhaseInv ==
  ASSUME ClientInv, NEW r \in DOMAIN runs, Trying(r), NEW phase \in {"reading", "delaying"},
         runs' = [runs EXCEPT ![r].phase = phase],
         UNCHANGED <<started, generation, disposed, attempt>>,
         connected' \in BOOLEAN, QueueFits'
  PROVE  ClientInv'
<1> DEFINE new == [runs[r] EXCEPT !.phase = phase]
<1>1. /\ DOMAIN runs = 1 .. Latest /\ Latest \in Nat \ {0}
      /\ \A q \in DOMAIN runs : runs[q] \in Run
  BY RunsShape DEF ClientInv
<1>2. /\ new \in Run /\ new.active = runs[r].active /\ new.phase = phase
      /\ new.aborted = runs[r].aborted
  BY <1>1 DEF Run, Phases
<1>3. runs' = [runs EXCEPT ![r] = new]
  OBVIOUS
<1> HIDE DEF new
<1>4. \A q \in DOMAIN runs : q < r => runs[q].phase = "over"
  BY FirstUnderWay DEF Trying
<1>5. /\ Chained' /\ Outdated'
      /\ runs' \in Seq(Run) /\ Latest' = Latest /\ DOMAIN runs' = DOMAIN runs
      /\ runs'[r] = new
      /\ \A q \in DOMAIN runs : q # r => runs'[q] = runs[q]
  BY <1>2, <1>3, <1>4, OneRunMoves DEF Trying
<1>6. Known'
  <2>1. SUFFICES ASSUME NEW q \in DOMAIN runs, Attempting(q)', ~runs'[q].aborted
                 PROVE  q = Latest /\ Live(q)' /\ attempt' = q
    BY <1>5 DEF Known
  <2>2. q = r
    BY <2>1, <1>4, <1>5, Alone DEF Attempting, Trying
  <2>3. Attempting(r) /\ ~runs[r].aborted
    BY <2>1, <2>2, <1>2, <1>5 DEF Attempting, Trying
  <2>4. r = Latest /\ Live(r) /\ attempt = r
    BY <2>3 DEF ClientInv, Known
  <2> QED
    BY <2>2, <2>4, <1>2, <1>5 DEF Live
<1>7. ClientTypeOK'
  BY <1>5, TypeAssembled DEF ClientInv, ClientTypeOK
<1> QED
  BY <1>5, <1>6, <1>7 DEF ClientInv

LEMMA HandshakeInv ==
  ASSUME ClientInv, NEW r \in DOMAIN runs, Handshake(r)
  PROVE  ClientInv'
<1>1. Heard(Hello) \in Event
  BY DEF Heard, Event
<1>2. QueueFits'
  BY <1>1, QueueGrows DEF Handshake, ClientInv
<1> QED
  BY <1>2, PhaseInv DEF Handshake, Trying, lifecycle

LEMMA EndAttemptInv ==
  ASSUME ClientInv, NEW r \in DOMAIN runs, EndAttempt(r)
  PROVE  ClientInv'
<1>1. UNCHANGED <<started, generation, disposed>> /\ Trying(r)
  BY DEF EndAttempt, lifecycle
<1>2. CASE Live(r)
  <2>1. QueueFits'
    BY <1>2, QueueKept DEF EndAttempt, ClientInv
  <2> QED
    BY <1>1, <1>2, <2>1, PhaseInv DEF EndAttempt
<1>3. CASE ~Live(r)
  <2>1. \A q \in DOMAIN runs : q < r => runs[q].phase = "over"
    BY <1>1, FirstUnderWay DEF Trying
  <2> QED
    BY <1>1, <1>3, <2>1, EndsInv DEF EndAttempt, Trying
<1> QED
  BY <1>2, <1>3

(* The steps that leave the runs alone.                                    *)
LEMMA QueueInv ==
  ASSUME ClientInv, QueueFits', UNCHANGED <<lifecycle, runs, attempt, connected>>
  PROVE  ClientInv'
<1>1. Chained' /\ Outdated' /\ Known'
  BY RunsAlone
<1>2. ClientTypeOK'
  BY DEF ClientInv, ClientTypeOK, QueueFits, Latest, lifecycle
<1> QED
  BY <1>1, <1>2 DEF ClientInv

LEMMA ReceiveInv ==
  ASSUME ClientInv, NEW r \in DOMAIN runs, NEW event \in Arrivals, Receive(r, event)
  PROVE  ClientInv'
<1>1. event \in Event
  <2>1. CASE event \in [key : Keys, text : {<<f>> : f \in Fragments}]
    <3>1. PICK f \in Fragments : event.text = <<f>>
      BY <2>1
    <3>2. event.text \in Seq(Fragments)
      BY <3>1
    <3> QED
      BY <2>1, <3>2 DEF Event
  <2>2. CASE event \in {Heard(x) : x \in Others}
    <3>1. PICK x \in Others : event = [key |-> x, text |-> <<>>]
      BY <2>2 DEF Heard
    <3>2. <<>> \in Seq(Fragments)
      OBVIOUS
    <3> QED
      BY <3>1, <3>2 DEF Event
  <2> QED
    BY <2>1, <2>2 DEF Arrivals
<1>2. QueueFits'
  BY <1>1, QueueGrows DEF Receive, ClientInv
<1> QED
  BY <1>2, QueueInv DEF Receive

LEMMA FlushInv ==
  ASSUME ClientInv, Flush
  PROVE  ClientInv'
<1>1. QueueFits'
  BY QueueKept DEF Flush, ClientInv
<1> QED
  BY <1>1, QueueInv DEF Flush

(* A new run is the latest, and all others are outdated.                   *)
LEMMA StartInv ==
  ASSUME ClientInv, Start
  PROVE  ClientInv'
<1> DEFINE run == Latest + 1
           waits == runs[Latest].phase # "over"
           new == [phase   |-> IF waits THEN "queued" ELSE "opening",
                   active  |-> generation + 1,
                   aborted |-> FALSE]
<1>1. /\ DOMAIN runs = 1 .. Latest /\ Latest \in Nat \ {0}
      /\ \A q \in DOMAIN runs : runs[q] \in Run
      /\ runs \in Seq(Run) /\ Latest = Len(runs) /\ generation \in Nat
  BY RunsShape DEF ClientInv, ClientTypeOK, Latest
<1>2. /\ ~disposed /\ ~started /\ run <= MaxStarts
      /\ started' = TRUE /\ generation' = generation + 1 /\ disposed' = disposed
      /\ runs' = Append(runs, new)
      /\ attempt' = IF waits THEN attempt ELSE run
      /\ connected' = (waits /\ connected)
      /\ nothingHeard
  BY DEF Start
<1>3. new \in Run /\ new.active = generation + 1 /\ ~new.aborted
      /\ new.phase = IF waits THEN "queued" ELSE "opening"
  BY <1>1 DEF Run, Phases
<1> HIDE DEF new
<1>4. /\ runs' \in Seq(Run) /\ Latest' = run /\ DOMAIN runs' = 1 .. run
      /\ runs'[run] = new /\ \A q \in DOMAIN runs : runs'[q] = runs[q]
  BY <1>1, <1>2, <1>3, AppendProperties DEF Latest
<1>5. \A q \in DOMAIN runs' : q = run \/ q \in DOMAIN runs
  BY <1>1, <1>4
<1>6. \A q \in DOMAIN runs : Attempting(q) => runs[q].aborted
  BY <1>2 DEF ClientInv, Known, Live
<1>7. ~waits => \A q \in DOMAIN runs : runs[q].phase = "over"
  <2>1. SUFFICES ASSUME ~waits, NEW q \in DOMAIN runs, runs[q].phase # "over" PROVE FALSE
    OBVIOUS
  <2>2. q < Latest
    BY <1>1, <2>1
  <2>3. runs[Latest].phase = "queued"
    BY <1>1, <2>1, <2>2 DEF ClientInv, Chained
  <2> QED
    BY <2>1, <2>3
<1>8. Chained'
  <2>1. runs'[1].phase # "queued"
    BY <1>1, <1>4 DEF ClientInv, Chained
  <2>2. ASSUME NEW q \in DOMAIN runs', NEW r \in DOMAIN runs', q < r, runs'[q].phase # "over"
        PROVE  runs'[r].phase = "queued"
    <3>1. q \in DOMAIN runs /\ runs[q].phase # "over"
      BY <1>1, <1>4, <2>2
    <3>2. CASE r = run
      BY <1>3, <1>4, <1>7, <3>1, <3>2
    <3>3. CASE r # run
      <4>1. r \in DOMAIN runs
        BY <1>5, <2>2, <3>3
      <4> QED
        BY <1>4, <2>2, <3>1, <4>1 DEF ClientInv, Chained
    <3> QED
      BY <3>2, <3>3
  <2> QED
    BY <2>1, <2>2 DEF Chained
<1>9. Outdated'
  <2>1. \A q \in DOMAIN runs : runs[q].active \in Nat /\ runs[q].active <= generation
    BY <1>1 DEF Run, ClientInv, Outdated
  <2> QED
    BY <1>1, <1>2, <1>3, <1>4, <1>5, <2>1 DEF Outdated
<1>10. Known'
  <2>1. SUFFICES ASSUME NEW q \in DOMAIN runs', Attempting(q)', ~runs'[q].aborted
                 PROVE  q = Latest' /\ Live(q)' /\ attempt' = q
    BY DEF Known
  <2>2. q = run
    BY <2>1, <1>4, <1>5, <1>6 DEF Attempting
  <2>3. ~waits
    BY <2>1, <2>2, <1>3, <1>4 DEF Attempting
  <2> QED
    BY <2>2, <2>3, <1>2, <1>3, <1>4 DEF Live
<1>11. Latest' \in 1 .. MaxStarts /\ attempt' \in 0 .. Latest'
  BY <1>1, <1>2, <1>4, ClientAssumption DEF ClientInv, ClientTypeOK
<1>12. QueueFits'
  BY <1>2, QueueKept DEF ClientInv
<1>13. connected' \in BOOLEAN /\ disposed' \in BOOLEAN /\ generation' \in Nat /\ started' \in BOOLEAN
  BY <1>1, <1>2 DEF ClientInv, ClientTypeOK
<1>14. ClientTypeOK'
  BY <1>4, <1>11, <1>12, <1>13, AssembleType DEF ClientInv
<1> QED
  BY <1>8, <1>9, <1>10, <1>14 DEF ClientInv

(* stop() outdates every run, and aborts the one that may be trying.       *)
LEMMA StopInv ==
  ASSUME ClientInv, NEW aborting, attempt \in aborting, stop(aborting),
         attempt' = attempt, disposed' \in BOOLEAN, UNCHANGED connected, QueueFits'
  PROVE  ClientInv'
<1>1. /\ DOMAIN runs = 1 .. Latest /\ Latest \in Nat \ {0}
      /\ \A q \in DOMAIN runs : runs[q] \in Run
      /\ generation \in Nat
  BY RunsShape DEF ClientInv, ClientTypeOK
<1> DEFINE f == [r \in DOMAIN runs |-> [runs[r] EXCEPT !.aborted = @ \/ r \in aborting]]
<1>2. runs' = f /\ started' = FALSE /\ generation' = generation + 1
  BY DEF stop
<1>3. \A r \in DOMAIN runs : f[r] \in Run /\ f[r].phase = runs[r].phase /\ f[r].active = runs[r].active
                            /\ (f[r].aborted <=> runs[r].aborted \/ r \in aborting)
  BY <1>1 DEF Run
<1>4. f \in [DOMAIN runs -> Run]
  BY <1>3
<1> HIDE DEF f
<1>5. runs' \in Seq(Run) /\ Latest' = Latest /\ DOMAIN runs' = DOMAIN runs
  BY <1>2, <1>4, Reshaped DEF ClientInv
<1>6. Chained'
  BY <1>1, <1>2, <1>3, <1>5 DEF ClientInv, Chained
<1>7. Outdated'
  BY <1>1, <1>2, <1>3, <1>5 DEF ClientInv, Outdated, Run
<1>8. Known'
  BY <1>2, <1>3, <1>5 DEF ClientInv, Known, Attempting
<1>9. ClientTypeOK'
  <2>1. Latest' \in 1 .. MaxStarts /\ attempt' \in 0 .. Latest'
    BY <1>5 DEF ClientInv, ClientTypeOK
  <2>2. generation' \in Nat
    BY <1>1, <1>2
  <2>2a. started' \in BOOLEAN
    BY <1>2, Zenon
  <2>3. connected' \in BOOLEAN
    BY DEF ClientInv, ClientTypeOK
  <2> QED
    BY <1>5, <2>1, <2>2, <2>2a, <2>3, AssembleType DEF ClientInv
<1> QED
  BY <1>6, <1>7, <1>8, <1>9 DEF ClientInv

LEMMA StopsInv ==
  ASSUME ClientInv, Stop \/ Dispose
  PROVE  ClientInv'
<1>1. CASE Stop
  <2>1. QueueFits'
    BY <1>1, QueueKept DEF Stop, ClientInv
  <2> QED
    BY <1>1, <2>1, StopInv DEF Stop, ClientInv, ClientTypeOK
<1>2. CASE Dispose
  <2>1. queue' = <<>> /\ timer' = FALSE
    BY <1>2 DEF Dispose
  <2>2. queue' \in Seq(Event) /\ Len(queue') <= MaxQueue
    BY <2>1, ClientAssumption
  <2>3. QueueFits'
    BY <2>1, <2>2 DEF QueueFits
  <2> QED
    BY <1>2, <2>3, StopInv DEF Dispose
<1> QED
  BY <1>1, <1>2

-----------------------------------------------------------------------------
LEMMA NextInv ==
  ASSUME ClientInv, [Next]_vars
  PROVE  ClientInv'
<1>1. ASSUME NEW r \in DOMAIN runs, Handshakes(r) PROVE ClientInv'
  BY <1>1, HandshakeInv DEF Handshakes
<1>2. ASSUME NEW r \in DOMAIN runs, EndsAttempt(r) PROVE ClientInv'
  BY <1>2, EndAttemptInv DEF EndsAttempt
<1>3. ASSUME NEW r \in DOMAIN runs, LoopsOn(r) PROVE ClientInv'
  BY <1>3, ResumeInv, DelayedInv DEF LoopsOn
<1>4. ASSUME NEW r \in DOMAIN runs, Receives(r) PROVE ClientInv'
  BY <1>4, ReceiveInv DEF Receives
<1>5. CASE Flushes
  BY <1>5, FlushInv DEF Flushes
<1>6. CASE PageStep
  BY <1>6, StartInv, StopsInv DEF PageStep
<1>7. CASE Disposes
  BY <1>7, StopsInv DEF Disposes
<1>8. CASE Unseen
  <2>1. QueueFits'
    BY <1>8, QueueKept DEF Unseen, ClientInv
  <2> QED
    BY <1>8, <2>1, QueueInv DEF Unseen
<1>9. CASE UNCHANGED vars
  BY <1>9 DEF vars, clientVars, lifecycle, ClientInv, ClientTypeOK, Chained, Outdated,
     Known, Live, Latest, Attempting
<1> QED
  BY <1>1, <1>2, <1>3, <1>4, <1>5, <1>6, <1>7, <1>8, <1>9
     DEF Next, Drains, GoesOn, Updates, Settles, Browses

LEMMA ClientInvariant == Spec => []ClientInv
<1>1. Init => ClientInv
  BY InitInv
<1>2. ClientInv /\ [Next]_vars => ClientInv'
  BY NextInv
<1> QED
  BY <1>1, <1>2, PTL DEF Spec

(* Every variable of the client keeps its type, except what the listeners  *)
(* are given.                                                              *)
THEOREM ClientTypesHold == Spec => []ClientTypeOK
<1>1. ClientInv => ClientTypeOK
  BY DEF ClientInv
<1> QED
  BY <1>1, ClientInvariant, PTL

(* No two requests for the stream are open, and an open one that is not    *)
(* aborted is the current run's.                                           *)
THEOREM AtMostOneStream == Spec => []OneStream
<1>1. ClientInv => OneStream
  <2>1. SUFFICES ASSUME ClientInv, NEW r \in DOMAIN runs, Trying(r)
                 PROVE  /\ \A q \in DOMAIN runs : Trying(q) => q = r
                        /\ ~runs[r].aborted => r = Latest /\ Live(r)
    BY DEF OneStream
  <2>2. \A q \in DOMAIN runs : q < r => runs[q].phase = "over"
    BY <2>1, FirstUnderWay DEF Trying
  <2>3. \A q \in DOMAIN runs : q # r => ~Attempting(q)
    BY <2>1, <2>2, Alone DEF Trying
  <2> QED
    BY <2>1, <2>3 DEF Trying, Attempting, ClientInv, Known
<1> QED
  BY <1>1, ClientInvariant, PTL

-----------------------------------------------------------------------------
(* Induction: the least counterexample.                                    *)
LEMMA LeastNatural ==
  ASSUME NEW T, T \subseteq Nat, T # {}
  PROVE  \E n \in T : \A m \in T : n <= m
<1> DEFINE R == OpToRel(<, Nat)
<1>1. IsWellFoundedOn(R, Nat)
  BY NatLessThanWellFounded
<1>2. \A m, n \in Nat : m < n => <<m, n>> \in R
  BY DEF OpToRel
<1> HIDE DEF R
<1>3. PICK n \in T : \A m \in T : ~ (<<m, n>> \in R)
  BY <1>1, WFMin, Zenon
<1>4. ASSUME NEW m \in T PROVE n <= m
  <2>1. m \in Nat /\ n \in Nat
    OBVIOUS
  <2>2. ~(m < n)
    BY <1>2, <1>3, <2>1
  <2> QED
    BY <2>1, <2>2
<1> QED
  BY <1>4

LEMMA Inductive ==
  ASSUME NEW n \in Nat, NEW T, 0 \in T, \A i \in 1 .. n : i - 1 \in T => i \in T
  PROVE  \A i \in 0 .. n : i \in T
<1>1. SUFFICES ASSUME (0 .. n) \ T # {} PROVE FALSE
  OBVIOUS
<1>2. PICK i \in (0 .. n) \ T : \A j \in (0 .. n) \ T : i <= j
  <2>1. (0 .. n) \ T \subseteq Nat
    OBVIOUS
  <2> QED
    BY <1>1, <2>1, LeastNatural
<1>3. i \in 1 .. n /\ i - 1 \in 0 .. n /\ ~(i <= i - 1)
  BY <1>2
<1>4. i - 1 \in T
  BY <1>2, <1>3
<1> QED
  BY <1>2, <1>3, <1>4

LEMMA MaxIsIn ==
  ASSUME NEW n \in Nat, NEW s, s \subseteq 1 .. n, s # {}
  PROVE  Max(s) \in s /\ \A y \in s : Max(s) >= y
<1>1. \E x \in s : \A y \in s : x >= y
  <2> DEFINE T == {n - x : x \in s}
  <2>1. T \subseteq Nat /\ T # {}
    <3>1. \A x \in s : x \in 1 .. n /\ n - x \in Nat
      OBVIOUS
    <3> QED
      BY <3>1
  <2>2. PICK t \in T : \A u \in T : t <= u
    BY <2>1, LeastNatural
  <2>3. PICK x \in s : t = n - x
    OBVIOUS
  <2>4. ASSUME NEW y \in s PROVE x >= y
    <3>1. n - y \in T /\ n - x <= n - y
      BY <2>2, <2>3
    <3>2. x \in 1 .. n /\ y \in 1 .. n
      OBVIOUS
    <3> QED
      BY <3>1, <3>2
  <2> QED
    BY <2>4
<1> QED
  BY <1>1 DEF Max

LEMMA MaxOfPrefix ==
  ASSUME NEW n \in Nat, NEW s, s \subseteq 1 .. n, n \in s
  PROVE  Max(s) = n
<1>1. Max(s) \in s /\ Max(s) >= n
  BY MaxIsIn
<1>2. Max(s) \in 1 .. n
  BY <1>1
<1> QED
  BY <1>1, <1>2

Iterates(g, base, step, n) ==
   g = [s \in SUBSET (1 .. n) |-> IF s = {} THEN base ELSE step[<<g[s \ {Max(s)}], Max(s)>>]]

LEMMA FoldExists ==
  ASSUME NEW X, NEW base \in X, NEW n \in Nat, NEW step \in [X \X (1 .. n) -> X]
  PROVE  \E g \in [SUBSET (1 .. n) -> X] : Iterates(g, base, step, n)
<1> DEFINE T == {m \in Nat : \E g \in [SUBSET (1 .. m) -> X] : Iterates(g, base, step, m)}
<1>1. 0 \in T
  <2> DEFINE g == [s \in SUBSET (1 .. 0) |-> base]
  <2>1. 1 .. 0 = {}
    OBVIOUS
  <2>2. g \in [SUBSET (1 .. 0) -> X]
    OBVIOUS
  <2>3. \A s \in SUBSET (1 .. 0) : s = {}
    BY <2>1
  <2>4. Iterates(g, base, step, 0)
    BY <2>3 DEF Iterates
  <2> QED
    BY <2>2, <2>4
<1>2. ASSUME NEW m \in 1 .. n, m - 1 \in T PROVE m \in T
  <2>1. PICK g \in [SUBSET (1 .. m - 1) -> X] : Iterates(g, base, step, m - 1)
    BY <1>2
  <2> DEFINE h == [s \in SUBSET (1 .. m) |->
                     IF m \in s THEN step[<<g[s \ {m}], m>>] ELSE g[s]]
  <2>2. m \in Nat /\ m - 1 \in Nat /\ 1 .. m = (1 .. m - 1) \cup {m} /\ m \notin 1 .. m - 1
    OBVIOUS
  <2>3. \A s \in SUBSET (1 .. m) : /\ m \notin s => s \in SUBSET (1 .. m - 1)
                                   /\ m \in s => s \ {m} \in SUBSET (1 .. m - 1)
    BY <2>2
  <2>4. h \in [SUBSET (1 .. m) -> X]
    <3>1. ASSUME NEW s \in SUBSET (1 .. m) PROVE h[s] \in X
      <4>1. CASE m \in s
        <5>1. g[s \ {m}] \in X
          BY <4>1, <2>3
        <5> QED
          BY <4>1, <5>1
      <4>2. CASE m \notin s
        BY <4>2, <2>3
      <4> QED
        BY <4>1, <4>2
    <3> QED
      BY <3>1
  <2>5. ASSUME NEW s \in SUBSET (1 .. m)
        PROVE  h[s] = IF s = {} THEN base ELSE step[<<h[s \ {Max(s)}], Max(s)>>]
    <3>1. CASE m \in s
      <4>1. Max(s) = m
        BY <3>1, <2>2, MaxOfPrefix
      <4>2. h[s \ {m}] = g[s \ {m}]
        BY <2>2, <2>3, <3>1
      <4> QED
        BY <3>1, <4>1, <4>2
    <3>2. CASE m \notin s /\ s = {}
      BY <3>2, <2>1, <2>3 DEF Iterates
    <3>3. CASE m \notin s /\ s # {}
      <4>1. s \in SUBSET (1 .. m - 1) /\ s \ {Max(s)} \in SUBSET (1 .. m - 1) /\ m \notin s \ {Max(s)}
        BY <3>3, <2>3
      <4>2. g[s] = step[<<g[s \ {Max(s)}], Max(s)>>]
        BY <3>3, <2>1, <4>1 DEF Iterates
      <4>3. h[s] = g[s] /\ h[s \ {Max(s)}] = g[s \ {Max(s)}]
        BY <3>3, <4>1, <2>2
      <4> QED
        BY <3>3, <4>2, <4>3
    <3> QED
      BY <3>1, <3>2, <3>3
  <2>6. Iterates(h, base, step, m)
    <3> HIDE DEF h
    <3>1. h = [s \in SUBSET (1 .. m) |-> h[s]]
      BY <2>4
    <3> QED
      BY <3>1, <2>5 DEF Iterates
  <2> QED
    BY <2>2, <2>4, <2>6
<1>3. n \in T
  <2> HIDE DEF T
  <2> QED
    BY <1>1, <1>2, Inductive
<1> QED
  BY <1>3

LEMMA Prefix ==
  ASSUME NEW n \in Nat, NEW i \in 1 .. n
  PROVE  /\ 1 .. i \in SUBSET (1 .. n) /\ 1 .. i # {} /\ Max(1 .. i) = i
         /\ (1 .. i) \ {i} = 1 .. i - 1
<1>1. 1 .. i \subseteq 1 .. n /\ i \in 1 .. i /\ (1 .. i) \ {i} = 1 .. i - 1
  OBVIOUS
<1> QED
  BY <1>1, MaxOfPrefix

-----------------------------------------------------------------------------
(* The folds of the model, as the values they go through.                  *)
LEMMA AddEventType ==
  ASSUME NEW output \in Seq(Event), NEW event \in Event
  PROVE  AddEvent(output, event) \in Seq(Event)
<1>1. CASE output # <<>> /\ event.key \in Keys /\ Last(output).key = event.key
  <2> DEFINE merged == [event EXCEPT !.text = Last(output).text \o event.text]
  <2>1. Last(output) \in Event
    BY <1>1, LenProperties, ElementOfSeq, EmptySeq DEF Last
  <2>2. Last(output).text \o event.text \in Seq(Fragments)
    BY <2>1, ConcatProperties DEF Event
  <2>3. merged \in Event
    BY <2>2 DEF Event
  <2>4. Front(output) \in Seq(Event)
    BY <1>1, LenProperties, EmptySeq, SubSeqProperties DEF Front
  <2>5. AddEvent(output, event) = Front(output) \o <<merged>>
    BY <1>1 DEF AddEvent
  <2> HIDE DEF merged
  <2> QED
    BY <2>3, <2>4, <2>5, ConcatProperties
<1>2. CASE ~(output # <<>> /\ event.key \in Keys /\ Last(output).key = event.key)
  BY <1>2, AppendProperties DEF AddEvent
<1> QED
  BY <1>1, <1>2

Piece == (Keys \cup Others \cup {Hello}) \cup ((Keys \cup Others \cup {Hello}) \X Fragments)

LEMMA PiecesType ==
  ASSUME NEW event \in Event
  PROVE  Pieces(event) \in Seq(Piece)
<1>1. event.key \in Keys \cup Others \cup {Hello} /\ event.text \in Seq(Fragments)
  BY DEF Event
<1>2. CASE event.text = <<>>
  BY <1>1, <1>2 DEF Pieces, Piece
<1>3. CASE event.text # <<>>
  <2>1. Len(event.text) \in Nat /\ DOMAIN event.text = 1 .. Len(event.text)
        /\ \A i \in 1 .. Len(event.text) : event.text[i] \in Fragments
    BY <1>1, LenProperties, ElementOfSeq
  <2>2. Pieces(event) = [i \in 1 .. Len(event.text) |-> <<event.key, event.text[i]>>]
    BY <1>3, <2>1 DEF Pieces
  <2>3. \A i \in 1 .. Len(event.text) : <<event.key, event.text[i]>> \in Piece
    BY <1>1, <2>1 DEF Piece
  <2> QED
    BY <2>1, <2>2, <2>3, IsASeq
<1> QED
  BY <1>2, <1>3

(* What push() makes of the keys, one directory after the other.           *)
Enqueues(keys, dirs, h) ==
  /\ h[0] = keys
  /\ \A i \in 1 .. Len(dirs) : h[i] = Enqueue(h[i - 1], dirs[i])
  /\ h[Len(dirs)] = EnqueueAll(keys, dirs)

LEMMA EnqueuesThrough ==
  ASSUME NEW S, NEW keys \in Seq(S), NEW dirs \in Seq(S)
  PROVE  \E h : Enqueues(keys, dirs, h)
<1> DEFINE n == Len(dirs)
           X == Seq(S)
           step == [z \in X \X (1 .. n) |-> Enqueue(z[1], dirs[z[2]])]
           Folds(f) == f = [s \in SUBSET DOMAIN dirs |-> IF s = {} THEN keys
                              ELSE Enqueue(f[s \ {Max(s)}], dirs[Max(s)])]
           iter == CHOOSE f : Folds(f)
<1>1. n \in Nat /\ DOMAIN dirs = 1 .. n /\ \A i \in 1 .. n : dirs[i] \in S
  BY ElementOfSeq, LenProperties
<1>2. step \in [X \X (1 .. n) -> X] /\ keys \in X
  <2>1. \A z \in X \X (1 .. n) : (Enqueue(z[1], dirs[z[2]])) \in X
    BY <1>1, AppendProperties DEF Enqueue
  <2> QED
    BY <2>1
<1>3. PICK g \in [SUBSET (1 .. n) -> X] : Iterates(g, keys, step, n)
  BY <1>1, <1>2, FoldExists
<1>4. Folds(g)
  <2>1. \A s \in SUBSET (1 .. n) : s # {} => s \ {Max(s)} \in SUBSET (1 .. n) /\ Max(s) \in 1 .. n
    BY <1>1, MaxIsIn
  <2>2. \A s \in SUBSET (1 .. n) : s # {} =>
           step[<<g[s \ {Max(s)}], Max(s)>>] = Enqueue(g[s \ {Max(s)}], dirs[Max(s)])
    BY <2>1
  <2> QED
    BY <1>1, <1>3, <2>2 DEF Iterates
<1>5. Folds(iter)
  BY <1>4
<1>6. EnqueueAll(keys, dirs) = iter[DOMAIN dirs]
  BY DEF FoldLeft, MapThenFoldSet, EnqueueAll
<1> HIDE DEF iter
<1>7. iter[{}] = keys
  <2>1. {} \in SUBSET DOMAIN dirs
    OBVIOUS
  <2> QED
    BY <1>5, <2>1
<1>8. ASSUME NEW i \in 1 .. n PROVE iter[1 .. i] = Enqueue(iter[1 .. i - 1], dirs[i])
  <2>1. /\ 1 .. i \in SUBSET (1 .. n) /\ 1 .. i # {} /\ Max(1 .. i) = i
        /\ (1 .. i) \ {i} = 1 .. i - 1
    BY <1>1, Prefix
  <2> QED
    BY <1>1, <1>5, <2>1
<1> DEFINE h == [i \in 0 .. n |-> iter[1 .. i]]
<1>9. h[0] = keys
  <2>1. 1 .. 0 = {} /\ 0 \in 0 .. n
    BY <1>1
  <2> QED
    BY <1>7, <2>1
<1>10. \A i \in 1 .. n : h[i] = Enqueue(h[i - 1], dirs[i])
  <2>1. \A i \in 1 .. n : i \in 0 .. n /\ i - 1 \in 0 .. n
    BY <1>1
  <2> QED
    BY <1>8, <2>1
<1>11. h[n] = EnqueueAll(keys, dirs)
  BY <1>1, <1>6
<1> HIDE DEF h
<1> QED
  BY <1>9, <1>10, <1>11 DEF Enqueues

(* What deletions leave, one key after the other.                           *)
Leaves(keys, dirs, h) ==
  /\ h[0] = <<>>
  /\ \A i \in 1 .. Len(keys) : h[i] = IF keys[i] \in dirs THEN h[i - 1] ELSE Append(h[i - 1], keys[i])
  /\ h[Len(keys)] = Without(keys, dirs)

LEMMA LeavesThrough ==
  ASSUME NEW S, NEW keys \in Seq(S), NEW dirs
  PROVE  \E h : Leaves(keys, dirs, h)
<1> DEFINE n == Len(keys)
           X == Seq(S)
           step == [z \in X \X (1 .. n) |-> IF keys[z[2]] \in dirs THEN z[1] ELSE Append(z[1], keys[z[2]])]
           Folds(f) == f = [s \in SUBSET DOMAIN keys |-> IF s = {} THEN <<>>
                              ELSE IF keys[Max(s)] \in dirs THEN f[s \ {Max(s)}] ELSE Append(f[s \ {Max(s)}], keys[Max(s)])]
           iter == CHOOSE f : Folds(f)
<1>1. n \in Nat /\ DOMAIN keys = 1 .. n /\ \A i \in 1 .. n : keys[i] \in S
  BY ElementOfSeq, LenProperties
<1>2. step \in [X \X (1 .. n) -> X] /\ <<>> \in X
  <2>1. \A z \in X \X (1 .. n) : (IF keys[z[2]] \in dirs THEN z[1] ELSE Append(z[1], keys[z[2]])) \in X
    BY <1>1, AppendProperties
  <2> QED
    BY <2>1
<1>3. PICK g \in [SUBSET (1 .. n) -> X] : Iterates(g, <<>>, step, n)
  BY <1>1, <1>2, FoldExists
<1>4. Folds(g)
  <2>1. \A s \in SUBSET (1 .. n) : s # {} => s \ {Max(s)} \in SUBSET (1 .. n) /\ Max(s) \in 1 .. n
    BY <1>1, MaxIsIn
  <2>2. \A s \in SUBSET (1 .. n) : s # {} =>
           step[<<g[s \ {Max(s)}], Max(s)>>] = IF keys[Max(s)] \in dirs THEN g[s \ {Max(s)}] ELSE Append(g[s \ {Max(s)}], keys[Max(s)])
    BY <2>1
  <2> QED
    BY <1>1, <1>3, <2>2 DEF Iterates
<1>5. Folds(iter)
  BY <1>4
<1>6. Without(keys, dirs) = iter[DOMAIN keys]
  BY DEF FoldLeft, MapThenFoldSet, Without
<1> HIDE DEF iter
<1>7. iter[{}] = <<>>
  <2>1. {} \in SUBSET DOMAIN keys
    OBVIOUS
  <2> QED
    BY <1>5, <2>1
<1>8. ASSUME NEW i \in 1 .. n PROVE iter[1 .. i] = IF keys[i] \in dirs THEN iter[1 .. i - 1] ELSE Append(iter[1 .. i - 1], keys[i])
  <2>1. /\ 1 .. i \in SUBSET (1 .. n) /\ 1 .. i # {} /\ Max(1 .. i) = i
        /\ (1 .. i) \ {i} = 1 .. i - 1
    BY <1>1, Prefix
  <2> QED
    BY <1>1, <1>5, <2>1
<1> DEFINE h == [i \in 0 .. n |-> iter[1 .. i]]
<1>9. h[0] = <<>>
  <2>1. 1 .. 0 = {} /\ 0 \in 0 .. n
    BY <1>1
  <2> QED
    BY <1>7, <2>1
<1>10. \A i \in 1 .. n : h[i] = IF keys[i] \in dirs THEN h[i - 1] ELSE Append(h[i - 1], keys[i])
  <2>1. \A i \in 1 .. n : i \in 0 .. n /\ i - 1 \in 0 .. n
    BY <1>1
  <2> QED
    BY <1>8, <2>1
<1>11. h[n] = Without(keys, dirs)
  BY <1>1, <1>6
<1> HIDE DEF h
<1> QED
  BY <1>9, <1>10, <1>11 DEF Leaves

(* The output of coalesceServerEvents, one event after the other.          *)
Coalesces(events, h) ==
  /\ h[0] = <<>>
  /\ \A i \in 1 .. Len(events) : h[i] = AddEvent(h[i - 1], events[i])
  /\ h[Len(events)] = coalesceServerEvents(events)

LEMMA CoalescesThrough ==
  ASSUME NEW events \in Seq(Event)
  PROVE  \E h : Coalesces(events, h)
<1> DEFINE n == Len(events)
           X == Seq(Event)
           step == [z \in X \X (1 .. n) |-> AddEvent(z[1], events[z[2]])]
           Folds(f) == f = [s \in SUBSET DOMAIN events |-> IF s = {} THEN <<>>
                              ELSE AddEvent(f[s \ {Max(s)}], events[Max(s)])]
           iter == CHOOSE f : Folds(f)
<1>1. n \in Nat /\ DOMAIN events = 1 .. n /\ \A i \in 1 .. n : events[i] \in Event
  BY ElementOfSeq, LenProperties
<1>2. step \in [X \X (1 .. n) -> X] /\ <<>> \in X
  <2>1. \A z \in X \X (1 .. n) : (AddEvent(z[1], events[z[2]])) \in X
    BY <1>1, AddEventType
  <2> QED
    BY <2>1
<1>3. PICK g \in [SUBSET (1 .. n) -> X] : Iterates(g, <<>>, step, n)
  BY <1>1, <1>2, FoldExists
<1>4. Folds(g)
  <2>1. \A s \in SUBSET (1 .. n) : s # {} => s \ {Max(s)} \in SUBSET (1 .. n) /\ Max(s) \in 1 .. n
    BY <1>1, MaxIsIn
  <2>2. \A s \in SUBSET (1 .. n) : s # {} =>
           step[<<g[s \ {Max(s)}], Max(s)>>] = AddEvent(g[s \ {Max(s)}], events[Max(s)])
    BY <2>1
  <2> QED
    BY <1>1, <1>3, <2>2 DEF Iterates
<1>5. Folds(iter)
  BY <1>4
<1>6. coalesceServerEvents(events) = iter[DOMAIN events]
  BY DEF FoldLeft, MapThenFoldSet, coalesceServerEvents
<1> HIDE DEF iter
<1>7. iter[{}] = <<>>
  <2>1. {} \in SUBSET DOMAIN events
    OBVIOUS
  <2> QED
    BY <1>5, <2>1
<1>8. ASSUME NEW i \in 1 .. n PROVE iter[1 .. i] = AddEvent(iter[1 .. i - 1], events[i])
  <2>1. /\ 1 .. i \in SUBSET (1 .. n) /\ 1 .. i # {} /\ Max(1 .. i) = i
        /\ (1 .. i) \ {i} = 1 .. i - 1
    BY <1>1, Prefix
  <2> QED
    BY <1>1, <1>5, <2>1
<1> DEFINE h == [i \in 0 .. n |-> iter[1 .. i]]
<1>9. h[0] = <<>>
  <2>1. 1 .. 0 = {} /\ 0 \in 0 .. n
    BY <1>1
  <2> QED
    BY <1>7, <2>1
<1>10. \A i \in 1 .. n : h[i] = AddEvent(h[i - 1], events[i])
  <2>1. \A i \in 1 .. n : i \in 0 .. n /\ i - 1 \in 0 .. n
    BY <1>1
  <2> QED
    BY <1>8, <2>1
<1>11. h[n] = coalesceServerEvents(events)
  BY <1>1, <1>6
<1> HIDE DEF h
<1> QED
  BY <1>9, <1>10, <1>11 DEF Coalesces

(* A list of events, spelled one event after the other.                     *)
Spells(events, h) ==
  /\ h[0] = <<>>
  /\ \A i \in 1 .. Len(events) : h[i] = h[i - 1] \o Pieces(events[i])
  /\ h[Len(events)] = Spelled(events)

LEMMA SpellsThrough ==
  ASSUME NEW events \in Seq(Event)
  PROVE  \E h : Spells(events, h)
<1> DEFINE n == Len(events)
           X == Seq(Piece)
           step == [z \in X \X (1 .. n) |-> z[1] \o Pieces(events[z[2]])]
           Folds(f) == f = [s \in SUBSET DOMAIN events |-> IF s = {} THEN <<>>
                              ELSE f[s \ {Max(s)}] \o Pieces(events[Max(s)])]
           iter == CHOOSE f : Folds(f)
<1>1. n \in Nat /\ DOMAIN events = 1 .. n /\ \A i \in 1 .. n : events[i] \in Event
  BY ElementOfSeq, LenProperties
<1>2. step \in [X \X (1 .. n) -> X] /\ <<>> \in X
  <2>1. \A z \in X \X (1 .. n) : (z[1] \o Pieces(events[z[2]])) \in X
    BY <1>1, PiecesType, ConcatProperties
  <2> QED
    BY <2>1
<1>3. PICK g \in [SUBSET (1 .. n) -> X] : Iterates(g, <<>>, step, n)
  BY <1>1, <1>2, FoldExists
<1>4. Folds(g)
  <2>1. \A s \in SUBSET (1 .. n) : s # {} => s \ {Max(s)} \in SUBSET (1 .. n) /\ Max(s) \in 1 .. n
    BY <1>1, MaxIsIn
  <2>2. \A s \in SUBSET (1 .. n) : s # {} =>
           step[<<g[s \ {Max(s)}], Max(s)>>] = g[s \ {Max(s)}] \o Pieces(events[Max(s)])
    BY <2>1
  <2> QED
    BY <1>1, <1>3, <2>2 DEF Iterates
<1>5. Folds(iter)
  BY <1>4
<1>6. Spelled(events) = iter[DOMAIN events]
  BY DEF FoldLeft, MapThenFoldSet, Spelled
<1> HIDE DEF iter
<1>7. iter[{}] = <<>>
  <2>1. {} \in SUBSET DOMAIN events
    OBVIOUS
  <2> QED
    BY <1>5, <2>1
<1>8. ASSUME NEW i \in 1 .. n PROVE iter[1 .. i] = iter[1 .. i - 1] \o Pieces(events[i])
  <2>1. /\ 1 .. i \in SUBSET (1 .. n) /\ 1 .. i # {} /\ Max(1 .. i) = i
        /\ (1 .. i) \ {i} = 1 .. i - 1
    BY <1>1, Prefix
  <2> QED
    BY <1>1, <1>5, <2>1
<1> DEFINE h == [i \in 0 .. n |-> iter[1 .. i]]
<1>9. h[0] = <<>>
  <2>1. 1 .. 0 = {} /\ 0 \in 0 .. n
    BY <1>1
  <2> QED
    BY <1>7, <2>1
<1>10. \A i \in 1 .. n : h[i] = h[i - 1] \o Pieces(events[i])
  <2>1. \A i \in 1 .. n : i \in 0 .. n /\ i - 1 \in 0 .. n
    BY <1>1
  <2> QED
    BY <1>8, <2>1
<1>11. h[n] = Spelled(events)
  BY <1>1, <1>6
<1> HIDE DEF h
<1> QED
  BY <1>9, <1>10, <1>11 DEF Spells

-----------------------------------------------------------------------------
(* No directory is queued twice.                                           *)
Apart(s) == \A i, j \in DOMAIN s : s[i] = s[j] => i = j

LEMMA Appended ==
  ASSUME NEW S, NEW keys \in Seq(S), Apart(keys), NEW d \in S, d \notin Range(keys)
  PROVE  /\ Append(keys, d) \in Seq(S) /\ Apart(Append(keys, d))
         /\ Range(Append(keys, d)) = Range(keys) \cup {d}
<1> DEFINE n == Len(keys)
           new == Append(keys, d)
<1>1. /\ n \in Nat /\ DOMAIN keys = 1 .. n /\ new \in Seq(S) /\ DOMAIN new = 1 .. n + 1
      /\ new[n + 1] = d /\ \A i \in 1 .. n : new[i] = keys[i]
  BY AppendProperties, LenProperties
<1>2. \A i \in DOMAIN new : i = n + 1 \/ i \in DOMAIN keys
  BY <1>1
<1>3. \A i \in DOMAIN keys : keys[i] # d
  BY DEF Range
<1> HIDE DEF new
<1>4. Apart(new)
  BY <1>1, <1>2, <1>3 DEF Apart
<1>5. Range(new) = Range(keys) \cup {d}
  <2>1. Range(keys) \cup {d} \subseteq Range(new)
    BY <1>1 DEF Range
  <2>2. Range(new) \subseteq Range(keys) \cup {d}
    BY <1>1, <1>2 DEF Range
  <2> QED
    BY <2>1, <2>2
<1> QED
  BY <1>1, <1>4, <1>5 DEF new

LEMMA EnqueuesOne ==
  ASSUME NEW S, NEW keys \in Seq(S), Apart(keys), NEW d \in S
  PROVE  /\ Enqueue(keys, d) \in Seq(S) /\ Apart(Enqueue(keys, d))
         /\ Range(Enqueue(keys, d)) = Range(keys) \cup {d}
<1>1. Contains(keys, d) <=> d \in Range(keys)
  BY LenProperties DEF Contains, Range
<1>2. CASE d \in Range(keys)
  BY <1>1, <1>2 DEF Enqueue
<1>3. CASE d \notin Range(keys)
  BY <1>1, <1>3, Appended DEF Enqueue
<1> QED
  BY <1>2, <1>3

(* What is pushed is queued, once, and what was queued still is.           *)
LEMMA EnqueuesAll ==
  ASSUME NEW S, NEW keys \in Seq(S), Apart(keys), NEW dirs \in Seq(S)
  PROVE  /\ EnqueueAll(keys, dirs) \in Seq(S)
         /\ Apart(EnqueueAll(keys, dirs))
         /\ Range(EnqueueAll(keys, dirs)) = Range(keys) \cup Range(dirs)
<1> DEFINE n == Len(dirs)
<1>1. n \in Nat /\ DOMAIN dirs = 1 .. n /\ \A i \in 1 .. n : dirs[i] \in S
  BY LenProperties, ElementOfSeq
<1>0. PICK h : Enqueues(keys, dirs, h)
  BY EnqueuesThrough
<1>2. /\ h[0] = keys
      /\ \A i \in 1 .. n : h[i] = Enqueue(h[i - 1], dirs[i])
      /\ h[n] = EnqueueAll(keys, dirs)
  BY <1>0 DEF Enqueues
<1>2a. \A k \in Seq(S) : \A d \in S : Apart(k) =>
         /\ Enqueue(k, d) \in Seq(S) /\ Apart(Enqueue(k, d))
         /\ Range(Enqueue(k, d)) = Range(k) \cup {d}
  BY EnqueuesOne
<1> DEFINE T == {i \in 0 .. n : /\ h[i] \in Seq(S) /\ Apart(h[i])
                                /\ Range(h[i]) = Range(keys) \cup {dirs[j] : j \in 1 .. i}}
<1>3. 0 \in T
  BY <1>1, <1>2
<1>4. ASSUME NEW i \in 1 .. n, i - 1 \in T PROVE i \in T
  <2>1. h[i - 1] \in Seq(S) /\ Apart(h[i - 1]) /\ dirs[i] \in S /\ h[i] = Enqueue(h[i - 1], dirs[i])
    BY <1>1, <1>2, <1>4
  <2>2. h[i] \in Seq(S) /\ Apart(h[i]) /\ Range(h[i]) = Range(h[i - 1]) \cup {dirs[i]}
    BY <1>2a, <2>1
  <2>3. i \in 0 .. n /\ 1 .. i = (1 .. i - 1) \cup {i}
    BY <1>1
  <2>4. {dirs[j] : j \in 1 .. i} = {dirs[j] : j \in 1 .. i - 1} \cup {dirs[i]}
    BY <2>3
  <2> QED
    BY <1>4, <2>2, <2>3, <2>4
<1>5. n \in T
  <2> HIDE DEF T, n
  <2>1. n \in Nat
    BY <1>1
  <2>2. \A i \in 0 .. n : i \in T
    BY <1>3, <1>4, <2>1, Inductive
  <2> QED
    BY <2>1, <2>2
<1>6. Range(dirs) = {dirs[j] : j \in 1 .. n}
  BY <1>1 DEF Range
<1> QED
  BY <1>2, <1>5, <1>6

(* What is left of the queue is what was not deleted.                      *)
LEMMA LeavesRest ==
  ASSUME NEW S, NEW keys \in Seq(S), Apart(keys), NEW dirs
  PROVE  /\ Without(keys, dirs) \in Seq(S) /\ Apart(Without(keys, dirs))
         /\ Range(Without(keys, dirs)) = Range(keys) \ dirs
<1> DEFINE n == Len(keys)
<1>1. n \in Nat /\ DOMAIN keys = 1 .. n /\ \A i \in 1 .. n : keys[i] \in S
  BY LenProperties, ElementOfSeq
<1>0. PICK h : Leaves(keys, dirs, h)
  BY LeavesThrough
<1>2. /\ h[0] = <<>>
      /\ \A i \in 1 .. n :
            h[i] = IF keys[i] \in dirs THEN h[i - 1] ELSE Append(h[i - 1], keys[i])
      /\ h[n] = Without(keys, dirs)
  BY <1>0 DEF Leaves
<1> DEFINE T == {i \in 0 .. n : /\ h[i] \in Seq(S) /\ Apart(h[i])
                                /\ Range(h[i]) = {keys[j] : j \in 1 .. i} \ dirs}
<1>3. 0 \in T
  <2>1. <<>> \in Seq(S) /\ Apart(<<>>) /\ Range(<<>>) = {} /\ 1 .. 0 = {} /\ 0 \in 0 .. n
    BY <1>1 DEF Apart, Range
  <2> QED
    BY <1>2, <2>1
<1>4. ASSUME NEW i \in 1 .. n, i - 1 \in T PROVE i \in T
  <2>1. i \in 0 .. n /\ 1 .. i = (1 .. i - 1) \cup {i} /\ i \notin 1 .. i - 1
    BY <1>1
  <2>2. {keys[j] : j \in 1 .. i} = {keys[j] : j \in 1 .. i - 1} \cup {keys[i]}
    BY <2>1
  <2>3. CASE keys[i] \in dirs
    BY <1>2, <1>4, <2>1, <2>2, <2>3
  <2>4. CASE keys[i] \notin dirs
    <3>1. h[i] = Append(h[i - 1], keys[i]) /\ keys[i] \in S
      BY <1>1, <1>2, <2>4
    <3>2. keys[i] \notin {keys[j] : j \in 1 .. i - 1}
      <4>1. \A j \in 1 .. i - 1 : j \in DOMAIN keys /\ j # i
        BY <1>1, <2>1
      <4> QED
        BY <1>1, <4>1 DEF Apart
    <3>3. /\ h[i] \in Seq(S) /\ Apart(h[i])
          /\ Range(h[i]) = Range(h[i - 1]) \cup {keys[i]}
      BY <1>4, <3>1, <3>2, Appended
    <3> QED
      BY <1>4, <2>1, <2>2, <2>4, <3>3
  <2> QED
    BY <2>3, <2>4
<1>5. n \in T
  <2> HIDE DEF T, n
  <2>1. n \in Nat
    BY <1>1
  <2>2. \A i \in 0 .. n : i \in T
    BY <1>3, <1>4, <2>1, Inductive
  <2> QED
    BY <2>1, <2>2
<1>6. Range(keys) = {keys[j] : j \in 1 .. n}
  BY <1>1 DEF Range
<1> QED
  BY <1>2, <1>5, <1>6

(* take(): what comes after the first k keys.                              *)
LEMMA TakesFirst ==
  ASSUME NEW S, NEW keys \in Seq(S), Apart(keys), NEW k \in Nat
  PROVE  LET rest == SubSeq(keys, k + 1, Len(keys))
             taken == {keys[i] : i \in {j \in DOMAIN keys : j <= k}}
         IN  rest \in Seq(S) /\ Apart(rest) /\ Range(rest) = Range(keys) \ taken
<1> DEFINE n == Len(keys)
           rest == SubSeq(keys, k + 1, n)
           taken == {keys[i] : i \in {j \in DOMAIN keys : j <= k}}
<1>1. n \in Nat /\ DOMAIN keys = 1 .. n /\ \A i \in 1 .. n : keys[i] \in S
  BY LenProperties, ElementOfSeq
<1>2. \A i \in k + 1 .. n : keys[i] \in S
  BY <1>1
<1>3. CASE n <= k
  <2>1. rest = <<>>
    BY <1>1, <1>3, SubSeqEmpty
  <2>2. rest \in Seq(S) /\ DOMAIN rest = {}
    BY <2>1
  <2>3. taken = Range(keys)
    BY <1>1, <1>3 DEF Range
  <2>4. Apart(rest) /\ Range(rest) = {}
    BY <2>2 DEF Apart, Range
  <2> QED
    BY <2>2, <2>3, <2>4
<1>4. CASE k < n
  <2>1. /\ rest \in Seq(S) /\ Len(rest) = n - k
        /\ \A i \in 1 .. n - k : rest[i] = keys[k + i]
    <3>1. k + 1 \in Int /\ n \in Int /\ k + 1 <= n /\ n - (k + 1) + 1 = n - k
      BY <1>1, <1>4
    <3>2. /\ rest \in Seq(S) /\ Len(rest) = IF k + 1 <= n THEN n - (k + 1) + 1 ELSE 0
          /\ \A i \in 1 .. n - (k + 1) + 1 : rest[i] = keys[k + 1 + i - 1]
      <4> HIDE DEF n
      <4> QED
        BY <1>1, <1>2, <3>1, SubSeqProperties
    <3>3. \A i \in 1 .. n - k : k + 1 + i - 1 = k + i
      BY <1>1
    <3> HIDE DEF rest, n
    <3> QED
      BY <3>1, <3>2, <3>3
  <2>2. DOMAIN rest = 1 .. n - k
    <3> HIDE DEF rest
    <3> QED
      BY <2>1, LenProperties
  <2> HIDE DEF rest, n
  <2>3. \A i \in 1 .. n - k : k + i \in 1 .. n /\ k + i > k
    BY <1>1, <1>4
  <2>4. Apart(rest)
    <3>1. ASSUME NEW i \in 1 .. n - k, NEW j \in 1 .. n - k, rest[i] = rest[j] PROVE i = j
      <4>1. keys[k + i] = keys[k + j] /\ k + i \in DOMAIN keys /\ k + j \in DOMAIN keys
        BY <1>1, <2>1, <2>3, <3>1
      <4>2. k + i = k + j
        BY <4>1 DEF Apart
      <4> QED
        BY <1>1, <4>2
    <3> QED
      BY <2>2, <3>1 DEF Apart
  <2>5. ASSUME NEW x \in Range(rest) PROVE x \in Range(keys) \ taken
    <3>1. PICK i \in 1 .. n - k : x = keys[k + i]
      BY <2>1, <2>2 DEF Range
    <3>2. k + i \in DOMAIN keys /\ ~(k + i <= k)
      BY <1>1, <2>3
    <3>3. x \notin taken
      <4>1. SUFFICES ASSUME NEW j \in DOMAIN keys, j <= k, x = keys[j] PROVE FALSE
        OBVIOUS
      <4>2. j = k + i
        BY <3>1, <3>2, <4>1 DEF Apart
      <4> QED
        BY <3>2, <4>1, <4>2
    <3> QED
      BY <3>1, <3>2, <3>3 DEF Range
  <2>6. ASSUME NEW x \in Range(keys) \ taken PROVE x \in Range(rest)
    <3>1. PICK i \in 1 .. n : x = keys[i]
      BY <1>1 DEF Range
    <3>2. ~(i <= k)
      BY <1>1, <2>6, <3>1
    <3>3. i - k \in 1 .. n - k /\ k + (i - k) = i
      BY <1>1, <3>2
    <3>4. rest[i - k] = x /\ i - k \in DOMAIN rest
      BY <2>1, <2>2, <3>1, <3>3
    <3> QED
      BY <3>4 DEF Range
  <2>7. rest \in Seq(S) /\ Apart(rest) /\ Range(rest) = Range(keys) \ taken
    <3> HIDE DEF taken
    <3> QED
      BY <2>1, <2>4, <2>5, <2>6
  <2> QED
    BY <2>7 DEF rest, n
<1> QED
  BY <1>1, <1>3, <1>4

(* A finite set in some order is that set.                                 *)
LEMMA InSomeOrder ==
  ASSUME NEW S, IsFiniteSet(S)
  PROVE  SetToSeq(S) \in Seq(S) /\ Range(SetToSeq(S)) = S
<1> DEFINE n == Cardinality(S)
           s == SetToSeq(S)
<1>1. n \in Nat /\ IsFiniteSet(1 .. n) /\ Cardinality(1 .. n) = n
  <2>1. n \in Nat
    BY FS_CardinalityType
  <2> HIDE DEF n
  <2>2. IsFiniteSet(1 .. n) /\ Cardinality(1 .. n) = IF 1 > n THEN 0 ELSE n - 1 + 1
    BY <2>1, FS_Interval
  <2> QED
    BY <2>1, <2>2
<1>2. \E f \in [1 .. n -> S] : IsInjective(f)
  BY FS_CardinalityType DEF ExistsBijection, Bijection, Injection, IsInjective
<1>3. s \in [1 .. n -> S] /\ IsInjective(s)
  BY <1>2 DEF SetToSeq
<1> HIDE DEF s
<1>4. s \in Injection(1 .. n, S)
  BY <1>3 DEF Injection
<1>5. s \in Surjection(1 .. n, S)
  <2> HIDE DEF n
  <2>1. Cardinality(1 .. n) = Cardinality(S) <=> s \in Surjection(1 .. n, S)
    BY <1>4, FS_Injection
  <2> QED
    BY <1>1, <2>1 DEF n
<1>6. Range(s) = S
  BY <1>3, <1>5 DEF Surjection, Range
<1>7. s \in Seq(S)
  BY <1>1, <1>3, SeqDef
<1> QED
  BY <1>6, <1>7 DEF s

(* A list of lists holds what its lists hold.                              *)
Flattens(seqs, m, g) ==
  g = [i \in 1 .. m |-> IF i = 1 THEN seqs[i] ELSE g[i - 1] \o seqs[i]]

LEMMA FlattensThrough ==
  ASSUME NEW S, NEW seqs \in Seq(Seq(S))
  PROVE  \E g : Flattens(seqs, Len(seqs), g)
<1> DEFINE n == Len(seqs)
           T == {m \in 0 .. n : \E g : Flattens(seqs, m, g)}
<1>1. n \in Nat
  BY LenProperties
<1>2. 0 \in T
  <2> DEFINE g == [i \in 1 .. 0 |-> <<>>]
  <2>1. Flattens(seqs, 0, g)
    BY DEF Flattens
  <2>2. 0 \in 0 .. n
    BY <1>1
  <2> QED
    BY <2>1, <2>2
<1>3. ASSUME NEW m \in 1 .. n, m - 1 \in T PROVE m \in T
  <2>1. PICK g : Flattens(seqs, m - 1, g)
    BY <1>3
  <2> DEFINE h == [i \in 1 .. m |-> IF i = m THEN IF m = 1 THEN seqs[1] ELSE g[m - 1] \o seqs[m] ELSE g[i]]
  <2>2. m \in 0 .. n /\ m \in 1 .. m /\ \A i \in 1 .. m : i # m => i \in 1 .. m - 1
    BY <1>1
  <2>3. \A i \in 1 .. m - 1 : h[i] = g[i] /\ i \in 1 .. m
    BY <1>1
  <2>4. h[m] = IF m = 1 THEN seqs[1] ELSE g[m - 1] \o seqs[m]
    BY <2>2
  <2>5. ASSUME NEW i \in 1 .. m PROVE h[i] = IF i = 1 THEN seqs[i] ELSE h[i - 1] \o seqs[i]
    <3>1. CASE i = m /\ m = 1
      BY <2>4, <3>1
    <3>2. CASE i = m /\ m # 1
      <4>1. m - 1 \in 1 .. m - 1
        BY <1>1, <3>2
      <4> QED
        BY <2>3, <2>4, <3>2, <4>1
    <3>3. CASE i # m
      <4>1. i \in 1 .. m - 1
        BY <2>2, <3>3
      <4>2. g[i] = IF i = 1 THEN seqs[i] ELSE g[i - 1] \o seqs[i]
        BY <2>1, <4>1 DEF Flattens
      <4>3. i # 1 => i - 1 \in 1 .. m - 1
        BY <1>1, <4>1
      <4> QED
        BY <2>3, <4>1, <4>2, <4>3
    <3> QED
      BY <3>1, <3>2, <3>3
  <2>6. h = [i \in 1 .. m |-> h[i]]
    OBVIOUS
  <2>7. Flattens(seqs, m, h)
    <3> HIDE DEF h
    <3> QED
      BY <2>5, <2>6 DEF Flattens
  <2> QED
    BY <2>2, <2>7
<1>4. n \in T
  <2> HIDE DEF T, n
  <2>1. \A i \in 0 .. n : i \in T
    BY <1>1, <1>2, <1>3, Inductive
  <2> QED
    BY <1>1, <2>1
<1> QED
  BY <1>4

LEMMA RangeOfConcat ==
  ASSUME NEW S, NEW s \in Seq(S), NEW t \in Seq(S)
  PROVE  s \o t \in Seq(S) /\ Range(s \o t) = Range(s) \cup Range(t)
<1>1. /\ Len(s) \in Nat /\ DOMAIN s = 1 .. Len(s) /\ Len(t) \in Nat /\ DOMAIN t = 1 .. Len(t)
      /\ s \o t \in Seq(S) /\ Len(s \o t) = Len(s) + Len(t)
      /\ \A i \in 1 .. Len(s) + Len(t) : (s \o t)[i] = IF i <= Len(s) THEN s[i] ELSE t[i - Len(s)]
  BY LenProperties, ConcatProperties
<1>2. DOMAIN (s \o t) = 1 .. Len(s) + Len(t)
  BY <1>1, LenProperties
<1> DEFINE u == s \o t
           a == Len(s)
           b == Len(t)
<1>3. /\ a \in Nat /\ b \in Nat /\ DOMAIN s = 1 .. a /\ DOMAIN t = 1 .. b /\ DOMAIN u = 1 .. a + b
      /\ \A i \in 1 .. a + b : u[i] = IF i <= a THEN s[i] ELSE t[i - a]
  BY <1>1, <1>2
<1> HIDE DEF u, a, b
<1>4. ASSUME NEW x \in Range(u) PROVE x \in Range(s) \cup Range(t)
  <2>1. PICK i \in 1 .. a + b : x = u[i]
    BY <1>3 DEF Range
  <2>2. CASE i <= a
    <3>1. i \in 1 .. a /\ x = s[i]
      BY <1>3, <2>1, <2>2
    <3> QED
      BY <1>3, <3>1 DEF Range
  <2>3. CASE ~(i <= a)
    <3>1. i - a \in 1 .. b /\ x = t[i - a]
      BY <1>3, <2>1, <2>3
    <3> QED
      BY <1>3, <3>1 DEF Range
  <2> QED
    BY <2>2, <2>3
<1>5. ASSUME NEW x \in Range(s) PROVE x \in Range(u)
  <2>1. PICK i \in 1 .. a : x = s[i]
    BY <1>3 DEF Range
  <2>2. i \in 1 .. a + b /\ u[i] = x
    BY <1>3, <2>1
  <2> QED
    BY <1>3, <2>2 DEF Range
<1>6. ASSUME NEW x \in Range(t) PROVE x \in Range(u)
  <2>1. PICK i \in 1 .. b : x = t[i]
    BY <1>3 DEF Range
  <2>2. a + i \in 1 .. a + b /\ ~(a + i <= a) /\ (a + i) - a = i
    BY <1>3
  <2>3. u[a + i] = x
    BY <1>3, <2>1, <2>2
  <2> QED
    BY <1>3, <2>2, <2>3 DEF Range
<1>7. Range(u) = Range(s) \cup Range(t)
  BY <1>4, <1>5, <1>6
<1> QED
  BY <1>1, <1>7 DEF u

LEMMA Flattened ==
  ASSUME NEW S, NEW seqs \in Seq(Seq(S))
  PROVE  /\ FlattenSeq(seqs) \in Seq(S)
         /\ \A i \in DOMAIN seqs : Range(seqs[i]) \subseteq Range(FlattenSeq(seqs))
<1> DEFINE n == Len(seqs)
           g == CHOOSE f : Flattens(seqs, n, f)
<1>1. n \in Nat /\ DOMAIN seqs = 1 .. n /\ \A i \in 1 .. n : seqs[i] \in Seq(S)
  BY LenProperties, ElementOfSeq
<1>2. CASE n = 0
  <2>1. seqs = <<>> /\ FlattenSeq(seqs) = seqs
    <3>1. seqs = <<>>
      BY <1>2, EmptySeq
    <3>2. FlattenSeq(seqs) = seqs
      BY <1>2 DEF FlattenSeq
    <3> QED
      BY <3>1, <3>2
  <2>2. FlattenSeq(seqs) = <<>> /\ <<>> \in Seq(S)
    BY <2>1, EmptySeq
  <2>3. DOMAIN seqs = {}
    BY <1>1, <1>2
  <2> QED
    BY <2>2, <2>3
<1>3. CASE n # 0
  <2>1. Flattens(seqs, n, g)
    BY FlattensThrough
  <2>2. FlattenSeq(seqs) = g[n]
    BY <1>3 DEF FlattenSeq, Flattens
  <2> HIDE DEF g
  <2> DEFINE T == {m \in 0 .. n : m # 0 => /\ g[m] \in Seq(S)
                                           /\ \A i \in 1 .. m : Range(seqs[i]) \subseteq Range(g[m])}
  <2>3. 0 \in T
    BY <1>1
  <2>4. ASSUME NEW m \in 1 .. n, m - 1 \in T PROVE m \in T
    <3>1. g[m] = IF m = 1 THEN seqs[m] ELSE g[m - 1] \o seqs[m]
      BY <2>1 DEF Flattens
    <3>2. m \in 0 .. n /\ seqs[m] \in Seq(S)
      BY <1>1
    <3>3. CASE m = 1
      <4>1. g[m] = seqs[m] /\ \A i \in 1 .. m : i = m
        BY <3>1, <3>3
      <4> QED
        BY <3>2, <4>1
    <3>4. CASE m # 1
      <4>1. g[m - 1] \in Seq(S) /\ \A i \in 1 .. m - 1 : Range(seqs[i]) \subseteq Range(g[m - 1])
        BY <1>1, <2>4, <3>4
      <4>2. g[m] \in Seq(S) /\ Range(g[m]) = Range(g[m - 1]) \cup Range(seqs[m])
        BY <3>1, <3>2, <3>4, <4>1, RangeOfConcat
      <4>3. \A i \in 1 .. m : i = m \/ i \in 1 .. m - 1
        BY <1>1
      <4> QED
        BY <3>2, <4>1, <4>2, <4>3
    <3> QED
      BY <3>3, <3>4
  <2>5. n \in T
    <3> HIDE DEF T, n
    <3>1. \A m \in 0 .. n : m \in T
      BY <1>1, <2>3, <2>4, Inductive
    <3> QED
      BY <1>1, <3>1
  <2> QED
    BY <1>1, <1>3, <2>2, <2>5
<1> QED
  BY <1>2, <1>3

-----------------------------------------------------------------------------
(* What coalesceServerEvents does to a list of events.                     *)
LEMMA FrontAndLast ==
  ASSUME NEW S, NEW s \in Seq(S), s # <<>>
  PROVE  Front(s) \in Seq(S) /\ Last(s) \in S /\ s = Append(Front(s), Last(s))
<1> DEFINE n == Len(s)
<1>1. n \in Nat \ {0} /\ DOMAIN s = 1 .. n /\ \A i \in 1 .. n : s[i] \in S
  BY EmptySeq, LenProperties, ElementOfSeq
<1>2. Front(s) \in Seq(S) /\ Len(Front(s)) = n - 1 /\ \A i \in 1 .. n - 1 : Front(s)[i] = s[i]
  <2>1. 1 \in Int /\ n - 1 \in Int /\ \A i \in 1 .. n - 1 : s[i] \in S
    BY <1>1
  <2>2. /\ SubSeq(s, 1, n - 1) \in Seq(S)
        /\ Len(SubSeq(s, 1, n - 1)) = IF 1 <= n - 1 THEN (n - 1) - 1 + 1 ELSE 0
        /\ \A i \in 1 .. (n - 1) - 1 + 1 : SubSeq(s, 1, n - 1)[i] = s[1 + i - 1]
    <3> HIDE DEF n
    <3> QED
      BY <2>1, SubSeqProperties
  <2>3. (n - 1) - 1 + 1 = n - 1 /\ (~(1 <= n - 1) => n - 1 = 0) /\ \A i \in 1 .. n - 1 : 1 + i - 1 = i
    BY <1>1
  <2>4. Front(s) = SubSeq(s, 1, n - 1)
    BY DEF Front
  <2> HIDE DEF n
  <2> QED
    BY <2>2, <2>3, <2>4
<1>3. Last(s) = s[n] /\ Last(s) \in S
  BY <1>1 DEF Last
<1> DEFINE t == Append(Front(s), Last(s))
<1>4. t \in Seq(S) /\ Len(t) = n /\ \A i \in 1 .. n : t[i] = s[i]
  <2>1. /\ t \in Seq(S) /\ Len(t) = Len(Front(s)) + 1
        /\ \A i \in 1 .. Len(Front(s)) : t[i] = Front(s)[i]
        /\ t[Len(Front(s)) + 1] = Last(s)
    BY <1>2, <1>3, AppendProperties
  <2> HIDE DEF t, n
  <2>2. \A i \in 1 .. n : i = n \/ i \in 1 .. n - 1
    BY <1>1
  <2> QED
    BY <1>1, <1>2, <1>3, <2>1, <2>2
<1>5. s = t
  <2> HIDE DEF t
  <2> QED
    BY <1>4, SeqEqual
<1> QED
  BY <1>2, <1>3, <1>5

LEMMA ExtendedBy ==
  ASSUME NEW S, NEW s \in Seq(S), NEW e \in S
  PROVE  /\ Append(s, e) \in Seq(S) /\ Len(Append(s, e)) = Len(s) + 1 /\ Len(s) \in Nat
         /\ DOMAIN s = 1 .. Len(s) /\ DOMAIN Append(s, e) = 1 .. Len(s) + 1
         /\ \A i \in 1 .. Len(s) : Append(s, e)[i] = s[i]
         /\ Append(s, e)[Len(s) + 1] = e
BY AppendProperties, LenProperties

(* A merged delta, and any other.                                          *)
Merged(output, event) == [event EXCEPT !.text = Last(output).text \o event.text]
Merges(output, event) == output # <<>> /\ event.key \in Keys /\ Last(output).key = event.key

LEMMA AddEventMerges ==
  ASSUME NEW output \in Seq(Event), NEW event \in Event, Merges(output, event)
  PROVE  /\ Front(output) \in Seq(Event) /\ Last(output) \in Event
         /\ output = Append(Front(output), Last(output))
         /\ Merged(output, event) \in Event /\ Merged(output, event).key = event.key
         /\ Merged(output, event).text = Last(output).text \o event.text
         /\ AddEvent(output, event) = Append(Front(output), Merged(output, event))
<1>1. /\ Front(output) \in Seq(Event) /\ Last(output) \in Event
      /\ output = Append(Front(output), Last(output))
  BY FrontAndLast DEF Merges
<1>2. Last(output).text \o event.text \in Seq(Fragments)
  BY <1>1, ConcatProperties DEF Event
<1>3. /\ Merged(output, event) \in Event /\ Merged(output, event).key = event.key
      /\ Merged(output, event).text = Last(output).text \o event.text
  BY <1>2 DEF Event, Merged
<1>4. AddEvent(output, event) = Front(output) \o <<Merged(output, event)>>
  BY DEF AddEvent, Merges, Merged
<1>5. Append(Front(output), Merged(output, event)) = Front(output) \o <<Merged(output, event)>>
  BY <1>1, <1>3, AppendIsConcat
<1> QED
  BY <1>1, <1>3, <1>4, <1>5

LEMMA AddEventAppends ==
  ASSUME NEW output, NEW event, ~Merges(output, event)
  PROVE  AddEvent(output, event) = Append(output, event)
BY DEF AddEvent, Merges

(* Nothing is forgotten by name.                                           *)
Named(events) == {events[i].key : i \in DOMAIN events}

LEMMA NamedAppend ==
  ASSUME NEW s \in Seq(Event), NEW e \in Event
  PROVE  Named(Append(s, e)) = Named(s) \cup {e.key}
<1> DEFINE n == Len(s)
           t == Append(s, e)
<1>1. /\ n \in Nat /\ DOMAIN s = 1 .. n /\ DOMAIN t = 1 .. n + 1
      /\ \A i \in 1 .. n : t[i] = s[i] /\ t[n + 1] = e
  BY ExtendedBy
<1>2. \A i \in 1 .. n + 1 : i = n + 1 \/ i \in 1 .. n
  BY <1>1
<1>3. n + 1 \in 1 .. n + 1 /\ \A i \in 1 .. n : i \in 1 .. n + 1
  BY <1>1
<1>4. t[n + 1] = e
  BY ExtendedBy
<1> HIDE DEF t, n
<1>5. Named(t) \subseteq Named(s) \cup {e.key}
  BY <1>1, <1>2, <1>4 DEF Named
<1>6. Named(s) \cup {e.key} \subseteq Named(t)
  BY <1>1, <1>3, <1>4 DEF Named
<1> QED
  BY <1>5, <1>6 DEF t

LEMMA NamedAddEvent ==
  ASSUME NEW output \in Seq(Event), NEW event \in Event
  PROVE  Named(AddEvent(output, event)) = Named(output) \cup {event.key}
<1>1. CASE Merges(output, event)
  <2>1. /\ Front(output) \in Seq(Event) /\ Last(output) \in Event
        /\ output = Append(Front(output), Last(output))
        /\ Merged(output, event) \in Event /\ Merged(output, event).key = event.key
        /\ AddEvent(output, event) = Append(Front(output), Merged(output, event))
    BY <1>1, AddEventMerges
  <2>2. Named(output) = Named(Front(output)) \cup {Last(output).key}
    BY <2>1, NamedAppend
  <2>3. Named(AddEvent(output, event)) = Named(Front(output)) \cup {event.key}
    BY <2>1, NamedAppend
  <2> QED
    BY <1>1, <2>2, <2>3 DEF Merges
<1>2. CASE ~Merges(output, event)
  BY <1>2, AddEventAppends, NamedAppend
<1> QED
  BY <1>1, <1>2

LEMMA CoalesceNames ==
  ASSUME NEW events \in Seq(Event)
  PROVE  /\ coalesceServerEvents(events) \in Seq(Event)
         /\ Named(coalesceServerEvents(events)) = Named(events)
<1> DEFINE n == Len(events)
<1>1. n \in Nat /\ DOMAIN events = 1 .. n /\ \A i \in 1 .. n : events[i] \in Event
  BY LenProperties, ElementOfSeq
<1>0. PICK h : Coalesces(events, h)
  BY CoalescesThrough
<1>2. /\ h[0] = <<>>
      /\ \A i \in 1 .. n : h[i] = AddEvent(h[i - 1], events[i])
      /\ h[n] = coalesceServerEvents(events)
  BY <1>0 DEF Coalesces
<1>2a. \A o \in Seq(Event) : \A e \in Event :
         AddEvent(o, e) \in Seq(Event) /\ Named(AddEvent(o, e)) = Named(o) \cup {e.key}
  BY AddEventType, NamedAddEvent
<1> DEFINE T == {i \in 0 .. n : /\ h[i] \in Seq(Event)
                                /\ Named(h[i]) = {events[j].key : j \in 1 .. i}}
<1>3. 0 \in T
  <2>1. <<>> \in Seq(Event) /\ Named(<<>>) = {} /\ 1 .. 0 = {} /\ 0 \in 0 .. n
    BY <1>1, EmptySeq DEF Named
  <2> QED
    BY <1>2, <2>1
<1>4. ASSUME NEW i \in 1 .. n, i - 1 \in T PROVE i \in T
  <2>1. h[i - 1] \in Seq(Event) /\ events[i] \in Event /\ h[i] = AddEvent(h[i - 1], events[i])
    BY <1>1, <1>2, <1>4
  <2>2. h[i] \in Seq(Event) /\ Named(h[i]) = Named(h[i - 1]) \cup {events[i].key}
    BY <1>2a, <2>1
  <2>3. i \in 0 .. n /\ 1 .. i = (1 .. i - 1) \cup {i}
    BY <1>1
  <2>4. {events[j].key : j \in 1 .. i} = {events[j].key : j \in 1 .. i - 1} \cup {events[i].key}
    BY <2>3
  <2> QED
    BY <1>4, <2>2, <2>3, <2>4
<1>5. n \in T
  <2> HIDE DEF T, n
  <2>1. \A i \in 0 .. n : i \in T
    BY <1>1, <1>3, <1>4, Inductive
  <2> QED
    BY <1>1, <2>1
<1>6. Named(events) = {events[j].key : j \in 1 .. n}
  BY <1>1 DEF Named
<1> QED
  BY <1>2, <1>5, <1>6

(* What a list of events says grows with it.                               *)
LEMMA SpellsValues ==
  ASSUME NEW events \in Seq(Event), NEW h, Spells(events, h)
  PROVE  /\ \A i \in 0 .. Len(events) : h[i] \in Seq(Piece)
         /\ Spelled(events) \in Seq(Piece)
<1> DEFINE n == Len(events)
           T == {i \in 0 .. n : h[i] \in Seq(Piece)}
<1>1. n \in Nat /\ DOMAIN events = 1 .. n /\ \A i \in 1 .. n : events[i] \in Event
  BY LenProperties, ElementOfSeq
<1>2. /\ h[0] = <<>>
      /\ \A i \in 1 .. n : h[i] = h[i - 1] \o Pieces(events[i])
      /\ h[n] = Spelled(events)
  BY DEF Spells
<1>3. 0 \in T
  <2>1. <<>> \in Seq(Piece)
    BY EmptySeq
  <2>2. 0 \in 0 .. n
    BY <1>1
  <2> QED
    BY <1>2, <2>1, <2>2
<1>4. ASSUME NEW i \in 1 .. n, i - 1 \in T PROVE i \in T
  <2>1. h[i - 1] \in Seq(Piece) /\ Pieces(events[i]) \in Seq(Piece) /\ i \in 0 .. n
    BY <1>1, <1>4, PiecesType
  <2>2. h[i - 1] \o Pieces(events[i]) \in Seq(Piece)
    BY <2>1, ConcatProperties
  <2> QED
    BY <1>2, <2>1, <2>2
<1>5. \A i \in 0 .. n : i \in T
  <2> HIDE DEF T, n
  <2> QED
    BY <1>1, <1>3, <1>4, Inductive
<1>6. n \in 0 .. n
  BY <1>1
<1> QED
  BY <1>2, <1>5, <1>6

LEMMA SpelledType ==
  ASSUME NEW events \in Seq(Event)
  PROVE  Spelled(events) \in Seq(Piece)
<1>1. PICK h : Spells(events, h)
  BY SpellsThrough
<1> QED
  BY <1>1, SpellsValues

LEMMA SpelledNothing == Spelled(<<>>) = <<>>
<1>1. <<>> \in Seq(Event) /\ Len(<<>>) = 0
  BY EmptySeq
<1>2. PICK h : Spells(<<>>, h)
  BY <1>1, SpellsThrough
<1> QED
  BY <1>1, <1>2 DEF Spells

LEMMA SpelledAppend ==
  ASSUME NEW s \in Seq(Event), NEW e \in Event
  PROVE  Spelled(Append(s, e)) = Spelled(s) \o Pieces(e)
<1> DEFINE n == Len(s)
           t == Append(s, e)
<1>1. /\ t \in Seq(Event) /\ Len(t) = n + 1 /\ n \in Nat
      /\ \A i \in 1 .. n : t[i] = s[i]
      /\ t[n + 1] = e
  BY ExtendedBy
<1> HIDE DEF t
<1>2. PICK g : Spells(s, g)
  BY SpellsThrough
<1>3. PICK h : Spells(t, h)
  BY <1>1, SpellsThrough
<1>4. /\ g[0] = <<>> /\ h[0] = <<>>
      /\ \A i \in 1 .. n : g[i] = g[i - 1] \o Pieces(s[i])
      /\ \A i \in 1 .. n + 1 : h[i] = h[i - 1] \o Pieces(t[i])
      /\ g[n] = Spelled(s) /\ h[n + 1] = Spelled(t)
  BY <1>1, <1>2, <1>3 DEF Spells
<1> DEFINE T == {i \in 0 .. n : h[i] = g[i]}
<1>5. 0 \in T
  BY <1>1, <1>4
<1>6. ASSUME NEW i \in 1 .. n, i - 1 \in T PROVE i \in T
  <2>1. i \in 0 .. n /\ i \in 1 .. n + 1 /\ t[i] = s[i] /\ h[i - 1] = g[i - 1]
    BY <1>1, <1>6
  <2> QED
    BY <1>4, <2>1
<1>7. h[n] = g[n]
  <2> HIDE DEF T, n
  <2>1. \A i \in 0 .. n : i \in T
    BY <1>1, <1>5, <1>6, Inductive
  <2>2. n \in 0 .. n
    BY <1>1
  <2> QED
    BY <2>1, <2>2 DEF T
<1>8. n + 1 \in 1 .. n + 1 /\ (n + 1) - 1 = n
  BY <1>1
<1>9. h[n + 1] = h[n] \o Pieces(e)
  <2> HIDE DEF n
  <2> QED
    BY <1>1, <1>4, <1>8
<1> QED
  BY <1>4, <1>7, <1>9 DEF t

(* A delta has a text.                                                     *)
Worded(events) == \A i \in DOMAIN events : events[i].key \in Keys => events[i].text # <<>>

LEMMA WordedAppend ==
  ASSUME NEW s \in Seq(Event), NEW e \in Event
  PROVE  Worded(Append(s, e)) <=> Worded(s) /\ (e.key \in Keys => e.text # <<>>)
<1> DEFINE n == Len(s)
           t == Append(s, e)
<1>1. /\ n \in Nat /\ DOMAIN s = 1 .. n /\ DOMAIN t = 1 .. n + 1
      /\ \A i \in 1 .. n : t[i] = s[i]
      /\ t[n + 1] = e
  BY ExtendedBy
<1>2. \A i \in 1 .. n + 1 : i = n + 1 \/ i \in 1 .. n
  BY <1>1
<1>3. n + 1 \in 1 .. n + 1 /\ \A i \in 1 .. n : i \in 1 .. n + 1
  BY <1>1
<1> HIDE DEF t, n
<1>4. Worded(t) => Worded(s) /\ (e.key \in Keys => e.text # <<>>)
  BY <1>1, <1>3 DEF Worded
<1>5. Worded(s) /\ (e.key \in Keys => e.text # <<>>) => Worded(t)
  BY <1>1, <1>2 DEF Worded
<1> QED
  BY <1>4, <1>5 DEF t

Keyed(key, text) == [i \in DOMAIN text |-> <<key, text[i]>>]

LEMMA KeyedType ==
  ASSUME NEW key \in Keys \cup Others \cup {Hello}, NEW text \in Seq(Fragments)
  PROVE  /\ Keyed(key, text) \in Seq(Piece) /\ Len(Keyed(key, text)) = Len(text)
         /\ \A i \in 1 .. Len(text) : Keyed(key, text)[i] = <<key, text[i]>>
<1>1. Len(text) \in Nat /\ DOMAIN text = 1 .. Len(text) /\ \A i \in 1 .. Len(text) : text[i] \in Fragments
  BY LenProperties, ElementOfSeq
<1>2. Keyed(key, text) = [i \in 1 .. Len(text) |-> <<key, text[i]>>]
  BY <1>1 DEF Keyed
<1>3. \A i \in 1 .. Len(text) : <<key, text[i]>> \in Piece
  BY <1>1 DEF Piece
<1>4. Keyed(key, text) \in [1 .. Len(text) -> Piece]
  BY <1>2, <1>3
<1>5. Keyed(key, text) \in Seq(Piece)
  BY <1>1, <1>4, SeqDef
<1>6. Len(Keyed(key, text)) = Len(text)
  BY <1>1, <1>2
<1> QED
  BY <1>2, <1>5, <1>6

LEMMA KeyedConcat ==
  ASSUME NEW key \in Keys \cup Others \cup {Hello},
         NEW s \in Seq(Fragments), NEW t \in Seq(Fragments)
  PROVE  Keyed(key, s \o t) = Keyed(key, s) \o Keyed(key, t)
<1> DEFINE m == Len(s)
           n == Len(t)
           u == s \o t
           l == Keyed(key, u)
           r == Keyed(key, s) \o Keyed(key, t)
<1>1. m \in Nat /\ n \in Nat
  BY LenProperties
<1>2. /\ u \in Seq(Fragments) /\ Len(u) = m + n
      /\ \A i \in 1 .. m + n : u[i] = IF i <= m THEN s[i] ELSE t[i - m]
  BY ConcatProperties
<1>3. /\ Keyed(key, s) \in Seq(Piece) /\ Len(Keyed(key, s)) = m
      /\ \A i \in 1 .. m : Keyed(key, s)[i] = <<key, s[i]>>
  BY KeyedType
<1>4. /\ Keyed(key, t) \in Seq(Piece) /\ Len(Keyed(key, t)) = n
      /\ \A i \in 1 .. n : Keyed(key, t)[i] = <<key, t[i]>>
  BY KeyedType
<1>5. /\ l \in Seq(Piece) /\ Len(l) = m + n /\ \A i \in 1 .. m + n : l[i] = <<key, u[i]>>
  <2> HIDE DEF u
  <2>1. /\ Keyed(key, u) \in Seq(Piece) /\ Len(Keyed(key, u)) = Len(u)
        /\ \A i \in 1 .. Len(u) : Keyed(key, u)[i] = <<key, u[i]>>
    BY <1>2, KeyedType
  <2>2. Len(u) = m + n
    BY <1>2
  <2> HIDE DEF m, n
  <2> QED
    BY <2>1, <2>2
<1>6. /\ r \in Seq(Piece) /\ Len(r) = m + n
      /\ \A i \in 1 .. m + n : r[i] = IF i <= m THEN Keyed(key, s)[i] ELSE Keyed(key, t)[i - m]
  <2> DEFINE a == Keyed(key, s)
             b == Keyed(key, t)
  <2>1. a \in Seq(Piece) /\ b \in Seq(Piece) /\ Len(a) = m /\ Len(b) = n /\ r = a \o b
    BY <1>3, <1>4
  <2> HIDE DEF a, b, m, n, r
  <2>2. /\ r \in Seq(Piece) /\ Len(r) = Len(a) + Len(b)
        /\ \A i \in 1 .. Len(a) + Len(b) : r[i] = IF i <= Len(a) THEN a[i] ELSE b[i - Len(a)]
    BY <2>1, ConcatProperties
  <2> QED
    BY <2>1, <2>2 DEF a, b
<1> HIDE DEF m, n, u, l, r
<1>7. ASSUME NEW i \in 1 .. m + n PROVE l[i] = r[i]
  <2>1. CASE i <= m
    <3>1. i \in 1 .. m
      BY <1>1, <2>1
    <3> QED
      BY <1>2, <1>3, <1>5, <1>6, <2>1, <3>1
  <2>2. CASE ~(i <= m)
    <3>1. i - m \in 1 .. n
      BY <1>1, <2>2
    <3> QED
      BY <1>2, <1>4, <1>5, <1>6, <2>2, <3>1
  <2> QED
    BY <2>1, <2>2
<1>8. l = r
  BY <1>5, <1>6, <1>7, SeqEqual
<1> QED
  BY <1>8 DEF l, r, u

LEMMA PiecesMerge ==
  ASSUME NEW a \in Event, NEW b \in Event, NEW c \in Event, a.key = c.key, b.key = c.key,
         c.text = a.text \o b.text, a.text # <<>>, b.text # <<>>
  PROVE  Pieces(c) = Pieces(a) \o Pieces(b)
<1>1. /\ a.text \in Seq(Fragments) /\ b.text \in Seq(Fragments)
      /\ c.key \in Keys \cup Others \cup {Hello}
  BY DEF Event
<1>2. c.text # <<>>
  BY <1>1, ConcatEqualIffEmpty
<1>3. /\ Pieces(a) = Keyed(c.key, a.text) /\ Pieces(b) = Keyed(c.key, b.text)
      /\ Pieces(c) = Keyed(c.key, a.text \o b.text)
  BY <1>2 DEF Pieces, Keyed
<1> QED
  BY <1>1, <1>3, KeyedConcat

LEMMA AddEventSpells ==
  ASSUME NEW output \in Seq(Event), NEW event \in Event, Worded(output),
         event.key \in Keys => event.text # <<>>
  PROVE  /\ Worded(AddEvent(output, event))
         /\ Spelled(AddEvent(output, event)) = Spelled(output) \o Pieces(event)
<1>1. CASE Merges(output, event)
  <2> DEFINE f == Front(output)
             a == Last(output)
             c == Merged(output, event)
  <2>1. /\ f \in Seq(Event) /\ a \in Event /\ output = Append(f, a)
        /\ c \in Event /\ c.key = event.key /\ c.text = a.text \o event.text
        /\ AddEvent(output, event) = Append(f, c)
    BY <1>1, AddEventMerges
  <2>2. a.key = event.key /\ event.key \in Keys
    BY <1>1 DEF Merges
  <2> HIDE DEF f, a, c
  <2>3. Worded(f) /\ a.text # <<>> /\ event.text # <<>>
    <3>1. Worded(Append(f, a)) <=> Worded(f) /\ (a.key \in Keys => a.text # <<>>)
      BY <2>1, WordedAppend
    <3>2. Worded(Append(f, a))
      BY <2>1
    <3>3. a.key \in Keys /\ event.key \in Keys
      BY <2>2
    <3>4. event.text # <<>>
      BY <3>3
    <3>5. Worded(f) /\ a.text # <<>>
      BY <3>1, <3>2, <3>3
    <3> QED
      BY <3>4, <3>5
  <2>4. Pieces(c) = Pieces(a) \o Pieces(event)
    <3>1. a.key = c.key /\ event.key = c.key /\ c.text = a.text \o event.text
      BY <2>1, <2>2
    <3>2. a \in Event /\ c \in Event /\ event \in Event
      BY <2>1
    <3> QED
      BY <2>3, <3>1, <3>2, PiecesMerge
  <2>5. Spelled(output) = Spelled(f) \o Pieces(a) /\ Spelled(Append(f, c)) = Spelled(f) \o Pieces(c)
    BY <2>1, SpelledAppend
  <2>6. /\ Spelled(f) \in Seq(Piece) /\ Pieces(a) \in Seq(Piece) /\ Pieces(event) \in Seq(Piece)
    BY <2>1, SpelledType, PiecesType
  <2>7. Spelled(f) \o (Pieces(a) \o Pieces(event)) = (Spelled(f) \o Pieces(a)) \o Pieces(event)
    BY <2>6, ConcatAssociative
  <2>8. c.text # <<>>
    <3>1. a.text \in Seq(Fragments) /\ event.text \in Seq(Fragments)
      BY <2>1 DEF Event
    <3> QED
      BY <2>1, <2>3, <3>1, ConcatEqualIffEmpty
  <2>9. Worded(Append(f, c))
    <3>1. Worded(Append(f, c)) <=> Worded(f) /\ (c.key \in Keys => c.text # <<>>)
      BY <2>1, WordedAppend
    <3> QED
      BY <2>3, <2>8, <3>1
  <2> QED
    BY <2>1, <2>4, <2>5, <2>7, <2>9
<1>2. CASE ~Merges(output, event)
  <2>1. AddEvent(output, event) = Append(output, event)
    BY <1>2, AddEventAppends
  <2>2. Spelled(Append(output, event)) = Spelled(output) \o Pieces(event)
    BY SpelledAppend
  <2>3. Worded(Append(output, event))
    BY WordedAppend
  <2> QED
    BY <2>1, <2>2, <2>3
<1> QED
  BY <1>1, <1>2

(* Merging deltas leaves what is said, and the order it is said in.        *)
LEMMA CoalesceSpells ==
  ASSUME NEW events \in Seq(Event), Worded(events)
  PROVE  Spelled(coalesceServerEvents(events)) = Spelled(events)
<1> DEFINE n == Len(events)
<1>1. n \in Nat /\ DOMAIN events = 1 .. n /\ \A i \in 1 .. n : events[i] \in Event
  BY LenProperties, ElementOfSeq
<1>2. PICK h : Coalesces(events, h)
  BY CoalescesThrough
<1>3. PICK g : Spells(events, g)
  BY SpellsThrough
<1>4. /\ h[0] = <<>> /\ g[0] = <<>>
      /\ \A i \in 1 .. n : h[i] = AddEvent(h[i - 1], events[i])
      /\ \A i \in 1 .. n : g[i] = g[i - 1] \o Pieces(events[i])
      /\ h[n] = coalesceServerEvents(events) /\ g[n] = Spelled(events)
  BY <1>2, <1>3 DEF Coalesces, Spells
<1> DEFINE T == {i \in 0 .. n : h[i] \in Seq(Event) /\ Worded(h[i]) /\ Spelled(h[i]) = g[i]}
<1>5. 0 \in T
  <2>1. <<>> \in Seq(Event) /\ Worded(<<>>) /\ 0 \in 0 .. n
    BY <1>1, EmptySeq DEF Worded
  <2> QED
    BY <1>4, <2>1, SpelledNothing
<1>6. \A o \in Seq(Event) : \A e \in Event :
        /\ AddEvent(o, e) \in Seq(Event)
        /\ Worded(o) /\ (e.key \in Keys => e.text # <<>>) =>
             Worded(AddEvent(o, e)) /\ Spelled(AddEvent(o, e)) = Spelled(o) \o Pieces(e)
  BY AddEventType, AddEventSpells
<1>7. ASSUME NEW i \in 1 .. n, i - 1 \in T PROVE i \in T
  <2>1. /\ h[i - 1] \in Seq(Event) /\ Worded(h[i - 1]) /\ Spelled(h[i - 1]) = g[i - 1]
        /\ events[i] \in Event /\ i \in 0 .. n
        /\ h[i] = AddEvent(h[i - 1], events[i]) /\ g[i] = g[i - 1] \o Pieces(events[i])
    BY <1>1, <1>4, <1>7
  <2>2. events[i].key \in Keys => events[i].text # <<>>
    BY <1>1 DEF Worded
  <2>3. h[i] \in Seq(Event) /\ Worded(h[i]) /\ Spelled(h[i]) = Spelled(h[i - 1]) \o Pieces(events[i])
    BY <1>6, <2>1, <2>2
  <2> QED
    BY <2>1, <2>3
<1>8. n \in T
  <2> HIDE DEF T, n
  <2>1. \A i \in 0 .. n : i \in T
    BY <1>1, <1>5, <1>7, Inductive
  <2> QED
    BY <1>1, <2>1
<1> QED
  BY <1>4, <1>8

-----------------------------------------------------------------------------
(* What is read has a text if it is a delta.                               *)
LEMMA ArrivalIsEvent ==
  ASSUME NEW event \in Arrivals \cup {Heard(Hello)}
  PROVE  event \in Event /\ (event.key \in Keys => event.text # <<>>)
<1>1. CASE event \in [key : Keys, text : {<<f>> : f \in Fragments}]
  <2>1. PICK f \in Fragments : event.text = <<f>>
    BY <1>1
  <2>2. event.text \in Seq(Fragments) /\ event.text # <<>>
    BY <2>1
  <2> QED
    BY <1>1, <2>2 DEF Event
<1>2. ASSUME NEW x \in Others \cup {Hello}, event = Heard(x) PROVE event \in Event /\ event.key \notin Keys
  <2>1. event.key = x /\ event = [key |-> x, text |-> <<>>] /\ <<>> \in Seq(Fragments)
    BY <1>2, EmptySeq DEF Heard
  <2> QED
    BY <2>1, KindsAssumption DEF Event
<1> QED
  BY <1>1, <1>2 DEF Arrivals

(* The four things that happen to the queue of a frame.                    *)
Reads  == \E event \in Event : /\ event.key \in Keys => event.text # <<>>
                               /\ queue' = Append(queue, event)
                               /\ batch' = <<>>
Drops  == disposed' /\ queue' = <<>> /\ batch' = <<>>
Treats == nothingHeard \/ flush \/ Reads \/ Drops

LEMMA Treated ==
  ASSUME Next
  PROVE  Treats
<1> USE DEF Treats
<1>1. ASSUME NEW r \in DOMAIN runs, Handshakes(r) PROVE Reads
  <2>1. queue' = Append(queue, Heard(Hello)) /\ batch' = <<>>
    BY <1>1 DEF Handshakes, Handshake, publish
  <2>2. /\ Heard(Hello) \in Event
        /\ Heard(Hello).key \in Keys => Heard(Hello).text # <<>>
    BY ArrivalIsEvent
  <2> QED
    BY <2>1, <2>2 DEF Reads
<1>2. ASSUME NEW r \in DOMAIN runs, Receives(r) PROVE Reads
  <2>1. PICK event \in Arrivals : queue' = Append(queue, event) /\ batch' = <<>>
    BY <1>2 DEF Receives, Receive, publish
  <2>2. event \in Event /\ (event.key \in Keys => event.text # <<>>)
    BY ArrivalIsEvent
  <2> QED
    BY <2>1, <2>2 DEF Reads
<1>3. ASSUME NEW r \in DOMAIN runs, EndsAttempt(r) \/ LoopsOn(r) PROVE nothingHeard \/ flush
  BY <1>3 DEF EndsAttempt, EndAttempt, LoopsOn, Resume, Delayed, Loops, Opens, Ends
<1>4. CASE Flushes
  BY <1>4 DEF Flushes, Flush
<1>5. CASE PageStep
  BY <1>5 DEF PageStep, Start, Stop
<1>6. CASE Disposes
  BY <1>6 DEF Disposes, Dispose, Drops
<1>7. CASE Unseen
  BY <1>7 DEF Unseen
<1> QED
  BY <1>1, <1>2, <1>3, <1>4, <1>5, <1>6, <1>7
     DEF Next, Drains, GoesOn, Updates, Settles, Browses

QueueWorded == queue \in Seq(Event) /\ Worded(queue)

LEMMA WordedInv ==
  ASSUME QueueWorded, [Next]_vars
  PROVE  QueueWorded'
<1>1. <<>> \in Seq(Event) /\ Worded(<<>>)
  BY EmptySeq DEF Worded
<1>2. CASE nothingHeard \/ UNCHANGED vars
  <2>1. queue' = queue
    BY <1>2 DEF nothingHeard, vars, clientVars
  <2> QED
    BY <2>1 DEF QueueWorded, Worded
<1>3. CASE flush \/ Drops
  <2>1. queue' = <<>>
    BY <1>3 DEF flush, Drops
  <2> QED
    BY <1>1, <2>1 DEF QueueWorded, Worded
<1>4. CASE Reads
  <2>1. PICK event \in Event : (event.key \in Keys => event.text # <<>>) /\ queue' = Append(queue, event)
    BY <1>4 DEF Reads
  <2>2. Append(queue, event) \in Seq(Event)
    BY ExtendedBy DEF QueueWorded
  <2>3. Worded(Append(queue, event)) <=> Worded(queue) /\ (event.key \in Keys => event.text # <<>>)
    BY WordedAppend DEF QueueWorded
  <2>4. Worded(Append(queue, event))
    BY <2>1, <2>3 DEF QueueWorded
  <2> QED
    BY <2>1, <2>2, <2>4 DEF QueueWorded, Worded
<1> QED
  BY <1>2, <1>3, <1>4, Treated DEF Treats

LEMMA PrefixOfAppend ==
  ASSUME NEW S, NEW s \in Seq(S), NEW e \in S
  PROVE  IsPrefix(s, Append(s, e))
<1> DEFINE n == Len(s)
           t == Append(s, e)
<1>1. /\ n \in Nat /\ t \in Seq(S) /\ Len(t) = n + 1
      /\ \A i \in 1 .. n : t[i] = s[i]
  BY ExtendedBy
<1>2. \A i \in 1 .. n : s[i] \in S /\ t[i] \in S
  BY <1>1, ElementOfSeq
<1> HIDE DEF t, n
<1>3. /\ SubSeq(s, 1, n) \in Seq(S) /\ Len(SubSeq(s, 1, n)) = (IF 1 <= n THEN n - 1 + 1 ELSE 0)
      /\ \A i \in 1 .. n - 1 + 1 : SubSeq(s, 1, n)[i] = s[1 + i - 1]
  BY <1>1, <1>2, SubSeqProperties
<1>4. /\ SubSeq(t, 1, n) \in Seq(S) /\ Len(SubSeq(t, 1, n)) = (IF 1 <= n THEN n - 1 + 1 ELSE 0)
      /\ \A i \in 1 .. n - 1 + 1 : SubSeq(t, 1, n)[i] = t[1 + i - 1]
  BY <1>1, <1>2, SubSeqProperties
<1>5. n - 1 + 1 = n /\ (IF 1 <= n THEN n - 1 + 1 ELSE 0) = n /\ \A i \in 1 .. n : 1 + i - 1 = i
  BY <1>1
<1>6. \A i \in 1 .. n : SubSeq(s, 1, n)[i] = SubSeq(t, 1, n)[i]
  BY <1>1, <1>3, <1>4, <1>5
<1>7. SubSeq(s, 1, n) = SubSeq(t, 1, n)
  BY <1>3, <1>4, <1>5, <1>6, SeqEqual
<1>8. n <= Len(t)
  BY <1>1
<1> QED
  BY <1>7, <1>8 DEF IsPrefix, t, n

(* Whatever is read is heard, once and in order: neither the merging of    *)
(* deltas nor the moment of the flush changes what the listeners are told, *)
(* for frames of any length and any number of streams.                     *)
THEOREM HeardAsRead == Spec => HeardInOrder
<1> DEFINE Ordered == \/ disposed'
                      \/ IsPrefix(queue, queue')
                      \/ queue' = <<>> /\ Spelled(batch') = Spelled(queue)
<1>1. Init => QueueWorded
  BY EmptySeq DEF Init, ClientInit, QueueWorded, Worded
<1>2. QueueWorded /\ [Next]_vars => QueueWorded'
  BY WordedInv
<1>3. QueueWorded /\ [Next]_vars => [Ordered]_queue
  <2>1. SUFFICES ASSUME QueueWorded, [Next]_vars, queue' # queue PROVE Ordered
    OBVIOUS
  <2>2. flush \/ Reads \/ Drops
    BY <2>1, Treated DEF Treats, nothingHeard, vars, clientVars
  <2>3. CASE flush
    <3>1. queue' = <<>> /\ batch' = coalesceServerEvents(queue)
      BY <2>3 DEF flush
    <3>2. Spelled(coalesceServerEvents(queue)) = Spelled(queue)
      BY <2>1, CoalesceSpells DEF QueueWorded
    <3> QED
      BY <3>1, <3>2
  <2>4. CASE Reads
    <3>1. PICK event \in Event : queue' = Append(queue, event)
      BY <2>4 DEF Reads
    <3>2. IsPrefix(queue, Append(queue, event))
      BY <2>1, PrefixOfAppend DEF QueueWorded
    <3> QED
      BY <3>1, <3>2
  <2>5. CASE Drops
    BY <2>5 DEF Drops
  <2> QED
    BY <2>2, <2>3, <2>4, <2>5
<1> QED
  BY <1>1, <1>2, <1>3, PTL DEF Spec, HeardInOrder
-----------------------------------------------------------------------------
(* The queue's invariant: the pages show finitely many directories, so     *)
(* SetToSeq has an order to give them.                                     *)
QueueShape == QueueTypeOK /\ IsFiniteSet(active)

(* What a step may leave of the queue's variables.                         *)
LEMMA QueueAlone ==
  ASSUME QueueShape, UNCHANGED queueVars
  PROVE  QueueShape'
BY DEF QueueShape, QueueTypeOK, queueVars, Busy

LEMMA WiderSeq ==
  ASSUME NEW S, NEW T, S \subseteq T, NEW s \in Seq(S)
  PROVE  s \in Seq(T)
<1>1. Len(s) \in Nat /\ s \in [1 .. Len(s) -> S]
  BY LenProperties
<1>2. s \in [1 .. Len(s) -> T]
  BY <1>1
<1> QED
  BY <1>1, <1>2

(* What one event queues.                                                  *)
LEMMA RefreshedType ==
  ASSUME QueueShape, NEW event \in Event
  PROVE  /\ Refreshed(event) \in Seq(Dirs)
         /\ event.key = Hello => Range(Refreshed(event)) = active
<1>1. active \subseteq Dirs /\ IsFiniteSet(active)
  BY DEF QueueShape, QueueTypeOK
<1>2. SetToSeq(active) \in Seq(active) /\ Range(SetToSeq(active)) = active
  BY <1>1, InSomeOrder
<1>3. SetToSeq(active) \in Seq(Dirs)
  BY <1>1, <1>2, WiderSeq
<1>4. ASSUME event.key \in active PROVE <<event.key>> \in Seq(Dirs)
  BY <1>1, <1>4
<1>5. <<>> \in Seq(Dirs)
  BY EmptySeq
<1> QED
  BY <1>2, <1>3, <1>4, <1>5 DEF Refreshed

(* What the listeners queue: every directory shown, if the first event of  *)
(* a stream is among what they hear.                                       *)
Told(events) == FlattenSeq([i \in DOMAIN events |-> Refreshed(events[i])])

LEMMA ToldType ==
  ASSUME QueueShape, NEW events \in Seq(Event)
  PROVE  /\ Told(events) \in Seq(Dirs)
         /\ Hello \in Named(events) => active \subseteq Range(Told(events))
<1> DEFINE n == Len(events)
           seqs == [i \in DOMAIN events |-> Refreshed(events[i])]
<1>1. n \in Nat /\ DOMAIN events = 1 .. n /\ \A i \in 1 .. n : events[i] \in Event
  BY LenProperties, ElementOfSeq
<1>2. \A i \in 1 .. n : seqs[i] \in Seq(Dirs)
  BY <1>1, RefreshedType
<1>3. DOMAIN seqs = 1 .. n /\ seqs = [i \in 1 .. n |-> seqs[i]]
  BY <1>1
<1>4. seqs \in Seq(Seq(Dirs))
  <2> HIDE DEF seqs, n
  <2>1. seqs \in [1 .. n -> Seq(Dirs)]
    BY <1>2, <1>3
  <2> QED
    BY <1>1, <2>1
<1>5. /\ FlattenSeq(seqs) \in Seq(Dirs)
      /\ \A i \in DOMAIN seqs : Range(seqs[i]) \subseteq Range(FlattenSeq(seqs))
  <2> HIDE DEF seqs
  <2> QED
    BY <1>4, Flattened
<1>6. ASSUME Hello \in Named(events) PROVE active \subseteq Range(FlattenSeq(seqs))
  <2>1. PICK i \in DOMAIN events : events[i].key = Hello
    BY <1>6 DEF Named
  <2>2. Range(seqs[i]) = active
    BY <1>1, <2>1, RefreshedType
  <2> HIDE DEF seqs
  <2> QED
    BY <1>1, <1>3, <1>5, <2>1, <2>2
<1> QED
  BY <1>5, <1>6 DEF Told

(* The steps of the queue, each with what it leaves of pending.            *)
LEMMA QueueApart ==
  ASSUME QueueShape
  PROVE  pending \in Seq(Dirs) /\ Apart(pending)
BY DEF QueueShape, QueueTypeOK, Apart

LEMMA NothingIn ==
  ASSUME NEW S, NEW s \in Seq(S)
  PROVE  s = <<>> <=> Range(s) = {}
<1>1. Len(s) \in Nat /\ DOMAIN s = 1 .. Len(s)
  BY LenProperties
<1>2. ASSUME s # <<>> PROVE 1 \in DOMAIN s
  BY <1>1, <1>2, EmptySeq
<1>3. ASSUME s = <<>> PROVE DOMAIN s = {}
  BY <1>3
<1> QED
  BY <1>2, <1>3 DEF Range

(* The drain will look at the queue, or an update has sent it away.        *)
Going == scheduled \/ drain # "idle" \/ missed

(* push() neither drops nor doubles a directory, and sees that the queue   *)
(* is looked at.                                                           *)
LEMMA Pushed ==
  ASSUME QueueShape, NEW dirs \in Seq(Dirs), push(dirs), UNCHANGED <<stale, joined>>
  PROVE  /\ QueueShape'
         /\ Range(pending') = Range(pending) \cup Range(dirs)
         /\ pending' # <<>> /\ (pending # <<>> => Going) => Going'
<1>1. /\ pending' \in Seq(Dirs) /\ Apart(pending')
      /\ Range(pending') = Range(pending) \cup Range(dirs)
  BY QueueApart, EnqueuesAll DEF push
<1>2. scheduled' \in BOOLEAN /\ missed' \in BOOLEAN
  BY DEF push, QueueShape, QueueTypeOK
<1>3. QueueShape'
  BY <1>1, <1>2 DEF push, QueueShape, QueueTypeOK, Apart, Busy
<1>4. ASSUME pending' # <<>>, pending # <<>> => Going PROVE Going'
  <2>1. CASE dirs = <<>>
    <3>1. Range(pending') = Range(pending) /\ Range(pending') # {}
      BY <1>1, <1>4, <2>1, NothingIn, EmptySeq
    <3>2. pending # <<>>
      BY <3>1, NothingIn, EmptySeq
    <3> QED
      BY <1>4, <2>1, <3>2 DEF Going, push
  <2>2. CASE dirs # <<>>
    BY <2>2 DEF Going, push, QueueShape, QueueTypeOK
  <2> QED
    BY <2>1, <2>2
<1> QED
  BY <1>1, <1>3, <1>4

(* What the listeners may be given: nothing, or what leaves the queue.     *)
LEMMA Listened ==
  ASSUME QueueShape, queue \in Seq(Event), Listen,
         batch' = <<>> \/ batch' = coalesceServerEvents(queue)
  PROVE  /\ QueueShape'
         /\ Range(pending) \subseteq Range(pending')
         /\ batch' = coalesceServerEvents(queue) /\ Hello \in Named(queue) => active \subseteq Range(pending')
         /\ pending' # <<>> /\ (pending # <<>> => Going) => Going'
<1>1. batch' \in Seq(Event) /\ (batch' = coalesceServerEvents(queue) => Named(batch') = Named(queue))
  BY CoalesceNames, EmptySeq
<1>2. Told(batch') \in Seq(Dirs) /\ (Hello \in Named(batch') => active \subseteq Range(Told(batch')))
  BY <1>1, ToldType
<1>3. push(Told(batch')) /\ UNCHANGED <<stale, joined>>
  BY DEF Listen, Told
<1>4. /\ QueueShape' /\ Range(pending') = Range(pending) \cup Range(Told(batch'))
      /\ pending' # <<>> /\ (pending # <<>> => Going) => Going'
  BY <1>2, <1>3, Pushed
<1> QED
  BY <1>1, <1>2, <1>4

(* bootstrapInstance: what it loads is in flight, whatever was.            *)
LEMMA Booted ==
  ASSUME QueueShape, NEW dirs, dirs \subseteq Dirs, bootstrap(dirs)
  PROVE  /\ loads' \in [Dirs -> {"none", "busy", "done"}]
         /\ {d \in Dirs : Busy(d)} \subseteq {d \in Dirs : Busy(d)'}
         /\ dirs \subseteq {d \in Dirs : Busy(d)'}
         /\ stale' \subseteq stale /\ joined' \subseteq stale'
         /\ \A d \in stale' : d \in dirs => d \in joined'
         /\ joined \cap stale' \subseteq joined'
BY DEF QueueShape, QueueTypeOK, bootstrap, Busy

(* A turn of the drain.                                                    *)
LEMMA Turned ==
  ASSUME QueueShape, Turn, UNCHANGED <<paused, active>>, scheduled' \in BOOLEAN,
         drain # "loading"
  PROVE  QueueShape'
<1>1. CASE pending' = pending /\ drain' = "idle" /\ UNCHANGED <<awaiting, loads, stale, joined>> /\ missed' \in BOOLEAN
  BY <1>1 DEF QueueShape, QueueTypeOK, Busy
<1>2. CASE ~paused /\ pending # <<>> /\ drain' = "loading"
  <2> DEFINE dirs == {pending[i] : i \in {j \in DOMAIN pending : j <= TakeCount}}
  <2>1. /\ pending' = SubSeq(pending, TakeCount + 1, Len(pending))
        /\ bootstrap(dirs) /\ awaiting' = dirs /\ missed' = FALSE
    BY <1>2 DEF Turn
  <2>2. pending' \in Seq(Dirs) /\ Apart(pending')
    BY <2>1, QueueApart, TakesFirst, QueueAssumption
  <2>3. dirs \subseteq Dirs /\ dirs # {}
    <3>1. Len(pending) \in Nat \ {0} /\ DOMAIN pending = 1 .. Len(pending)
          /\ \A i \in DOMAIN pending : pending[i] \in Dirs
      BY <1>2, QueueApart, LenProperties, EmptySeq, ElementOfSeq
    <3>2. 1 \in DOMAIN pending /\ 1 <= TakeCount
      BY <3>1, QueueAssumption
    <3> QED
      BY <3>1, <3>2
  <2> HIDE DEF dirs
  <2>4. /\ loads' \in [Dirs -> {"none", "busy", "done"}]
        /\ dirs \subseteq {d \in Dirs : Busy(d)'}
        /\ stale' \subseteq stale /\ joined' \subseteq stale'
    BY <2>1, <2>3, Booted
  <2> QED
    BY <1>2, <2>1, <2>2, <2>3, <2>4 DEF QueueShape, QueueTypeOK, Apart
<1> QED
  BY <1>1, <1>2 DEF Turn, QueueShape, QueueTypeOK

LEMMA DrainsShape ==
  ASSUME QueueShape, DrainStarts \/ Ticked
  PROVE  QueueShape'
<1>1. CASE DrainStarts /\ drain # "idle"
  <2>1. /\ UNCHANGED <<pending, drain, awaiting, paused, active, loads, stale, joined, missed>>
        /\ scheduled' = FALSE
    BY <1>1 DEF DrainStarts
  <2> QED
    BY <2>1 DEF QueueShape, QueueTypeOK, Busy
<1>2. CASE DrainStarts /\ drain = "idle"
  BY <1>2, Turned DEF DrainStarts
<1>3. CASE Ticked
  <2>1. scheduled' \in BOOLEAN
    BY <1>3 DEF Ticked, QueueShape, QueueTypeOK
  <2> QED
    BY <1>3, <2>1, Turned DEF Ticked
<1> QED
  BY <1>1, <1>2, <1>3

LEMMA LoadEndsShape ==
  ASSUME QueueShape, NEW d \in Dirs, LoadEnds(d)
  PROVE  QueueShape'
<1>1. loads' \in [Dirs -> {"none", "busy", "done"}] /\ loads' = [loads EXCEPT ![d] = "done"]
  BY DEF LoadEnds, QueueShape, QueueTypeOK
<1>2. awaiting' \subseteq {e \in Dirs : Busy(e)'}
  BY <1>1 DEF LoadEnds, QueueShape, QueueTypeOK, Busy
<1>3. drain' \in {"idle", "loading", "ticking"} /\ (drain' = "loading" => awaiting' # {})
  BY DEF LoadEnds, QueueShape, QueueTypeOK
<1>4. UNCHANGED <<pending, scheduled, paused, active, stale, joined, missed>>
  BY DEF LoadEnds
<1> QED
  BY <1>1, <1>2, <1>3, <1>4 DEF QueueShape, QueueTypeOK

LEMMA OpenShape ==
  ASSUME QueueShape, NEW d \in Dirs, NEW online, Open(d, online)
  PROVE  QueueShape'
<1>1. active' = active \cup {d} /\ active' \subseteq Dirs /\ IsFiniteSet(active')
  BY FS_AddElement DEF Open, QueueShape, QueueTypeOK
<1>2. UNCHANGED <<pending, scheduled, drain, awaiting, paused, missed>>
  BY DEF Open
<1>3. CASE UNCHANGED <<loads, stale, joined>>
  BY <1>1, <1>2, <1>3 DEF QueueShape, QueueTypeOK, Busy
<1>4. CASE bootstrap({d})
  <2>1. /\ loads' \in [Dirs -> {"none", "busy", "done"}]
        /\ {e \in Dirs : Busy(e)} \subseteq {e \in Dirs : Busy(e)'}
        /\ stale' \subseteq stale /\ joined' \subseteq stale'
    BY <1>4, Booted
  <2> QED
    BY <1>1, <1>2, <2>1 DEF QueueShape, QueueTypeOK
<1> QED
  BY <1>3, <1>4 DEF Open

(* What is disposed of is neither shown nor queued.                        *)
LEMMA DisposeShape ==
  ASSUME QueueShape, NEW dirs, dirs \subseteq Dirs, \A d \in dirs : ~Busy(d),
         dispose(dirs), scheduled' \in BOOLEAN
  PROVE  QueueShape' /\ Range(pending') = Range(pending) \ dirs
<1>1. /\ pending' \in Seq(Dirs) /\ Apart(pending')
      /\ Range(pending') = Range(pending) \ dirs
  BY QueueApart, LeavesRest DEF dispose
<1>2. active' \subseteq active /\ IsFiniteSet(active')
  BY FS_Subset DEF dispose, QueueShape
<1>3. loads' \in [Dirs -> {"none", "busy", "done"}] /\ loads' = [d \in Dirs |-> IF d \in dirs THEN "none" ELSE loads[d]]
  BY DEF dispose, QueueShape, QueueTypeOK
<1>4. awaiting \subseteq {d \in Dirs : Busy(d)'}
  BY <1>3 DEF QueueShape, QueueTypeOK, Busy
<1>5. stale' \subseteq active' /\ joined' \subseteq stale'
  BY DEF dispose, QueueShape, QueueTypeOK
<1> QED
  BY <1>1, <1>2, <1>3, <1>4, <1>5 DEF dispose, QueueShape, QueueTypeOK, Apart

LEMMA ShapeInit == ASSUME Init PROVE QueueShape
<1>1. pending \in Seq(Dirs) /\ \A i, j \in DOMAIN pending : pending[i] = pending[j] => i = j
  BY EmptySeq DEF Init, QueueInit
<1>2. IsFiniteSet(active)
  BY FS_EmptySet DEF Init, QueueInit
<1> QED
  BY <1>1, <1>2 DEF Init, QueueInit, QueueShape, QueueTypeOK

LEMMA ShapeNext ==
  ASSUME QueueShape, queue \in Seq(Event), [Next]_vars
  PROVE  QueueShape'
<1>1. ASSUME NEW r \in DOMAIN runs, Handshakes(r) PROVE QueueShape'
  BY <1>1 DEF Handshakes, QueueShape, QueueTypeOK, Busy
<1>2. ASSUME NEW r \in DOMAIN runs, EndsAttempt(r) \/ LoopsOn(r) PROVE QueueShape'
  <2>1. Listen /\ (nothingHeard \/ flush)
    BY <1>2 DEF EndsAttempt, EndAttempt, LoopsOn, Resume, Delayed, Loops, Opens, Ends
  <2>2. batch' = <<>> \/ batch' = coalesceServerEvents(queue)
    BY <2>1 DEF nothingHeard, flush
  <2> QED
    BY <2>1, <2>2, Listened
<1>3. ASSUME NEW r \in DOMAIN runs, Receives(r) PROVE QueueShape'
  BY <1>3, QueueAlone DEF Receives
<1>4. CASE Flushes
  <2>1. Listen /\ batch' = coalesceServerEvents(queue)
    BY <1>4 DEF Flushes, Flush, flush
  <2> QED
    BY <2>1, Listened
<1>5. CASE PageStep
  BY <1>5, QueueAlone DEF PageStep
<1>6. CASE Disposes
  <2> DEFINE dirs == {d \in Dirs : ~Busy(d)}
  <2>1. dispose(dirs) /\ scheduled' = FALSE /\ dirs \subseteq Dirs /\ \A d \in dirs : ~Busy(d)
    BY <1>6 DEF Disposes
  <2> HIDE DEF dirs
  <2> QED
    BY <2>1, DisposeShape
<1>7. CASE Drains \/ GoesOn
  BY <1>7, DrainsShape DEF Drains, GoesOn
<1>8. CASE Updates
  <2>1. paused' \in BOOLEAN
    BY <1>8 DEF Updates, UpdateConfig, Pauses, Resumes
  <2> QED
    BY <1>8, <2>1 DEF Updates, UpdateConfig, QueueShape, QueueTypeOK, Busy
<1>9. ASSUME NEW d \in Dirs, Settles(d) PROVE QueueShape'
  BY <1>9, LoadEndsShape DEF Settles
<1>10. ASSUME NEW d \in Dirs, Browses(d) PROVE QueueShape'
  <2>1. CASE Open(d, connected)
    BY <2>1, OpenShape
  <2>2. CASE Evict(d)
    <3>1. {d} \subseteq Dirs /\ (\A e \in {d} : ~Busy(e)) /\ dispose({d}) /\ scheduled' \in BOOLEAN
      BY <2>2 DEF Evict, QueueShape, QueueTypeOK
    <3> QED
      BY <3>1, DisposeShape
  <2> QED
    BY <1>10, <2>1, <2>2 DEF Browses
<1>11. CASE UNCHANGED vars
  BY <1>11, QueueAlone DEF vars
<1> QED
  BY <1>1, <1>2, <1>3, <1>4, <1>5, <1>6, <1>7, <1>8, <1>9, <1>10, <1>11 DEF Next

Steady == ClientInv /\ QueueShape

LEMMA SteadyInvariant == Spec => []Steady
<1>1. Init => Steady
  BY InitInv, ShapeInit DEF Steady
<1>2. Steady /\ [Next]_vars => Steady'
  <2>1. Steady => queue \in Seq(Event)
    BY DEF Steady, ClientInv, ClientTypeOK
  <2> QED
    BY <2>1, NextInv, ShapeNext DEF Steady
<1> QED
  BY <1>1, <1>2, PTL DEF Spec

(* Every variable of the client and of the queue keeps its type, whatever  *)
(* is heard, opened and disposed of meanwhile: no directory is queued      *)
(* twice, the drain awaits loads in flight only and never none, and        *)
(* nothing that is not shown is thought to be stale.                       *)
THEOREM TypesHold == Spec => []TypeOK
<1>1. Steady => TypeOK
  BY DEF Steady, ClientInv, QueueShape, TypeOK
<1> QED
  BY <1>1, SteadyInvariant, PTL

-----------------------------------------------------------------------------
(* A directory in the queue is not forgotten there: the timer is set, the  *)
(* drain is under way, or the update that sent it away is remembered.      *)
QueuedGoesOn == pending # <<>> => Going \/ disposed

(* What a page shows and may be out of date is still to be loaded: the     *)
(* stream's first event is yet to be heard, or the directory is queued and *)
(* the queue goes on.  The exceptions are those of CatchesUp.              *)
Owed(d) == d \in joined \/ disposed \/ Hello \in Named(queue) \/ d \in Range(pending)
Remembered ==
  \A d \in stale : \/ d \in joined \/ disposed \/ Hello \in Named(queue)
                   \/ d \in Range(pending) /\ Going

Owing == QueuedGoesOn /\ \A d \in stale : Owed(d)

LEMMA TurnOwes ==
  ASSUME QueueShape, Owing, Turn, UNCHANGED <<queue, disposed>>
  PROVE  Owing'
<1>1. CASE UNCHANGED <<pending, stale, joined>> /\ (pending = <<>> \/ missed')
  BY <1>1 DEF Owing, QueuedGoesOn, Owed, Going
<1>2. CASE ~paused /\ pending # <<>> /\ drain' = "loading"
  <2> DEFINE dirs == {pending[i] : i \in {j \in DOMAIN pending : j <= TakeCount}}
  <2>1. pending' = SubSeq(pending, TakeCount + 1, Len(pending)) /\ bootstrap(dirs)
    BY <1>2 DEF Turn
  <2>1a. pending \in Seq(Dirs) /\ Apart(pending) /\ TakeCount \in Nat
    BY QueueApart, QueueAssumption
  <2>1b. Range(SubSeq(pending, TakeCount + 1, Len(pending))) = Range(pending) \ dirs
    BY <2>1a, TakesFirst
  <2>2. Range(pending') = Range(pending) \ dirs
    <3> HIDE DEF dirs
    <3> QED
      BY <2>1, <2>1b
  <2>3. dirs \subseteq Dirs
    BY QueueApart, ElementOfSeq, LenProperties
  <2> HIDE DEF dirs
  <2>4. /\ stale' \subseteq stale /\ joined \cap stale' \subseteq joined'
        /\ \A d \in stale' : d \in dirs => d \in joined'
    BY <2>1, <2>3, Booted
  <2>5. ASSUME NEW d \in stale' PROVE Owed(d)'
    BY <2>2, <2>4, <2>5 DEF Owing, Owed
  <2> QED
    BY <1>2, <2>5 DEF Owing, QueuedGoesOn, Going
<1> QED
  BY <1>1, <1>2 DEF Turn

(* What is flushed is either still in the queue or told to the listeners.  *)
LEMMA ListenOwes ==
  ASSUME QueueShape, queue \in Seq(Event), Owing, Listen, nothingHeard \/ flush,
         UNCHANGED disposed
  PROVE  Owing'
<1>1. batch' = <<>> \/ batch' = coalesceServerEvents(queue)
  BY DEF nothingHeard, flush
<1>2. /\ Range(pending) \subseteq Range(pending')
      /\ batch' = coalesceServerEvents(queue) /\ Hello \in Named(queue) => active \subseteq Range(pending')
      /\ pending' # <<>> /\ (pending # <<>> => Going) => Going'
  BY <1>1, Listened
<1>3. queue' = queue \/ batch' = coalesceServerEvents(queue)
  BY DEF nothingHeard, flush
<1>4. UNCHANGED <<stale, joined>> /\ stale \subseteq active
  BY DEF Listen, QueueShape, QueueTypeOK
<1>5. ASSUME NEW d \in stale' PROVE Owed(d)'
  BY <1>2, <1>3, <1>4 DEF Owing, Owed
<1>6. QueuedGoesOn'
  BY <1>2 DEF Owing, QueuedGoesOn
<1> QED
  BY <1>5, <1>6 DEF Owing

LEMMA OwingNext ==
  ASSUME QueueShape, queue \in Seq(Event), Owing, [Next]_vars
  PROVE  Owing'
<1>1. ASSUME NEW r \in DOMAIN runs, Handshakes(r) PROVE Owing'
  <2>1. /\ queue' = Append(queue, Heard(Hello)) /\ Heard(Hello) \in Event
        /\ UNCHANGED <<disposed, pending, scheduled, drain, missed>>
    BY <1>1, ArrivalIsEvent DEF Handshakes, Handshake, publish, lifecycle
  <2>2. Hello \in Named(queue')
    BY <2>1, NamedAppend DEF Heard
  <2> QED
    BY <2>1, <2>2 DEF Owing, QueuedGoesOn, Owed, Going
<1>2. ASSUME NEW r \in DOMAIN runs, EndsAttempt(r) \/ LoopsOn(r) PROVE Owing'
  <2>1. Listen /\ (nothingHeard \/ flush) /\ UNCHANGED disposed
    BY <1>2 DEF EndsAttempt, EndAttempt, LoopsOn, Resume, Delayed, Loops, Opens, Ends, lifecycle
  <2> QED
    BY <2>1, ListenOwes
<1>3. ASSUME NEW r \in DOMAIN runs, Receives(r) PROVE Owing'
  <2>1. PICK event \in Event : queue' = Append(queue, event)
    BY <1>3, ArrivalIsEvent DEF Receives, Receive, publish
  <2>2. Named(queue) \subseteq Named(queue')
    BY <2>1, NamedAppend
  <2>3. UNCHANGED <<disposed, queueVars>>
    BY <1>3 DEF Receives, Receive, lifecycle
  <2> QED
    BY <2>2, <2>3 DEF Owing, QueuedGoesOn, Owed, Going, queueVars
<1>4. CASE Flushes
  <2>1. Listen /\ flush /\ UNCHANGED disposed
    BY <1>4 DEF Flushes, Flush, lifecycle
  <2> QED
    BY <2>1, ListenOwes
<1>5. CASE PageStep
  BY <1>5 DEF PageStep, Start, Stop, nothingHeard, Owing, QueuedGoesOn, Owed, Going, queueVars
<1>6. CASE Disposes
  BY <1>6 DEF Disposes, Dispose, Owing, QueuedGoesOn, Owed
<1>7. CASE Drains \/ GoesOn
  <2>1. UNCHANGED <<queue, disposed>>
    BY <1>7 DEF Drains, GoesOn, Unseen, nothingHeard, lifecycle
  <2>2. CASE Turn
    BY <2>1, <2>2, TurnOwes
  <2>3. CASE drain # "idle" /\ UNCHANGED <<pending, drain, stale, joined>>
    BY <2>1, <2>3 DEF Owing, QueuedGoesOn, Owed, Going
  <2> QED
    BY <1>7, <2>2, <2>3 DEF Drains, GoesOn, DrainStarts, Ticked
<1>8. CASE Updates
  BY <1>8 DEF Updates, UpdateConfig, Unseen, nothingHeard, lifecycle,
     Owing, QueuedGoesOn, Owed, Going
<1>9. ASSUME NEW d \in Dirs, Settles(d) PROVE Owing'
  <2>1. /\ UNCHANGED <<queue, disposed, pending, scheduled, stale, joined, missed>>
        /\ drain # "idle" => drain' # "idle"
    BY <1>9 DEF Settles, LoadEnds, Unseen, nothingHeard, lifecycle
  <2> QED
    BY <2>1 DEF Owing, QueuedGoesOn, Owed, Going
<1>10. ASSUME NEW d \in Dirs, Browses(d) PROVE Owing'
  <2>1. UNCHANGED <<queue, disposed>>
    BY <1>10 DEF Browses, Unseen, nothingHeard, lifecycle
  <2>2. CASE Open(d, connected)
    <3>1. stale' \subseteq stale /\ joined \cap stale' \subseteq joined'
      BY <2>2, Booted DEF Open
    <3> QED
      BY <2>1, <2>2, <3>1 DEF Open, Owing, QueuedGoesOn, Owed, Going
  <2>3. CASE Evict(d)
    <3>1. /\ dispose({d}) /\ {d} \subseteq Dirs /\ (\A e \in {d} : ~Busy(e)) /\ scheduled' \in BOOLEAN
          /\ UNCHANGED scheduled
      BY <2>3 DEF Evict, QueueShape, QueueTypeOK
    <3>2. Range(pending') = Range(pending) \ {d} /\ pending' \in Seq(Dirs)
      BY <3>1, DisposeShape, QueueApart DEF QueueShape, QueueTypeOK
    <3>3. pending' # <<>> => pending # <<>>
      BY <3>2, QueueApart, NothingIn
    <3> QED
      BY <2>1, <3>1, <3>2, <3>3 DEF dispose, Owing, QueuedGoesOn, Owed, Going
  <2> QED
    BY <1>10, <2>2, <2>3 DEF Browses
<1>11. CASE UNCHANGED vars
  BY <1>11 DEF vars, clientVars, queueVars, lifecycle, Owing, QueuedGoesOn, Owed, Going
<1> QED
  BY <1>1, <1>2, <1>3, <1>4, <1>5, <1>6, <1>7, <1>8, <1>9, <1>10, <1>11 DEF Next

LEMMA OwingInvariant == Spec => []Owing
<1>1. Init => Owing
  BY DEF Init, ClientInit, QueueInit, Owing, QueuedGoesOn
<1>2. Steady /\ Owing /\ [Next]_vars => Owing'
  BY OwingNext DEF Steady, ClientInv, ClientTypeOK
<1> QED
  BY <1>1, <1>2, SteadyInvariant, PTL DEF Spec

(* The queue does not stand still over a directory it holds: whoever      *)
(* pushes, evicts or drains, the next turn is due or an update has put it  *)
(* off.                                                                    *)
THEOREM NothingWaitsInVain == Spec => []QueuedGoesOn
<1>1. Owing => QueuedGoesOn
  BY DEF Owing
<1> QED
  BY <1>1, OwingInvariant, PTL

(* What a lost stream left out of date is not forgotten on its way from    *)
(* the stream's first event through the queue of events, the merging, the  *)
(* listeners and the queue of directories to its load: the safety half of  *)
(* CatchesUp, for any number of directories and any batches.               *)
THEOREM StaleIsRemembered == Spec => []Remembered
<1>1. Steady /\ Owing => Remembered
  <2>1. SUFFICES ASSUME Steady, Owing, NEW d \in stale
                 PROVE  \/ d \in joined \/ disposed \/ Hello \in Named(queue)
                        \/ d \in Range(pending) /\ Going
    BY DEF Remembered
  <2>2. d \in joined \/ disposed \/ Hello \in Named(queue) \/ d \in Range(pending)
    BY <2>1 DEF Owing, Owed
  <2>3. pending \in Seq(Dirs)
    BY <2>1 DEF Steady, QueueShape, QueueTypeOK
  <2>4. ASSUME d \in Range(pending) PROVE Going \/ disposed
    <3>1. pending # <<>>
      BY <2>3, <2>4, NothingIn
    <3> QED
      BY <2>1, <3>1 DEF Owing, QueuedGoesOn
  <2> QED
    BY <2>2, <2>4
<1> QED
  BY <1>1, SteadyInvariant, OwingInvariant, PTL

-----------------------------------------------------------------------------
(* While the client is started, its latest run is the one wanted, is not   *)
(* over and has not been aborted.                                          *)
Serving == started /\ ~disposed => /\ Live(Latest)
                                   /\ runs[Latest].phase # "over"
                                   /\ ~runs[Latest].aborted

(* A run that can go on: it has been asked or waits for a timer, or the    *)
(* run it awaits is over.                                                  *)
GoesAhead(r) ==
  \/ Attempting(r)
  \/ r > 1 /\ runs[r].phase = "queued" /\ runs[r - 1].phase = "over"

(* The client is never left without a stream and without a run that brings *)
(* it one: some run can go on, and if that is not the one wanted, it has   *)
(* been aborted or has asked for nothing yet, so it makes way.             *)
NeverStuck ==
  started /\ ~disposed =>
    /\ Live(Latest) /\ runs[Latest].phase # "over" /\ ~runs[Latest].aborted
    /\ \E r \in DOMAIN runs : /\ GoesAhead(r)
                              /\ r = Latest \/ runs[r].aborted \/ runs[r].phase = "queued"

(* A step that changes one run and not the flags.                          *)
LEMMA ServingKept ==
  ASSUME ClientInv, Serving, NEW r \in DOMAIN runs, NEW new \in Run,
         runs' = [runs EXCEPT ![r] = new], new.active = runs[r].active,
         r = Latest /\ Live(r) => new.phase # "over" /\ ~new.aborted,
         UNCHANGED lifecycle
  PROVE  Serving'
<1>1. /\ Latest \in DOMAIN runs /\ Latest' = Latest
      /\ runs'[r] = new /\ \A q \in DOMAIN runs : q # r => runs'[q] = runs[q]
  <2>1. [runs EXCEPT ![r] = new] \in [DOMAIN runs -> Run]
    BY RunsShape DEF ClientInv
  <2>2. Latest' = Latest
    BY <2>1, Reshaped DEF ClientInv
  <2> QED
    BY <2>2, RunsShape DEF ClientInv
<1>2. runs'[Latest].active = runs[Latest].active
  BY <1>1
<1> QED
  BY <1>1, <1>2 DEF Serving, Live, lifecycle

LEMMA ServingNext ==
  ASSUME ClientInv, Serving, [Next]_vars
  PROVE  Serving'
<1>0. /\ \A r \in DOMAIN runs : runs[r] \in Run
      /\ Latest \in DOMAIN runs /\ DOMAIN runs = 1 .. Latest /\ Latest \in Nat
  BY RunsShape DEF ClientInv
<1>a. ASSUME NEW r \in DOMAIN runs, Ends(r), ~Live(r), UNCHANGED lifecycle PROVE Serving'
  <2> DEFINE new == [runs[r] EXCEPT !.phase = "over"]
  <2>1. new \in Run /\ new.active = runs[r].active /\ runs' = [runs EXCEPT ![r] = new]
    BY <1>0, <1>a DEF Ends, Run, Phases
  <2> HIDE DEF new
  <2> QED
    BY <1>a, <2>1, ServingKept
<1>b. ASSUME NEW r \in DOMAIN runs, Loops(r) PROVE Serving'
  <2>1. CASE Live(r)
    <3> DEFINE new == [runs[r] EXCEPT !.phase = "opening", !.aborted = FALSE]
    <3>1. /\ new \in Run /\ new.active = runs[r].active /\ new.phase = "opening" /\ ~new.aborted
          /\ runs' = [runs EXCEPT ![r] = new] /\ UNCHANGED lifecycle
      BY <1>0, <1>b, <2>1 DEF Loops, Opens, Run, Phases
    <3> HIDE DEF new
    <3> QED
      BY <3>1, ServingKept
  <2>2. CASE ~Live(r)
    BY <1>a, <1>b, <2>2 DEF Loops
  <2> QED
    BY <2>1, <2>2
<1>1. ASSUME NEW r \in DOMAIN runs, Handshakes(r) PROVE Serving'
  <2> DEFINE new == [runs[r] EXCEPT !.phase = "reading"]
  <2>1. /\ new \in Run /\ new.active = runs[r].active /\ new.phase = "reading" /\ ~new.aborted
        /\ runs' = [runs EXCEPT ![r] = new] /\ UNCHANGED lifecycle
    BY <1>0, <1>1 DEF Handshakes, Handshake, Run, Phases
  <2> HIDE DEF new
  <2> QED
    BY <2>1, ServingKept
<1>2. ASSUME NEW r \in DOMAIN runs, EndsAttempt(r) PROVE Serving'
  <2>1. CASE Live(r)
    <3> DEFINE new == [runs[r] EXCEPT !.phase = "delaying"]
    <3>1. /\ new \in Run /\ new.active = runs[r].active /\ new.phase = "delaying" /\ new.aborted = runs[r].aborted
          /\ runs' = [runs EXCEPT ![r] = new] /\ UNCHANGED lifecycle
      BY <1>0, <1>2, <2>1 DEF EndsAttempt, EndAttempt, Run, Phases
    <3>2. r = Latest => ~runs[r].aborted
      BY <2>1 DEF Serving, Live
    <3> HIDE DEF new
    <3> QED
      BY <3>1, <3>2, ServingKept
  <2>2. CASE ~Live(r)
    BY <1>a, <1>2, <2>2 DEF EndsAttempt, EndAttempt
  <2> QED
    BY <2>1, <2>2
<1>3. ASSUME NEW r \in DOMAIN runs, LoopsOn(r) PROVE Serving'
  BY <1>b, <1>3 DEF LoopsOn, Resume, Delayed
<1>4. CASE UNCHANGED <<lifecycle, runs>>
  BY <1>4 DEF Serving, Live, Latest, lifecycle
<1>5. CASE Start
  <2> DEFINE new == [phase   |-> IF runs[Latest].phase # "over" THEN "queued" ELSE "opening",
                     active  |-> generation + 1,
                     aborted |-> FALSE]
  <2>1. /\ new \in Run /\ new.active = generation + 1 /\ ~new.aborted /\ new.phase # "over"
        /\ runs' = Append(runs, new) /\ generation' = generation + 1
    BY <1>5 DEF Start, Run, Phases, ClientInv, ClientTypeOK
  <2> HIDE DEF new
  <2>2. Latest' = Latest + 1 /\ runs'[Latest + 1] = new
    BY <2>1, RunsShape, AppendProperties DEF ClientInv, Latest
  <2> QED
    BY <2>1, <2>2 DEF Serving, Live
<1>6. CASE Stop
  BY <1>6 DEF Stop, stop, Serving
<1>7. CASE Disposes
  BY <1>7 DEF Disposes, Dispose, stop, Serving
<1> QED
  BY <1>1, <1>2, <1>3, <1>4, <1>5, <1>6, <1>7
     DEF Next, Drains, GoesOn, Updates, Settles, Browses, Unseen, PageStep, Flushes, Flush,
         Receives, Receive, vars, clientVars

(* The run everything waits for: the first that is not over.               *)
LEMMA FirstGoesAhead ==
  ASSUME ClientInv, runs[Latest].phase # "over"
  PROVE  \E r \in DOMAIN runs : GoesAhead(r)
<1>1. DOMAIN runs = 1 .. Latest /\ Latest \in Nat \ {0} /\ \A r \in DOMAIN runs : runs[r] \in Run
  BY RunsShape DEF ClientInv
<1> DEFINE T == {r \in DOMAIN runs : runs[r].phase # "over"}
<1>2. Latest \in T /\ T \subseteq Nat
  BY <1>1
<1>3. PICK r \in T : \A q \in T : r <= q
  <2> HIDE DEF T
  <2> QED
    BY <1>2, LeastNatural
<1>4. CASE runs[r].phase = "queued"
  <2>1. r # 1 /\ r \in 1 .. Latest
    BY <1>1, <1>4 DEF ClientInv, Chained
  <2>2. r - 1 \in DOMAIN runs /\ r - 1 \notin T /\ r > 1
    BY <1>1, <1>3, <2>1
  <2> QED
    BY <1>4, <2>2 DEF GoesAhead
<1>5. CASE runs[r].phase # "queued"
  <2>1. runs[r].phase \in {"opening", "reading", "delaying"}
    BY <1>1, <1>5 DEF Run, Phases
  <2> QED
    BY <2>1 DEF GoesAhead, Attempting
<1> QED
  BY <1>4, <1>5

(* A started client is on its way to its stream, however often the page    *)
(* was hidden and shown before and whatever order the aborted requests end *)
(* in: the safety half of Reconnects, for any number of restarts.          *)
THEOREM AlwaysOnItsWay == Spec => []NeverStuck
<1>1. Init => Serving
  BY DEF Init, ClientInit, Serving, Live, Latest
<1>2. ClientInv /\ Serving /\ [Next]_vars => Serving'
  BY ServingNext
<1>3. ClientInv /\ Serving => NeverStuck
  <2>1. SUFFICES ASSUME ClientInv, Serving, started, ~disposed
                 PROVE  /\ Live(Latest) /\ runs[Latest].phase # "over" /\ ~runs[Latest].aborted
                        /\ \E r \in DOMAIN runs :
                             GoesAhead(r) /\ (r = Latest \/ runs[r].aborted \/ runs[r].phase = "queued")
    BY DEF NeverStuck
  <2>2. Live(Latest) /\ runs[Latest].phase # "over" /\ ~runs[Latest].aborted
    BY <2>1 DEF Serving
  <2>3. PICK r \in DOMAIN runs : GoesAhead(r)
    BY <2>1, <2>2, FirstGoesAhead
  <2>4. r = Latest \/ runs[r].aborted \/ runs[r].phase = "queued"
    BY <2>1, <2>3 DEF GoesAhead, ClientInv, Known
  <2> QED
    BY <2>2, <2>3, <2>4
<1> QED
  BY <1>1, <1>2, <1>3, ClientInvariant, PTL DEF Spec


=============================================================================
