------------------------------ MODULE CmdRunner ------------------------------
(***************************************************************************)
(* The session store and run supervisor of the daemon                      *)
(* (packages/daemon/src/runner.ts, with the NDJSON splitter of ndjson.ts). *)
(*                                                                         *)
(* A session is a record in an in-memory Map; a run is a spawned CLI child *)
(* process whose stdout lines, 'error' and 'close' events call back into   *)
(* the store.  Callbacks carry the session's id only, so a run finds       *)
(* whatever record the Map holds under that id when the callback fires.    *)
(* JavaScript runs each handler to completion: one handler is one action.  *)
(*                                                                         *)
(* emit() calls every listener synchronously; `wire' is the sequence of    *)
(* arguments emit() was called with in the last step.                      *)
(***************************************************************************)
EXTENDS Integers, FiniteSets, Sequences

CONSTANTS
  Ids,         \* session ids
  None,        \* the id of a run that was never spawned
  MAX_KEEP,    \* how many sessions trimOld keeps
  MaxRuns,     \* bound: child processes ever spawned
  MaxPrompts,  \* bound: prompts (and legacy starts) of one session id
  MaxClock,    \* bound: values of Date.now()
  MaxBirths,   \* bound: insertions into the Map between two restarts
  MaxDeltas,   \* bound: text_delta frames of one run
  TidyCli      \* TRUE: the CLI prints only frames, and none after its result

ASSUME RunnerAssumption ==
  /\ IsFiniteSet(Ids)
  /\ None \notin Ids
  /\ MAX_KEEP \in Nat \ {0}
  /\ MaxRuns \in Nat
  /\ MaxPrompts \in Nat
  /\ MaxClock \in Nat
  /\ MaxBirths \in Nat
  /\ MaxDeltas \in Nat
  /\ TidyCli \in BOOLEAN

VARIABLES
  sessions,  \* the Map, with Absent under an id it does not hold
  runs,      \* the child processes, in the order they were spawned
  used,      \* ids ever handed out or received: randomUUID() avoids them
  clock,     \* Date.now(); the wall clock may be set backwards
  births,    \* insertions so far: a Map iterates in insertion order
  prompts,   \* history: how often each id was prompted or started
  stranded,  \* history: ids whose latest spawn() threw synchronously
  wire       \* the emissions of the last step

runnerVars == <<sessions, runs, used, clock, births, prompts, stranded, wire>>

-----------------------------------------------------------------------------
Run == 1 .. MaxRuns

(* finalText is identified by the run that printed it (0: undefined).  The *)
(* error text only matters as missing, the stock sentence, or specific.    *)
Session ==
  [state   : {"absent", "idle", "running", "done", "error"},
   error   : {"none", "generic", "detail"},
   final   : 0 .. MaxRuns,
   created : 0 .. MaxClock,
   born    : 0 .. MaxBirths]

Absent == [state |-> "absent", error |-> "none", final |-> 0, created |-> 0, born |-> 0]

(* `verdict' is what the last line it printed that settles a session said; *)
(* `rivals' (history) the runs of its session that were open when it was   *)
(* spawned: nothing keeps a session from being prompted while it runs.     *)
Process ==
  [id      : Ids \cup {None},
   phase   : {"unused", "spawning", "live", "failed", "exited0", "exited1", "lost"},
   verdict : {"none", "success", "failure"},
   deltas  : 0 .. MaxDeltas,
   rivals  : SUBSET Run]

NoProcess == [id |-> None, phase |-> "unused", verdict |-> "none", deltas |-> 0, rivals |-> {}]

(* What the parser can hand on: the two result subtypes that differ to the *)
(* code ("max_turns" is handled as "success"), with a text and without one *)
(* ("silent"), a failed result with and without a message, the events      *)
(* applyFrame tells apart, and a line that makes the try block of ndjson.ts*)
(* throw: not JSON, or JSON whose type is not "result" and that has no     *)
(* event field.                                                            *)
ResultKinds == {"success", "silent", "error", "generic"}
EventKinds  == {"runError", "delta", "event"}
LineKinds   == ResultKinds \cup EventKinds \cup {"garbage"}

(* "synthetic" is the frame emit() makes up when it is given none.         *)
Frame == [kind : LineKinds \cup {"synthetic"}, run : 0 .. MaxRuns, n : 0 .. MaxDeltas]

Synthetic == [kind |-> "synthetic", run |-> 0, n |-> 0]

Emission == [id : Ids, session : Session, frame : Frame]

Settled == {"done", "error"}
Open    == {"spawning", "live", "failed"}

Known(ss) == {s \in Ids : ss[s].state # "absent"}

Emit(id, session, frame) == <<[id |-> id, session |-> session, frame |-> frame]>>

-----------------------------------------------------------------------------
(* list() and trimOld(): newest createdAt first, by a stable sort, so that *)
(* of two sessions made in the same millisecond the older one comes first. *)
ListedBefore(a, b) ==
  \/ a.created > b.created
  \/ a.created = b.created /\ a.born < b.born

(* Mutant of TrimOld: slice(MAX_KEEP + 1).                                 *)
TrimLate(ss) ==
  [s \in Ids |->
     IF Cardinality({t \in Known(ss) : ListedBefore(ss[t], ss[s])}) > MAX_KEEP
     THEN Absent
     ELSE ss[s]]

TrimOld(ss) ==
  [s \in Ids |->
     IF Cardinality({t \in Known(ss) : ListedBefore(ss[t], ss[s])}) >= MAX_KEEP
     THEN Absent
     ELSE ss[s]]

NewSession ==
  [state |-> "idle", error |-> "none", final |-> 0, created |-> clock, born |-> births + 1]

Register(id) == TrimOld([sessions EXCEPT ![id] = NewSession])

(* POST /api/session: create() without an id makes a fresh one.            *)
Create(id) ==
  /\ id \notin used
  /\ births < MaxBirths
  /\ sessions' = Register(id)
  /\ births' = births + 1
  /\ used' = used \cup {id}
  /\ wire' = <<>>
  /\ UNCHANGED <<runs, clock, prompts, stranded>>

(* POST .../agent and .../model: ensure() for an id the Map does not hold  *)
(* (for one it does hold, only the agent or model field changes).          *)
Ensure(id) ==
  /\ id \notin Known(sessions)
  /\ births < MaxBirths
  /\ sessions' = Register(id)
  /\ births' = births + 1
  /\ used' = used \cup {id}
  /\ wire' = <<>>
  /\ UNCHANGED <<runs, clock, prompts, stranded>>

-----------------------------------------------------------------------------
(* spawn() either returns a child, whose failure to start is reported      *)
(* later, or throws (argument list too long, a NUL in the prompt).         *)
SpawnRun(id) ==
  \/ \E p \in Run :
       /\ runs[p].phase = "unused"
       /\ \A q \in 1 .. (p - 1) : runs[q].phase # "unused"
       /\ runs' = [runs EXCEPT ![p] =
                     [id |-> id, phase |-> "spawning", verdict |-> "none", deltas |-> 0,
                      rivals |-> {q \in Run : runs[q].id = id /\ runs[q].phase \in Open}]]
       /\ stranded' = stranded \ {id}
  \/ /\ UNCHANGED runs
     /\ stranded' = stranded \cup {id}

(* Mutant of Prompted: the text of the previous run is not cleared.        *)
PromptedWithText(session) == [session EXCEPT !.state = "running", !.error = "none"]

(* A record set running: the outcome of the previous run is cleared.       *)
Prompted(session) == [session EXCEPT !.state = "running", !.error = "none", !.final = 0]

(* POST .../prompt; nothing refuses one for a session that is running. The *)
(* record prompt() works on is the one it looked up or made; trimOld may   *)
(* already have dropped a new one from the Map, in which case it is still  *)
(* emitted but spawnRun finds nothing and returns.                         *)
Prompt(id) ==
  LET held   == id \in Known(sessions)
      base   == IF held THEN sessions ELSE Register(id)
      object == Prompted(IF held THEN sessions[id] ELSE NewSession)
  IN /\ prompts[id] < MaxPrompts
     /\ held \/ births < MaxBirths
     /\ births' = IF held THEN births ELSE births + 1
     /\ used' = used \cup {id}
     /\ prompts' = [prompts EXCEPT ![id] = @ + 1]
     /\ wire' = Emit(id, object, Synthetic)
     /\ IF id \in Known(base)
        THEN sessions' = [base EXCEPT ![id] = object] /\ SpawnRun(id)
        ELSE sessions' = base /\ UNCHANGED <<runs, stranded>>
     /\ UNCHANGED clock

(* POST /api/sessions (legacy): a fresh session set running without emit() *)
Start(id) ==
  /\ id \notin used
  /\ prompts[id] < MaxPrompts
  /\ births < MaxBirths
  /\ LET base == Register(id)
     IN IF id \in Known(base)
        THEN sessions' = [base EXCEPT ![id].state = "running"] /\ SpawnRun(id)
        ELSE sessions' = base /\ UNCHANGED <<runs, stranded>>
  /\ births' = births + 1
  /\ used' = used \cup {id}
  /\ prompts' = [prompts EXCEPT ![id] = @ + 1]
  /\ wire' = <<>>
  /\ UNCHANGED clock

-----------------------------------------------------------------------------
(* Each callback below returns the Map after it and what it emitted.       *)
NoEffect(ss) == [sessions |-> ss, wire |-> <<>>]

(* Mutant of Fail: the failure is not published.                           *)
FailQuietly(ss, id) ==
  IF id \notin Known(ss)
  THEN NoEffect(ss)
  ELSE NoEffect([ss EXCEPT ![id] = [@ EXCEPT !.state = "error", !.error = "detail"]])

Fail(ss, id) ==
  LET failed == [ss[id] EXCEPT !.state = "error", !.error = "detail"]
  IN IF id \notin Known(ss)
     THEN NoEffect(ss)
     ELSE [sessions |-> [ss EXCEPT ![id] = failed], wire |-> Emit(id, failed, Synthetic)]

(* The record after a frame. A result overwrites the outcome; a run_error  *)
(* with a message leaves one; other events leave the record alone.         *)
After(session, f) ==
  CASE f.kind = "success"  -> [session EXCEPT !.state = "done", !.final = f.run, !.error = "none"]
    [] f.kind = "silent"   -> [session EXCEPT !.state = "done", !.final = 0, !.error = "none"]
    [] f.kind = "error"    -> [session EXCEPT !.state = "error", !.final = f.run, !.error = "detail"]
    [] f.kind = "generic"  -> [session EXCEPT !.state = "error", !.final = f.run, !.error = "generic"]
    [] f.kind = "runError" -> [session EXCEPT !.error = "detail"]
    [] OTHER               -> session

ApplyFrame(ss, id, f) ==
  LET after == After(ss[id], f)
  IN IF id \notin Known(ss)
     THEN NoEffect(ss)
     ELSE [sessions |-> [ss EXCEPT ![id] = after], wire |-> Emit(id, after, f)]

(* The parser's try/catch around one complete line.                        *)
Dispatch(ss, id, f) == IF f.kind = "garbage" THEN Fail(ss, id) ELSE ApplyFrame(ss, id, f)

(* Mutants of Finish: the exit code is not turned into an error text; a    *)
(* session with a noted error is left alone.                               *)
FinishSilently(ss, id, clean, detail) ==
  LET ended == [ss[id] EXCEPT !.state = IF clean THEN "done" ELSE "error"]
  IN IF ss[id].state = "running"
     THEN [sessions |-> [ss EXCEPT ![id] = ended], wire |-> Emit(id, ended, Synthetic)]
     ELSE NoEffect(ss)

FinishUnlessNoted(ss, id, clean, detail) ==
  LET ended == [ss[id] EXCEPT !.state = IF clean THEN "done" ELSE "error",
                              !.error = IF clean THEN "none" ELSE "detail"]
  IN IF ss[id].state = "running" /\ ss[id].error = "none"
     THEN [sessions |-> [ss EXCEPT ![id] = ended], wire |-> Emit(id, ended, Synthetic)]
     ELSE NoEffect(ss)

(* The rest of the 'close' handler, after parser.end(): `clean' is exit    *)
(* code 0, `detail' a non-empty stderr.                                    *)
Finish(ss, id, clean, detail) ==
  LET s     == ss[id]
      ended == [s EXCEPT !.state = IF clean THEN "done" ELSE "error",
                         !.error = IF ~clean /\ s.error = "none" THEN "detail" ELSE @]
      explained == [s EXCEPT !.error = "detail"]
  IN IF s.state = "running"
     THEN [sessions |-> [ss EXCEPT ![id] = ended], wire |-> Emit(id, ended, Synthetic)]
     ELSE IF s.state = "error" /\ s.error # "detail" /\ detail
     THEN [sessions |-> [ss EXCEPT ![id] = explained], wire |-> Emit(id, explained, Synthetic)]
     ELSE NoEffect(ss)

-----------------------------------------------------------------------------
(* The CLI (outside src/): the lines it may print next.                    *)
MayPrint(p, kind) ==
  /\ kind = "delta" => runs[p].deltas < MaxDeltas
  /\ TidyCli => kind # "garbage" /\ runs[p].verdict = "none"

FrameOf(p, kind) ==
  [kind |-> kind, run |-> p, n |-> IF kind = "delta" THEN runs[p].deltas + 1 ELSE runs[p].deltas]

VerdictOf(kind, before) ==
  CASE kind \in {"success", "silent"}           -> "success"
    [] kind \in {"error", "generic", "garbage"} -> "failure"
    [] kind \in EventKinds                      -> before

Printed(p, kind, phase) ==
  [runs[p] EXCEPT !.phase = phase,
                  !.verdict = VerdictOf(kind, @),
                  !.deltas = IF kind = "delta" THEN @ + 1 ELSE @]

(* A newline completes a line of stdout.                                   *)
Stdout(p, kind) ==
  /\ runs[p].phase \in {"spawning", "live"}
  /\ MayPrint(p, kind)
  /\ LET effect == Dispatch(sessions, runs[p].id, FrameOf(p, kind))
     IN sessions' = effect.sessions /\ wire' = effect.wire
  /\ runs' = [runs EXCEPT ![p] = Printed(p, kind, "live")]
  /\ UNCHANGED <<used, clock, births, prompts, stranded>>

(* The child's 'error' event: it could not be started.                     *)
SpawnError(p) ==
  /\ runs[p].phase = "spawning"
  /\ LET effect == Fail(sessions, runs[p].id)
     IN sessions' = effect.sessions /\ wire' = effect.wire
  /\ runs' = [runs EXCEPT ![p].phase = "failed"]
  /\ UNCHANGED <<used, clock, births, prompts, stranded>>

Exit(clean) == IF clean THEN "exited0" ELSE "exited1"

(* The child's 'close' event with nothing left in the parser's buffer.  A  *)
(* child that never started closes with a negative code and no stderr.     *)
Close(p, clean, detail) ==
  /\ runs[p].phase \in Open
  /\ runs[p].phase = "failed" => ~clean /\ ~detail
  /\ LET effect == Finish(sessions, runs[p].id, clean, detail)
     IN sessions' = effect.sessions /\ wire' = effect.wire
  /\ runs' = [runs EXCEPT ![p].phase = Exit(clean)]
  /\ UNCHANGED <<used, clock, births, prompts, stranded>>

(* 'close' with an unterminated last line: parser.end() dispatches it and  *)
(* the handler goes on in the same call.                                   *)
CloseTrailing(p, kind, clean, detail) ==
  /\ runs[p].phase \in {"spawning", "live"}
  /\ MayPrint(p, kind)
  /\ LET id    == runs[p].id
         first == Dispatch(sessions, id, FrameOf(p, kind))
         last  == Finish(first.sessions, id, clean, detail)
     IN sessions' = last.sessions /\ wire' = first.wire \o last.wire
  /\ runs' = [runs EXCEPT ![p] = Printed(p, kind, Exit(clean))]
  /\ UNCHANGED <<used, clock, births, prompts, stranded>>

-----------------------------------------------------------------------------
(* The wall clock moves, forwards or (NTP, the user) backwards.            *)
ClockMoves ==
  /\ clock' \in (0 .. MaxClock) \ {clock}
  /\ wire' = <<>>
  /\ UNCHANGED <<sessions, runs, used, births, prompts, stranded>>

(* The daemon dies and is started again: the Map and the callbacks of the  *)
(* children that still run are gone, the ids clients remember are not.     *)
Restart ==
  /\ sessions' = [s \in Ids |-> Absent]
  /\ runs' = [p \in Run |-> IF runs[p].phase \in Open THEN [runs[p] EXCEPT !.phase = "lost"]
                                                      ELSE runs[p]]
  /\ births' = 0
  /\ stranded' = {}
  /\ wire' = <<>>
  /\ UNCHANGED <<used, clock, prompts>>

-----------------------------------------------------------------------------
RunnerInit ==
  /\ sessions = [s \in Ids |-> Absent]
  /\ runs = [p \in Run |-> NoProcess]
  /\ used = {}
  /\ clock = 0
  /\ births = 0
  /\ prompts = [s \in Ids |-> 0]
  /\ stranded = {}
  /\ wire = <<>>

Closes(p) ==
  \E clean, detail \in BOOLEAN :
    \/ Close(p, clean, detail)
    \/ \E kind \in LineKinds : CloseTrailing(p, kind, clean, detail)

Handler ==
  \/ \E id \in Ids : Create(id) \/ Ensure(id) \/ Prompt(id) \/ Start(id)
  \/ \E p \in Run : \/ \E kind \in LineKinds : Stdout(p, kind)
                    \/ SpawnError(p)
                    \/ Closes(p)
  \/ ClockMoves

RunnerNext == Handler \/ Restart

RunnerSpec == RunnerInit /\ [][RunnerNext]_runnerVars

-----------------------------------------------------------------------------
(* Types.  Every emission of one step is about one session.                *)
RunnerTypeOK ==
  /\ sessions \in [Ids -> Session]
  /\ runs \in [Run -> Process]
  /\ used \subseteq Ids
  /\ clock \in 0 .. MaxClock
  /\ births \in 0 .. MaxBirths
  /\ prompts \in [Ids -> 0 .. MaxPrompts]
  /\ stranded \subseteq Ids
  /\ wire \in Seq(Emission)
  /\ Len(wire) <= 2

(* A failed session always says why (fail, applyFrame and the close        *)
(* handler each fill session.error in their own way, and prompt clears it).*)
ErrorExplained == \A s \in Ids : sessions[s].state = "error" => sessions[s].error # "none"

(* A session reported successful has evidence for it: a run of it whose    *)
(* last verdict was a success, or one that exited with code 0.             *)
DoneHasEvidence ==
  \A s \in Ids : sessions[s].state = "done" =>
    \E p \in Run : runs[p].id = s /\ (runs[p].verdict = "success" \/ runs[p].phase = "exited0")

(* So no session settles without a reason.                                 *)
OutcomeExplained == ErrorExplained /\ DoneHasEvidence

(* A session shown as running still has a child whose close event will end *)
(* it.  The only other way to be running is a spawn() that threw after     *)
(* prompt or start had already set the state (runner.ts:112,128).          *)
RunningHasProcess ==
  \A s \in Ids : sessions[s].state = "running" =>
     \/ s \in stranded
     \/ \E p \in Run : runs[p].id = s /\ runs[p].phase \in Open

(* The outcome a session shows is that of its latest run, or of one that   *)
(* was still open when the latest was spawned: some such run has printed a *)
(* verdict or ended, and the text is that of such a run.  A run that had   *)
(* ended before has no part in it.  A rival has one, since frames and      *)
(* close events carry the session id only (runner.ts:166-200): it may      *)
(* settle the latest prompt while that prompt's own child still runs.      *)
NoStaleOutcome ==
  \A p \in Run :
    /\ runs[p].phase # "unused"
    /\ \A q \in Run : q > p => runs[q].id # runs[p].id
    => LET s      == sessions[runs[p].id]
           atHand == {p} \cup runs[p].rivals
       IN /\ s.state \in Settled =>
               \E q \in atHand : runs[q].verdict # "none" \/ runs[q].phase \notin {"spawning", "live"}
          /\ s.final \in {0} \cup atHand

(* The Map never holds more than MAX_KEEP sessions between two handlers,   *)
(* whatever the clock does to the order trimOld sorts by.                  *)
StoreBounded == Cardinality(Known(sessions)) <= MAX_KEEP

(* Every change of a session to done or error is published in the step     *)
(* that makes it, with the new state (the event stream relies on it).      *)
SettlingIsPublished ==
  [][\A s \in Ids :
       /\ sessions'[s].state \in Settled
       /\ sessions[s].state \notin Settled
       => \E i \in DOMAIN wire' : wire'[i].id = s /\ wire'[i].session = sessions'[s]]_runnerVars

(* A running session settles (or is dropped by trimOld or a restart),      *)
(* unless its spawn() threw.                                               *)
RunSettles ==
  \A s \in Ids : (sessions[s].state = "running" /\ s \notin stranded)
                   ~> (sessions[s].state # "running" \/ s \in stranded)

=============================================================================
