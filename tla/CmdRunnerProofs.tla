--------------------------- MODULE CmdRunnerProofs ---------------------------
(***************************************************************************)
(* The safety properties of CmdRunner for every number of sessions, runs   *)
(* and prompts, every MAX_KEEP, any clock and any output of the CLI.       *)
(*                                                                         *)
(* The callbacks of a child (Fail, ApplyFrame, Finish) are the operators   *)
(* the argument turns on: each changes at most the record of the child's   *)
(* session and emits the record it leaves (CallbackContract).              *)
(***************************************************************************)
EXTENDS CmdRunner, TLAPS, FiniteSetTheorems, SequenceTheorems

(* A child that was spawned belongs to a session id.                       *)
RunsHaveIds == \A p \in Run : runs[p].phase # "unused" => runs[p].id \in Ids

(* What is true of the result e of any callback for session id, on Map ss. *)
CallbackContract(ss, id, e) ==
  /\ e.sessions \in [Ids -> Session]
  /\ e.wire \in Seq(Emission)
  /\ \A s \in Ids : s # id => e.sessions[s] = ss[s]
  /\ e.sessions[id].born = ss[id].born
  /\ e.sessions[id].state = "absent" <=> ss[id].state = "absent"
  /\ \/ e.sessions = ss /\ e.wire = <<>>
     \/ /\ Len(e.wire) = 1
        /\ e.wire[1].id = id
        /\ e.wire[1].session = e.sessions[id]

-----------------------------------------------------------------------------
(* The values the Map and the table of children are given.                 *)
LEMMA AbsentType == Absent \in Session
BY RunnerAssumption DEF Absent, Session

LEMMA NewSessionType ==
  ASSUME clock \in 0 .. MaxClock, births \in 0 .. MaxBirths, births < MaxBirths
  PROVE  NewSession \in Session /\ NewSession.state = "idle"
BY RunnerAssumption DEF NewSession, Session

LEMMA SyntheticType == Synthetic \in Frame
BY RunnerAssumption DEF Synthetic, Frame

LEMMA TrimOldType ==
  ASSUME NEW ss \in [Ids -> Session]
  PROVE  /\ TrimOld(ss) \in [Ids -> Session]
         /\ \A s \in Ids : TrimOld(ss)[s] \in {ss[s], Absent}
BY AbsentType DEF TrimOld

LEMMA RegisterType ==
  ASSUME RunnerTypeOK, NEW id \in Ids, births < MaxBirths
  PROVE  /\ Register(id) \in [Ids -> Session]
         /\ \A s \in Ids : s # id => Register(id)[s] \in {sessions[s], Absent}
         /\ Register(id)[id] \in {NewSession, Absent}
<1>1. NewSession \in Session
  BY NewSessionType DEF RunnerTypeOK
<1>2. [sessions EXCEPT ![id] = NewSession] \in [Ids -> Session]
  BY <1>1 DEF RunnerTypeOK
<1> QED
  BY <1>1, <1>2, TrimOldType DEF Register, RunnerTypeOK

LEMMA EmitType ==
  ASSUME NEW id \in Ids, NEW session \in Session, NEW frame \in Frame
  PROVE  /\ Emit(id, session, frame) \in Seq(Emission)
         /\ Len(Emit(id, session, frame)) = 1
         /\ Emit(id, session, frame)[1].id = id
         /\ Emit(id, session, frame)[1].session = session
BY DEF Emit, Emission

LEMMA FrameOfType ==
  ASSUME RunnerTypeOK, NEW p \in Run, NEW kind \in LineKinds, MayPrint(p, kind)
  PROVE  FrameOf(p, kind) \in Frame /\ FrameOf(p, kind).run = p
BY RunnerAssumption DEF RunnerTypeOK, FrameOf, MayPrint, Frame, Process, Run

LEMMA PrintedType ==
  ASSUME RunnerTypeOK, NEW p \in Run, NEW kind \in LineKinds, MayPrint(p, kind),
         NEW phase \in {"live", "exited0", "exited1"}
  PROVE  /\ Printed(p, kind, phase) \in Process
         /\ Printed(p, kind, phase).id = runs[p].id
         /\ Printed(p, kind, phase).phase = phase
<1>1. runs[p] \in Process
  BY DEF RunnerTypeOK
<1>2. kind = "delta" => runs[p].deltas + 1 \in 0 .. MaxDeltas
  BY <1>1, RunnerAssumption DEF MayPrint, Process
<1>3. VerdictOf(kind, runs[p].verdict) \in {"none", "success", "failure"}
  BY <1>1 DEF VerdictOf, LineKinds, ResultKinds, EventKinds, Process
<1> QED
  BY <1>1, <1>2, <1>3 DEF Printed, Process

-----------------------------------------------------------------------------
(* Each callback keeps the contract.                                       *)
LEMMA NoEffectContract ==
  ASSUME NEW ss \in [Ids -> Session], NEW id \in Ids
  PROVE  CallbackContract(ss, id, NoEffect(ss))
BY DEF CallbackContract, NoEffect

(* So does any callback that stores a record of the same age and emits it. *)
LEMMA StoreContract ==
  ASSUME NEW ss \in [Ids -> Session], NEW id \in Ids, NEW frame \in Frame,
         NEW session \in Session, session.born = ss[id].born,
         session.state # "absent", ss[id].state # "absent"
  PROVE  CallbackContract(ss, id, [sessions |-> [ss EXCEPT ![id] = session],
                                   wire |-> Emit(id, session, frame)])
BY EmitType DEF CallbackContract

LEMMA FailContract ==
  ASSUME NEW ss \in [Ids -> Session], NEW id \in Ids
  PROVE  CallbackContract(ss, id, Fail(ss, id))
<1> DEFINE failed == [ss[id] EXCEPT !.state = "error", !.error = "detail"]
<1>1. CASE id \notin Known(ss)
  BY <1>1, NoEffectContract DEF Fail
<1>2. CASE id \in Known(ss)
  <2>1. /\ failed \in Session /\ failed.born = ss[id].born
        /\ failed.state # "absent" /\ ss[id].state # "absent"
    BY <1>2 DEF Session, Known
  <2>2. Fail(ss, id) = [sessions |-> [ss EXCEPT ![id] = failed],
                        wire |-> Emit(id, failed, Synthetic)]
    BY <1>2 DEF Fail
  <2> HIDE DEF failed
  <2> QED
    BY <2>1, <2>2, StoreContract, SyntheticType
<1> QED
  BY <1>1, <1>2

LEMMA AfterType ==
  ASSUME NEW session \in Session, session.state # "absent", NEW f \in Frame
  PROVE  /\ After(session, f) \in Session
         /\ After(session, f).born = session.born
         /\ After(session, f).state # "absent"
<1>1. 0 \in 0 .. MaxRuns
  BY RunnerAssumption
<1> QED
  BY <1>1 DEF After, Session, Frame

LEMMA ApplyFrameContract ==
  ASSUME NEW ss \in [Ids -> Session], NEW id \in Ids, NEW f \in Frame
  PROVE  CallbackContract(ss, id, ApplyFrame(ss, id, f))
<1>1. CASE id \notin Known(ss)
  BY <1>1, NoEffectContract DEF ApplyFrame
<1>2. CASE id \in Known(ss)
  <2>1. /\ After(ss[id], f) \in Session /\ After(ss[id], f).born = ss[id].born
        /\ After(ss[id], f).state # "absent" /\ ss[id].state # "absent"
    BY <1>2, AfterType DEF Known
  <2>2. ApplyFrame(ss, id, f) = [sessions |-> [ss EXCEPT ![id] = After(ss[id], f)],
                                 wire |-> Emit(id, After(ss[id], f), f)]
    BY <1>2 DEF ApplyFrame
  <2> QED
    BY <2>1, <2>2, StoreContract
<1> QED
  BY <1>1, <1>2

LEMMA DispatchContract ==
  ASSUME NEW ss \in [Ids -> Session], NEW id \in Ids, NEW f \in Frame
  PROVE  CallbackContract(ss, id, Dispatch(ss, id, f))
BY FailContract, ApplyFrameContract DEF Dispatch

LEMMA FinishContract ==
  ASSUME NEW ss \in [Ids -> Session], NEW id \in Ids,
         NEW clean \in BOOLEAN, NEW detail \in BOOLEAN
  PROVE  CallbackContract(ss, id, Finish(ss, id, clean, detail))
<1> DEFINE ended == [ss[id] EXCEPT !.state = IF clean THEN "done" ELSE "error",
                                   !.error = IF ~clean /\ ss[id].error = "none"
                                             THEN "detail" ELSE @]
           explained == [ss[id] EXCEPT !.error = "detail"]
<1>1. CASE ss[id].state = "running"
  <2>1. ended \in Session /\ ended.born = ss[id].born /\ ended.state # "absent"
    BY DEF Session
  <2>2. Finish(ss, id, clean, detail) =
          [sessions |-> [ss EXCEPT ![id] = ended], wire |-> Emit(id, ended, Synthetic)]
    BY <1>1 DEF Finish
  <2> HIDE DEF ended
  <2> QED
    BY <1>1, <2>1, <2>2, StoreContract, SyntheticType
<1>2. CASE ss[id].state = "error" /\ ss[id].error # "detail" /\ detail
  <2>1. explained \in Session /\ explained.born = ss[id].born /\ explained.state # "absent"
    BY <1>2 DEF Session
  <2>2. Finish(ss, id, clean, detail) =
          [sessions |-> [ss EXCEPT ![id] = explained], wire |-> Emit(id, explained, Synthetic)]
    BY <1>2 DEF Finish
  <2> HIDE DEF explained
  <2> QED
    BY <1>2, <2>1, <2>2, StoreContract, SyntheticType
<1>3. CASE ~ \/ ss[id].state = "running"
             \/ ss[id].state = "error" /\ ss[id].error # "detail" /\ detail
  BY <1>3, NoEffectContract DEF Finish
<1> QED
  BY <1>1, <1>2, <1>3

-----------------------------------------------------------------------------
(* What a step that runs callbacks for session id does to the Map, and     *)
(* what it emits: last of all the record it leaves.                        *)
StepContract(id) ==
  /\ sessions' \in [Ids -> Session]
  /\ wire' \in Seq(Emission) /\ Len(wire') <= 2
  /\ \A s \in Ids : s # id => sessions'[s] = sessions[s]
  /\ sessions'[id].born = sessions[id].born
  /\ sessions'[id].state = "absent" <=> sessions[id].state = "absent"
  /\ \A i \in 1 .. Len(wire') : wire'[i].id = id
  /\ \/ sessions'[id] = sessions[id] /\ wire' = <<>>
     \/ Len(wire') > 0 /\ wire'[Len(wire')].session = sessions'[id]

LEMMA OneCallback ==
  ASSUME NEW id \in Ids, NEW e, CallbackContract(sessions, id, e),
         sessions' = e.sessions, wire' = e.wire
  PROVE  StepContract(id)
<1>1. CASE e.sessions = sessions /\ e.wire = <<>>
  BY <1>1, EmptySeq DEF CallbackContract, StepContract
<1>2. CASE Len(e.wire) = 1 /\ e.wire[1].id = id /\ e.wire[1].session = e.sessions[id]
  BY <1>2 DEF CallbackContract, StepContract
<1> QED
  BY <1>1, <1>2 DEF CallbackContract

(* The emissions of two callbacks, one after the other.                    *)
Joined(a, b, w) ==
  \/ a = <<>> /\ w = b
  \/ b = <<>> /\ w = a
  \/ /\ Len(a) = 1 /\ Len(b) = 1
     /\ w \in Seq(Emission) /\ Len(w) = 2 /\ w[1] = a[1] /\ w[2] = b[1]

LEMMA ShortConcat ==
  ASSUME NEW a \in Seq(Emission), NEW b \in Seq(Emission),
         Len(a) \in {0, 1}, Len(b) \in {0, 1}
  PROVE  Joined(a, b, a \o b)
<1>1. CASE Len(a) = 0
  BY <1>1, ConcatEmptySeq, EmptySeq DEF Joined
<1>2. CASE Len(b) = 0
  BY <1>2, ConcatEmptySeq, EmptySeq DEF Joined
<1>3. CASE Len(a) = 1 /\ Len(b) = 1
  <2>1. /\ a \o b \in Seq(Emission)
        /\ Len(a \o b) = Len(a) + Len(b)
        /\ \A i \in 1 .. Len(a) + Len(b) : (a \o b)[i] = IF i <= Len(a) THEN a[i] ELSE b[i - Len(a)]
    BY ConcatProperties
  <2>2. (a \o b)[1] = a[1] /\ (a \o b)[2] = b[1]
    BY <1>3, <2>1
  <2> QED
    BY <1>3, <2>1, <2>2 DEF Joined
<1> QED
  BY <1>1, <1>2, <1>3

LEMMA TwoCallbacks ==
  ASSUME NEW id \in Ids, NEW first, NEW last,
         CallbackContract(sessions, id, first), CallbackContract(first.sessions, id, last),
         sessions' = last.sessions, Joined(first.wire, last.wire, wire')
  PROVE  StepContract(id)
<1>1. /\ sessions' \in [Ids -> Session]
      /\ \A s \in Ids : s # id => sessions'[s] = sessions[s]
      /\ sessions'[id].born = sessions[id].born
      /\ sessions'[id].state = "absent" <=> sessions[id].state = "absent"
  BY DEF CallbackContract
<1>2. CASE first.wire = <<>> /\ wire' = last.wire
  <2>1. first.sessions = sessions
    BY <1>2 DEF CallbackContract
  <2>2. CallbackContract(sessions, id, last)
    BY <2>1
  <2> QED
    BY <1>2, <2>2, OneCallback
<1>3. CASE last.wire = <<>> /\ wire' = first.wire
  <2>1. sessions' = first.sessions
    BY <1>3 DEF CallbackContract
  <2> QED
    BY <1>3, <2>1, OneCallback
<1>4. CASE /\ Len(first.wire) = 1 /\ Len(last.wire) = 1 /\ wire' \in Seq(Emission)
           /\ Len(wire') = 2 /\ wire'[1] = first.wire[1] /\ wire'[2] = last.wire[1]
  BY <1>1, <1>4 DEF CallbackContract, StepContract
<1> QED
  BY <1>2, <1>3, <1>4 DEF Joined

(* The steps of a child.                                                   *)
ChildSteps(p) ==
  \/ \E kind \in LineKinds : Stdout(p, kind)
  \/ SpawnError(p)
  \/ Closes(p)

LEMMA ChildContract ==
  ASSUME RunnerTypeOK, RunsHaveIds, NEW p \in Run, ChildSteps(p)
  PROVE  runs[p].id \in Ids /\ runs[p].phase # "unused" /\ StepContract(runs[p].id)
<1>1. runs[p].phase # "unused" /\ runs[p].id \in Ids
  BY DEF ChildSteps, Stdout, SpawnError, Closes, Close, CloseTrailing, Open, RunsHaveIds
<1>2. sessions \in [Ids -> Session]
  BY DEF RunnerTypeOK
<1>3. ASSUME NEW kind \in LineKinds, Stdout(p, kind) PROVE StepContract(runs[p].id)
  <2>1. FrameOf(p, kind) \in Frame
    BY <1>3, FrameOfType DEF Stdout
  <2>2. CallbackContract(sessions, runs[p].id, Dispatch(sessions, runs[p].id, FrameOf(p, kind)))
    BY <1>1, <1>2, <2>1, DispatchContract
  <2> QED
    BY <1>1, <1>3, <2>2, OneCallback DEF Stdout
<1>4. CASE SpawnError(p)
  BY <1>1, <1>2, <1>4, FailContract, OneCallback DEF SpawnError
<1>5. ASSUME NEW clean \in BOOLEAN, NEW detail \in BOOLEAN, Close(p, clean, detail)
      PROVE  StepContract(runs[p].id)
  BY <1>1, <1>2, <1>5, FinishContract, OneCallback DEF Close
<1>6. ASSUME NEW clean \in BOOLEAN, NEW detail \in BOOLEAN, NEW kind \in LineKinds,
             CloseTrailing(p, kind, clean, detail)
      PROVE  StepContract(runs[p].id)
  <2> DEFINE first == Dispatch(sessions, runs[p].id, FrameOf(p, kind))
             last  == Finish(first.sessions, runs[p].id, clean, detail)
  <2>1. FrameOf(p, kind) \in Frame
    BY <1>6, FrameOfType DEF CloseTrailing
  <2>2. CallbackContract(sessions, runs[p].id, first)
    BY <1>1, <1>2, <2>1, DispatchContract
  <2>3. first.sessions \in [Ids -> Session]
    BY <2>2 DEF CallbackContract
  <2>4. CallbackContract(first.sessions, runs[p].id, last)
    BY <1>1, <2>3, FinishContract
  <2>5. sessions' = last.sessions /\ wire' = first.wire \o last.wire
    BY <1>6 DEF CloseTrailing
  <2>6. Joined(first.wire, last.wire, wire')
    BY <2>2, <2>4, <2>5, ShortConcat DEF CallbackContract
  <2> HIDE DEF first, last
  <2> QED
    BY <1>1, <2>2, <2>4, <2>5, <2>6, TwoCallbacks
<1> QED
  BY <1>1, <1>3, <1>4, <1>5, <1>6 DEF ChildSteps, Closes

-----------------------------------------------------------------------------
(* How the steps of a child change the table of children.                  *)
LEMMA ChildRuns ==
  ASSUME RunnerTypeOK, NEW p \in Run, ChildSteps(p)
  PROVE  /\ runs' \in [Run -> Process]
         /\ \A q \in Run : q # p => runs'[q] = runs[q]
         /\ runs'[p].id = runs[p].id
         /\ runs'[p].phase \in {"live", "failed", "exited0", "exited1"}
         /\ runs[p].phase \in Open
         /\ UNCHANGED <<used, clock, births, prompts, stranded>>
<1>1. runs \in [Run -> Process]
  BY DEF RunnerTypeOK
<1>2. ASSUME NEW kind \in LineKinds, Stdout(p, kind)
      PROVE  runs'[p] \in Process /\ runs'[p].id = runs[p].id /\ runs'[p].phase = "live"
  BY <1>1, <1>2, PrintedType DEF Stdout
<1>3. SpawnError(p) =>
        runs'[p] \in Process /\ runs'[p].id = runs[p].id /\ runs'[p].phase = "failed"
  BY <1>1 DEF SpawnError, Process
<1>4. ASSUME NEW clean \in BOOLEAN, NEW detail \in BOOLEAN, Close(p, clean, detail)
      PROVE  /\ runs'[p] \in Process /\ runs'[p].id = runs[p].id
             /\ runs'[p].phase \in {"exited0", "exited1"}
  BY <1>1, <1>4 DEF Close, Exit, Process
<1>5. ASSUME NEW clean \in BOOLEAN, NEW detail \in BOOLEAN, NEW kind \in LineKinds,
             CloseTrailing(p, kind, clean, detail)
      PROVE  /\ runs'[p] \in Process /\ runs'[p].id = runs[p].id
             /\ runs'[p].phase \in {"exited0", "exited1"}
  BY <1>1, <1>5, PrintedType DEF CloseTrailing, Exit
<1>6. /\ \E process : runs' = [runs EXCEPT ![p] = process]
      /\ runs[p].phase \in Open
      /\ UNCHANGED <<used, clock, births, prompts, stranded>>
  BY DEF ChildSteps, Stdout, SpawnError, Closes, Close, CloseTrailing, Open
<1> QED
  BY <1>1, <1>2, <1>3, <1>4, <1>5, <1>6 DEF ChildSteps, Closes

(* Spawning changes the table at one unused place, if at all.              *)
LEMMA SpawnRunType ==
  ASSUME RunnerTypeOK, NEW id \in Ids, SpawnRun(id)
  PROVE  /\ runs' \in [Run -> Process]
         /\ stranded' \subseteq Ids
         /\ \A s \in Ids \ {id} : s \in stranded' <=> s \in stranded
         /\ \/ UNCHANGED runs /\ id \in stranded'
            \/ \E p \in Run : /\ runs[p].phase = "unused"
                              /\ \A q \in Run : q # p => runs'[q] = runs[q]
                              /\ runs'[p].id = id
                              /\ runs'[p].phase = "spawning"
<1>1. ASSUME NEW p \in Run, runs[p].phase = "unused", stranded' = stranded \ {id},
             runs' = [runs EXCEPT ![p] =
                        [id |-> id, phase |-> "spawning", verdict |-> "none", deltas |-> 0,
                         rivals |-> {q \in Run : runs[q].id = id /\ runs[q].phase \in Open}]]
      PROVE  /\ runs' \in [Run -> Process]
             /\ stranded' \subseteq Ids
             /\ \A q \in Run : q # p => runs'[q] = runs[q]
             /\ runs'[p].id = id /\ runs'[p].phase = "spawning"
  BY <1>1, RunnerAssumption DEF RunnerTypeOK, Process
<1>2. CASE UNCHANGED runs /\ stranded' = stranded \cup {id}
  BY <1>2 DEF RunnerTypeOK
<1> QED
  BY <1>1, <1>2 DEF SpawnRun

-----------------------------------------------------------------------------
(* What a prompt works on: the record it looked up or made, set running.   *)
PromptBase(id) == IF id \in Known(sessions) THEN sessions ELSE Register(id)

PromptObject(id) == Prompted(IF id \in Known(sessions) THEN sessions[id] ELSE NewSession)

LEMMA PromptedType ==
  ASSUME NEW s \in Session
  PROVE  Prompted(s) \in Session /\ Prompted(s).state = "running" /\ Prompted(s).born = s.born
<1>1. 0 \in 0 .. MaxRuns
  BY RunnerAssumption
<1> QED
  BY <1>1 DEF Prompted, Session

LEMMA EmptyWire == <<>> \in Seq(Emission) /\ Len(<<>>) <= 2
BY EmptySeq

LEMMA PromptType ==
  ASSUME RunnerTypeOK, NEW id \in Ids, Prompt(id)
  PROVE  /\ PromptBase(id) \in [Ids -> Session]
         /\ \A s \in Ids : s # id => PromptBase(id)[s] \in {sessions[s], Absent}
         /\ PromptObject(id) \in Session /\ PromptObject(id).state = "running"
         /\ wire' = Emit(id, PromptObject(id), Synthetic)
         /\ \/ /\ sessions' = [PromptBase(id) EXCEPT ![id] = PromptObject(id)]
               /\ SpawnRun(id)
            \/ /\ sessions' = PromptBase(id)
               /\ id \notin Known(PromptBase(id))
               /\ UNCHANGED <<runs, stranded>>
<1>1. sessions \in [Ids -> Session] /\ sessions[id] \in Session
  BY DEF RunnerTypeOK
<1>2. CASE id \in Known(sessions)
  <2>1. PromptBase(id) = sessions
    BY <1>2 DEF PromptBase
  <2>2. PromptObject(id) = Prompted(sessions[id])
    BY <1>2 DEF PromptObject
  <2>3. PromptObject(id) \in Session /\ PromptObject(id).state = "running"
    BY <1>1, <2>2, PromptedType
  <2>4. /\ wire' = Emit(id, PromptObject(id), Synthetic)
        /\ sessions' = [sessions EXCEPT ![id] = PromptObject(id)] /\ SpawnRun(id)
    BY <1>2, <2>2 DEF Prompt
  <2> QED
    BY <1>1, <2>1, <2>3, <2>4
<1>3. CASE id \notin Known(sessions)
  <2>1. births < MaxBirths
    BY <1>3 DEF Prompt
  <2>2. NewSession \in Session
    BY <2>1, NewSessionType DEF RunnerTypeOK
  <2>3. PromptBase(id) = Register(id)
    BY <1>3 DEF PromptBase
  <2>4. PromptObject(id) = Prompted(NewSession)
    BY <1>3 DEF PromptObject
  <2>5. PromptObject(id) \in Session /\ PromptObject(id).state = "running"
    BY <2>2, <2>4, PromptedType
  <2>6. /\ wire' = Emit(id, PromptObject(id), Synthetic)
        /\ IF id \in Known(Register(id))
           THEN sessions' = [Register(id) EXCEPT ![id] = PromptObject(id)] /\ SpawnRun(id)
           ELSE sessions' = Register(id) /\ UNCHANGED <<runs, stranded>>
    BY <1>3, <2>4 DEF Prompt
  <2> QED
    BY <2>1, <2>3, <2>5, <2>6, RegisterType
<1> QED
  BY <1>2, <1>3

LEMMA StartType ==
  ASSUME RunnerTypeOK, NEW id \in Ids, Start(id)
  PROVE  /\ Register(id) \in [Ids -> Session]
         /\ \/ /\ sessions' = [Register(id) EXCEPT ![id] = [NewSession EXCEPT !.state = "running"]]
               /\ [NewSession EXCEPT !.state = "running"] \in Session
               /\ SpawnRun(id)
            \/ /\ sessions' = Register(id)
               /\ UNCHANGED <<runs, stranded>>
<1>1. births < MaxBirths
  BY DEF Start
<1>2. NewSession \in Session
  BY <1>1, NewSessionType DEF RunnerTypeOK
<1>3. [NewSession EXCEPT !.state = "running"] \in Session
  BY <1>2 DEF Session
<1>4. CASE id \in Known(Register(id))
  <2>1. Register(id)[id] = NewSession
    BY <1>1, <1>4, RegisterType DEF Known, Absent
  <2>2. sessions' = [Register(id) EXCEPT ![id].state = "running"] /\ SpawnRun(id)
    BY <1>4 DEF Start
  <2>3. sessions' = [Register(id) EXCEPT ![id] = [NewSession EXCEPT !.state = "running"]]
    BY <2>1, <2>2
  <2> QED
    BY <1>1, <1>3, <2>2, <2>3, RegisterType
<1>5. CASE id \notin Known(Register(id))
  BY <1>1, <1>5, RegisterType DEF Start
<1> QED
  BY <1>4, <1>5

(* The initial state and every step keep the types.                        *)
LEMMA InitRunnerTypeOK == RunnerInit => RunnerTypeOK /\ RunsHaveIds
<1> SUFFICES ASSUME RunnerInit PROVE RunnerTypeOK /\ RunsHaveIds
  OBVIOUS
<1>1. sessions \in [Ids -> Session]
  BY AbsentType DEF RunnerInit
<1>2. NoProcess \in Process
  BY RunnerAssumption DEF NoProcess, Process
<1>3. runs \in [Run -> Process] /\ RunsHaveIds
  BY <1>2 DEF RunnerInit, RunsHaveIds, NoProcess
<1>4. wire \in Seq(Emission) /\ Len(wire) <= 2
  BY EmptySeq DEF RunnerInit
<1>5. prompts \in [Ids -> 0 .. MaxPrompts] /\ clock \in 0 .. MaxClock /\ births \in 0 .. MaxBirths
  BY RunnerAssumption DEF RunnerInit
<1> QED
  BY <1>1, <1>3, <1>4, <1>5 DEF RunnerTypeOK, RunnerInit

LEMMA NextRunnerTypeOK ==
  ASSUME RunnerTypeOK, RunsHaveIds, [RunnerNext]_runnerVars
  PROVE  RunnerTypeOK' /\ RunsHaveIds'
<1> USE RunnerAssumption
<1>1. ASSUME NEW id \in Ids, Create(id) \/ Ensure(id) PROVE RunnerTypeOK' /\ RunsHaveIds'
  <2>1. sessions' \in [Ids -> Session] /\ births' \in 0 .. MaxBirths
    BY <1>1, RegisterType DEF Create, Ensure, RunnerTypeOK
  <2>2. wire' \in Seq(Emission) /\ Len(wire') <= 2 /\ used' \subseteq Ids
    BY <1>1, EmptyWire DEF Create, Ensure, RunnerTypeOK
  <2>3. UNCHANGED <<runs, clock, prompts, stranded>>
    BY <1>1 DEF Create, Ensure
  <2> QED
    BY <2>1, <2>2, <2>3 DEF RunnerTypeOK, RunsHaveIds
<1>2. ASSUME NEW id \in Ids, Prompt(id) \/ Start(id) PROVE RunnerTypeOK' /\ RunsHaveIds'
  <2>1. sessions' \in [Ids -> Session]
    BY <1>2, PromptType, StartType
  <2>2. wire' \in Seq(Emission) /\ Len(wire') <= 2
    <3>1. CASE Prompt(id)
      <4>1. wire' = Emit(id, PromptObject(id), Synthetic) /\ PromptObject(id) \in Session
        BY <3>1, PromptType
      <4>2. /\ Emit(id, PromptObject(id), Synthetic) \in Seq(Emission)
            /\ Len(Emit(id, PromptObject(id), Synthetic)) = 1
        BY <4>1, SyntheticType, EmitType
      <4>3. wire' \in Seq(Emission) /\ Len(wire') = 1
        BY <4>1, <4>2
      <4> QED
        BY <4>3
    <3>2. CASE Start(id)
      BY <3>2, EmptyWire DEF Start
    <3> QED
      BY <1>2, <3>1, <3>2
  <2>3. SpawnRun(id) \/ UNCHANGED <<runs, stranded>>
    BY <1>2, PromptType, StartType
  <2>4. runs' \in [Run -> Process] /\ stranded' \subseteq Ids
    BY <2>3, SpawnRunType DEF RunnerTypeOK
  <2>5. RunsHaveIds'
    <3>1. CASE UNCHANGED runs
      BY <3>1 DEF RunsHaveIds
    <3>2. CASE ~UNCHANGED runs
      BY <2>3, <3>2, SpawnRunType DEF RunsHaveIds
    <3> QED
      BY <3>1, <3>2
  <2>6. births' \in 0 .. MaxBirths
    <3>1. CASE Prompt(id)
      BY <3>1 DEF Prompt, RunnerTypeOK
    <3>2. CASE Start(id)
      BY <3>2 DEF Start, RunnerTypeOK
    <3> QED
      BY <1>2, <3>1, <3>2
  <2>7. prompts' \in [Ids -> 0 .. MaxPrompts] /\ used' \subseteq Ids /\ clock' = clock
    <3>1. /\ prompts[id] < MaxPrompts /\ prompts' = [prompts EXCEPT ![id] = @ + 1]
          /\ used' = used \cup {id} /\ clock' = clock
      BY <1>2 DEF Prompt, Start
    <3> QED
      BY <3>1 DEF RunnerTypeOK
  <2> QED
    BY <2>1, <2>2, <2>4, <2>5, <2>6, <2>7 DEF RunnerTypeOK
<1>3. ASSUME NEW p \in Run, ChildSteps(p) PROVE RunnerTypeOK' /\ RunsHaveIds'
  <2>1. StepContract(runs[p].id) /\ runs[p].id \in Ids
    BY <1>3, ChildContract
  <2>2. /\ runs' \in [Run -> Process]
        /\ \A q \in Run : q # p => runs'[q] = runs[q]
        /\ runs'[p].id = runs[p].id
        /\ UNCHANGED <<used, clock, births, prompts, stranded>>
    BY <1>3, ChildRuns
  <2> QED
    BY <2>1, <2>2 DEF StepContract, RunnerTypeOK, RunsHaveIds
<1>4. CASE ClockMoves
  <2>1. wire' \in Seq(Emission) /\ Len(wire') <= 2
    BY <1>4, EmptyWire DEF ClockMoves
  <2> QED
    BY <1>4, <2>1 DEF ClockMoves, RunnerTypeOK, RunsHaveIds
<1>5. CASE Restart
  <2>1. sessions' \in [Ids -> Session]
    BY <1>5, AbsentType DEF Restart
  <2>2. runs' \in [Run -> Process] /\ RunsHaveIds'
    BY <1>5 DEF Restart, RunnerTypeOK, RunsHaveIds, Open, Process
  <2>3. wire' \in Seq(Emission) /\ Len(wire') <= 2
    BY <1>5, EmptyWire DEF Restart
  <2>4. births' \in 0 .. MaxBirths /\ stranded' \subseteq Ids /\ UNCHANGED <<used, clock, prompts>>
    BY <1>5 DEF Restart
  <2> QED
    BY <2>1, <2>2, <2>3, <2>4 DEF RunnerTypeOK
<1>6. CASE UNCHANGED runnerVars
  BY <1>6 DEF runnerVars, RunnerTypeOK, RunsHaveIds
<1> QED
  BY <1>1, <1>2, <1>3, <1>4, <1>5, <1>6 DEF RunnerNext, Handler, ChildSteps

(* Every variable of the session store keeps its type, however the         *)
(* handlers, the children's output, the clock and restarts interleave      *)
(* (runner.ts).                                                            *)
THEOREM RunnerTypeCorrect == RunnerSpec => []RunnerTypeOK
<1>1. RunnerTypeOK /\ RunsHaveIds /\ [RunnerNext]_runnerVars => RunnerTypeOK' /\ RunsHaveIds'
  BY NextRunnerTypeOK
<1> QED
  BY <1>1, InitRunnerTypeOK, PTL DEF RunnerSpec

-----------------------------------------------------------------------------
(* What a request leaves in the Map: records as they were, none, fresh     *)
(* ones, or the one it set running.                                        *)
RequestSteps(id) == Create(id) \/ Ensure(id) \/ Prompt(id) \/ Start(id)

LEMMA RequestContract ==
  ASSUME RunnerTypeOK, NEW id \in Ids, RequestSteps(id)
  PROVE  /\ \A s \in Ids : \/ sessions'[s] = sessions[s]
                           \/ sessions'[s].state \in {"absent", "idle"}
                           \/ s = id /\ sessions'[s].state = "running" /\ SpawnRun(id)
         /\ SpawnRun(id) \/ UNCHANGED <<runs, stranded>>
<1>1. CASE Create(id) \/ Ensure(id)
  <2>1. births < MaxBirths /\ sessions' = Register(id) /\ UNCHANGED <<runs, stranded>>
    BY <1>1 DEF Create, Ensure
  <2>2. NewSession.state = "idle" /\ Absent.state = "absent"
    BY DEF NewSession, Absent
  <2> QED
    BY <2>1, <2>2, RegisterType
<1>2. CASE Prompt(id)
  <2>1. \A s \in Ids : s # id => PromptBase(id)[s] \in {sessions[s], Absent}
    BY <1>2, PromptType
  <2>2. Absent.state = "absent"
    BY DEF Absent
  <2>3. CASE /\ sessions' = [PromptBase(id) EXCEPT ![id] = PromptObject(id)]
             /\ SpawnRun(id)
    <3>1. PromptObject(id).state = "running" /\ PromptBase(id) \in [Ids -> Session]
      BY <1>2, PromptType
    <3> QED
      BY <2>1, <2>2, <2>3, <3>1
  <2>4. CASE /\ sessions' = PromptBase(id)
             /\ id \notin Known(PromptBase(id))
             /\ UNCHANGED <<runs, stranded>>
    BY <2>1, <2>2, <2>4 DEF Known
  <2> QED
    BY <1>2, <2>3, <2>4, PromptType
<1>3. CASE Start(id)
  <2>1. births < MaxBirths
    BY <1>3 DEF Start
  <2>2. /\ \A s \in Ids : s # id => Register(id)[s] \in {sessions[s], Absent}
        /\ Register(id)[id] \in {NewSession, Absent}
        /\ Register(id) \in [Ids -> Session]
        /\ NewSession \in Session
    BY <2>1, RegisterType, NewSessionType DEF RunnerTypeOK
  <2>3. NewSession.state = "idle" /\ Absent.state = "absent"
    BY DEF NewSession, Absent
  <2>4. [NewSession EXCEPT !.state = "running"].state = "running"
    BY <2>2 DEF Session
  <2>5. CASE /\ sessions' = [Register(id) EXCEPT ![id] = [NewSession EXCEPT !.state = "running"]]
             /\ SpawnRun(id)
    BY <2>2, <2>3, <2>4, <2>5
  <2>6. CASE sessions' = Register(id) /\ UNCHANGED <<runs, stranded>>
    BY <2>2, <2>3, <2>6
  <2> QED
    BY <1>3, <2>5, <2>6, StartType
<1> QED
  BY <1>1, <1>2, <1>3 DEF RequestSteps

-----------------------------------------------------------------------------
(* Only a callback settles a session, and the last thing it emits is the   *)
(* record it leaves.                                                       *)
LEMMA SettlingStep ==
  ASSUME RunnerTypeOK, RunsHaveIds, [RunnerNext]_runnerVars,
         NEW s \in Ids, sessions'[s].state \in Settled, sessions[s].state \notin Settled
  PROVE  \E i \in DOMAIN wire' : wire'[i].id = s /\ wire'[i].session = sessions'[s]
<1>1. ASSUME NEW id \in Ids, RequestSteps(id) PROVE FALSE
  BY <1>1, RequestContract DEF Settled
<1>2. ASSUME NEW p \in Run, ChildSteps(p)
      PROVE  \E i \in DOMAIN wire' : wire'[i].id = s /\ wire'[i].session = sessions'[s]
  <2>1. StepContract(runs[p].id) /\ runs[p].id \in Ids
    BY <1>2, ChildContract
  <2>2. s = runs[p].id /\ Len(wire') > 0 /\ wire'[Len(wire')].session = sessions'[s]
    BY <2>1 DEF StepContract
  <2>3. /\ Len(wire') \in 1 .. Len(wire') /\ DOMAIN wire' = 1 .. Len(wire')
        /\ wire'[Len(wire')].id = s
    BY <2>1, <2>2, LenProperties DEF StepContract
  <2> QED
    BY <2>2, <2>3
<1>3. CASE ClockMoves \/ UNCHANGED runnerVars
  BY <1>3 DEF ClockMoves, runnerVars
<1>4. CASE Restart
  BY <1>4 DEF Restart, Absent, Settled
<1> QED
  BY <1>1, <1>2, <1>3, <1>4 DEF RunnerNext, Handler, RequestSteps, ChildSteps

(* Every change to done or error is published in the step that makes it    *)
(* (runner.ts:185-240).                                                    *)
THEOREM SettlingPublished == RunnerSpec => SettlingIsPublished
<1> DEFINE Published ==
      \A s \in Ids :
        /\ sessions'[s].state \in Settled
        /\ sessions[s].state \notin Settled
        => \E i \in DOMAIN wire' : wire'[i].id = s /\ wire'[i].session = sessions'[s]
<1>1. RunnerTypeOK /\ RunsHaveIds /\ [RunnerNext]_runnerVars => [Published]_runnerVars
  BY SettlingStep
<1>2. RunnerTypeOK /\ RunsHaveIds /\ [RunnerNext]_runnerVars => RunnerTypeOK' /\ RunsHaveIds'
  BY NextRunnerTypeOK
<1> QED
  BY <1>1, <1>2, InitRunnerTypeOK, PTL DEF RunnerSpec, SettlingIsPublished

-----------------------------------------------------------------------------
(* What a callback may make of a session's outcome, when the verdict of    *)
(* its child goes from `before' to `now': an error is explained, success   *)
(* needs a verdict of success, or it was there before and the verdict is   *)
(* what it was, and nothing but a request sets a session running.          *)
OutcomeContract(old, new, before, now) ==
  /\ (old.state = "error" => old.error # "none") => (new.state = "error" => new.error # "none")
  /\ new.state = "done" => now = "success" \/ (old.state = "done" /\ now = before)
  /\ new.state = "running" => old.state = "running"

LEMMA DispatchOutcome ==
  ASSUME NEW ss \in [Ids -> Session], NEW id \in Ids, NEW f \in Frame, f.kind \in LineKinds,
         NEW before
  PROVE  OutcomeContract(ss[id], Dispatch(ss, id, f).sessions[id],
                         before, VerdictOf(f.kind, before))
<1>1. CASE id \notin Known(ss)
  BY <1>1 DEF Dispatch, Fail, ApplyFrame, NoEffect, OutcomeContract, Known
<1>2. CASE id \in Known(ss) /\ f.kind = "garbage"
  <2>1. Dispatch(ss, id, f).sessions[id] = [ss[id] EXCEPT !.state = "error", !.error = "detail"]
    BY <1>2 DEF Dispatch, Fail
  <2> QED
    BY <2>1 DEF OutcomeContract, Session
<1>3. CASE id \in Known(ss) /\ f.kind # "garbage"
  <2>1. Dispatch(ss, id, f).sessions[id] = After(ss[id], f)
    BY <1>3 DEF Dispatch, ApplyFrame
  <2>2. OutcomeContract(ss[id], After(ss[id], f), before, VerdictOf(f.kind, before))
    BY <1>3 DEF OutcomeContract, After, Session, VerdictOf, LineKinds, ResultKinds, EventKinds
  <2> QED
    BY <2>1, <2>2
<1> QED
  BY <1>1, <1>2, <1>3

LEMMA FailOutcome ==
  ASSUME NEW ss \in [Ids -> Session], NEW id \in Ids, NEW before
  PROVE  OutcomeContract(ss[id], Fail(ss, id).sessions[id], before, before)
<1>1. CASE id \notin Known(ss)
  BY <1>1 DEF Fail, NoEffect, OutcomeContract
<1>2. CASE id \in Known(ss)
  <2>1. Fail(ss, id).sessions[id] = [ss[id] EXCEPT !.state = "error", !.error = "detail"]
    BY <1>2 DEF Fail
  <2> QED
    BY <2>1 DEF OutcomeContract, Session
<1> QED
  BY <1>1, <1>2

(* The close handler leaves no session running; success is then the        *)
(* child's, if it was not the session's before.                            *)
LEMMA FinishOutcome ==
  ASSUME NEW ss \in [Ids -> Session], NEW id \in Ids,
         NEW clean \in BOOLEAN, NEW detail \in BOOLEAN
  PROVE  LET old == ss[id]
             new == Finish(ss, id, clean, detail).sessions[id]
         IN /\ (old.state = "error" => old.error # "none")
                 => (new.state = "error" => new.error # "none")
            /\ new.state = "done" => clean \/ old.state = "done"
            /\ new.state # "running"
BY DEF Finish, NoEffect, Session

(* The same of the steps of a child.                                       *)
LEMMA ChildOutcome ==
  ASSUME RunnerTypeOK, RunsHaveIds, NEW p \in Run, ChildSteps(p)
  PROVE  LET old == sessions[runs[p].id]
             new == sessions'[runs[p].id]
         IN /\ (old.state = "error" => old.error # "none")
                 => (new.state = "error" => new.error # "none")
            /\ new.state = "done" => \/ runs'[p].verdict = "success"
                                     \/ runs'[p].phase = "exited0"
                                     \/ old.state = "done" /\ runs'[p].verdict = runs[p].verdict
            /\ new.state = "running" => old.state = "running" /\ runs'[p].phase \in Open
<1>1. runs[p].id \in Ids /\ sessions \in [Ids -> Session] /\ runs \in [Run -> Process]
  BY ChildContract DEF RunnerTypeOK
<1> DEFINE v == runs[p].verdict
<1>0. ASSUME NEW kind \in LineKinds, NEW phase
      PROVE  /\ Printed(p, kind, phase).verdict = VerdictOf(kind, v)
             /\ Printed(p, kind, phase).phase = phase
  BY <1>1 DEF Printed, Process
<1>2. ASSUME NEW kind \in LineKinds, Stdout(p, kind)
      PROVE  /\ OutcomeContract(sessions[runs[p].id], sessions'[runs[p].id],
                                v, runs'[p].verdict)
             /\ runs'[p].phase = "live"
  <2>1. FrameOf(p, kind) \in Frame /\ FrameOf(p, kind).kind = kind
    BY <1>2, FrameOfType DEF Stdout, FrameOf
  <2>2. /\ sessions' = Dispatch(sessions, runs[p].id, FrameOf(p, kind)).sessions
        /\ runs' = [runs EXCEPT ![p] = Printed(p, kind, "live")]
    BY <1>2 DEF Stdout
  <2>3. OutcomeContract(sessions[runs[p].id],
                        Dispatch(sessions, runs[p].id, FrameOf(p, kind)).sessions[runs[p].id],
                        v, VerdictOf(kind, v))
    BY <1>1, <2>1, DispatchOutcome
  <2>4. runs'[p].verdict = VerdictOf(kind, v) /\ runs'[p].phase = "live"
    BY <1>0, <1>1, <2>2
  <2> QED
    BY <2>2, <2>3, <2>4
<1>3. CASE SpawnError(p)
  <2>1. /\ sessions' = Fail(sessions, runs[p].id).sessions
        /\ runs'[p].phase = "failed" /\ runs'[p].verdict = v
    BY <1>1, <1>3 DEF SpawnError, Process
  <2> QED
    BY <1>1, <2>1, FailOutcome DEF OutcomeContract, Open
<1>4. ASSUME NEW clean \in BOOLEAN, NEW detail \in BOOLEAN, Close(p, clean, detail)
      PROVE  /\ sessions' = Finish(sessions, runs[p].id, clean, detail).sessions
             /\ clean => runs'[p].phase = "exited0"
             /\ runs'[p].verdict = v
  BY <1>1, <1>4 DEF Close, Exit, Process
<1>5. ASSUME NEW clean \in BOOLEAN, NEW detail \in BOOLEAN, NEW kind \in LineKinds,
             CloseTrailing(p, kind, clean, detail)
      PROVE  LET first == Dispatch(sessions, runs[p].id, FrameOf(p, kind))
             IN /\ sessions' = Finish(first.sessions, runs[p].id, clean, detail).sessions
                /\ clean => runs'[p].phase = "exited0"
                /\ first.sessions \in [Ids -> Session]
                /\ OutcomeContract(sessions[runs[p].id], first.sessions[runs[p].id],
                                   v, runs'[p].verdict)
  <2>1. FrameOf(p, kind) \in Frame /\ FrameOf(p, kind).kind = kind
    BY <1>5, FrameOfType DEF CloseTrailing, FrameOf
  <2>2. runs' = [runs EXCEPT ![p] = Printed(p, kind, Exit(clean))]
    BY <1>5 DEF CloseTrailing
  <2>3. sessions' = Finish(Dispatch(sessions, runs[p].id, FrameOf(p, kind)).sessions,
                           runs[p].id, clean, detail).sessions
    BY <1>5 DEF CloseTrailing
  <2>4. /\ clean => runs'[p].phase = "exited0"
        /\ runs'[p].verdict = VerdictOf(kind, v)
    BY <1>0, <1>1, <2>2 DEF Exit
  <2>5. CallbackContract(sessions, runs[p].id,
                         Dispatch(sessions, runs[p].id, FrameOf(p, kind)))
    BY <1>1, <2>1, DispatchContract
  <2> QED
    BY <1>1, <2>1, <2>3, <2>4, <2>5, DispatchOutcome DEF CallbackContract
<1>6. CASE \E kind \in LineKinds : Stdout(p, kind)
  BY <1>2, <1>6 DEF OutcomeContract, Open
<1>7. ASSUME NEW clean \in BOOLEAN, NEW detail \in BOOLEAN, Close(p, clean, detail)
      PROVE  LET old == sessions[runs[p].id]
                 new == sessions'[runs[p].id]
             IN /\ (old.state = "error" => old.error # "none")
                     => (new.state = "error" => new.error # "none")
                /\ new.state = "done" => \/ runs'[p].phase = "exited0"
                                         \/ old.state = "done" /\ runs'[p].verdict = v
                /\ new.state # "running"
  BY <1>1, <1>4, <1>7, FinishOutcome
<1>8. ASSUME NEW clean \in BOOLEAN, NEW detail \in BOOLEAN, NEW kind \in LineKinds,
             CloseTrailing(p, kind, clean, detail)
      PROVE  LET old == sessions[runs[p].id]
                 new == sessions'[runs[p].id]
             IN /\ (old.state = "error" => old.error # "none")
                     => (new.state = "error" => new.error # "none")
                /\ new.state = "done" => \/ runs'[p].verdict = "success"
                                         \/ runs'[p].phase = "exited0"
                                         \/ old.state = "done" /\ runs'[p].verdict = v
                /\ new.state # "running"
  <2> DEFINE ss == Dispatch(sessions, runs[p].id, FrameOf(p, kind)).sessions
  <2>1. /\ sessions' = Finish(ss, runs[p].id, clean, detail).sessions
        /\ clean => runs'[p].phase = "exited0"
        /\ ss \in [Ids -> Session]
        /\ OutcomeContract(sessions[runs[p].id], ss[runs[p].id], v, runs'[p].verdict)
    BY <1>5, <1>8
  <2> HIDE DEF ss
  <2> QED
    BY <1>1, <2>1, FinishOutcome DEF OutcomeContract
<1>9. CASE Closes(p)
  BY <1>7, <1>8, <1>9 DEF Closes
<1> QED
  BY <1>3, <1>6, <1>9 DEF ChildSteps, OutcomeContract, Open

-----------------------------------------------------------------------------
(* A child that was not spawned has no session and no verdict.             *)
UnusedAreBlank == \A p \in Run : runs[p].phase = "unused" => runs[p] = NoProcess

LEMMA NextUnusedAreBlank ==
  ASSUME RunnerTypeOK, RunsHaveIds, UnusedAreBlank, [RunnerNext]_runnerVars
  PROVE  UnusedAreBlank'
<1>1. CASE \E id \in Ids : RequestSteps(id)
  BY <1>1, RequestContract, SpawnRunType DEF UnusedAreBlank
<1>2. CASE \E p \in Run : ChildSteps(p)
  BY <1>2, ChildRuns DEF UnusedAreBlank
<1>3. CASE ClockMoves \/ UNCHANGED runnerVars
  BY <1>3 DEF ClockMoves, runnerVars, UnusedAreBlank
<1>4. CASE Restart
  BY <1>4 DEF Restart, UnusedAreBlank, RunnerTypeOK, Process, Open
<1> QED
  BY <1>1, <1>2, <1>3, <1>4 DEF RunnerNext, Handler, RequestSteps, ChildSteps

(* The inductive invariant of the outcomes.                                *)
OutcomeInv ==
  /\ RunnerTypeOK
  /\ RunsHaveIds
  /\ UnusedAreBlank
  /\ ErrorExplained
  /\ DoneHasEvidence
  /\ RunningHasProcess

LEMMA InitOutcomeInv == RunnerInit => OutcomeInv
<1> SUFFICES ASSUME RunnerInit PROVE OutcomeInv
  OBVIOUS
<1>1. \A s \in Ids : sessions[s].state = "absent"
  BY DEF RunnerInit, Absent
<1> QED
  BY <1>1, InitRunnerTypeOK
  DEF OutcomeInv, ErrorExplained, DoneHasEvidence, RunningHasProcess, UnusedAreBlank, RunnerInit

LEMMA RequestKeepsOutcomes ==
  ASSUME OutcomeInv, NEW id \in Ids, RequestSteps(id)
  PROVE  ErrorExplained' /\ DoneHasEvidence' /\ RunningHasProcess'
<1>1. /\ \A s \in Ids : \/ sessions'[s] = sessions[s]
                        \/ sessions'[s].state \in {"absent", "idle"}
                        \/ s = id /\ sessions'[s].state = "running" /\ SpawnRun(id)
      /\ SpawnRun(id) \/ UNCHANGED <<runs, stranded>>
  BY RequestContract DEF OutcomeInv
<1>2. \A q \in Run : runs[q].phase # "unused" => runs'[q] = runs[q]
  BY <1>1, SpawnRunType DEF OutcomeInv
<1>3. \A s \in Ids \ {id} : s \in stranded' <=> s \in stranded
  BY <1>1, SpawnRunType DEF OutcomeInv
<1>4. ErrorExplained'
  BY <1>1 DEF OutcomeInv, ErrorExplained
<1>5. DoneHasEvidence'
  <2> SUFFICES ASSUME NEW s \in Ids, sessions'[s].state = "done"
               PROVE  \E p \in Run : /\ runs'[p].id = s
                                     /\ runs'[p].verdict = "success" \/ runs'[p].phase = "exited0"
    BY DEF DoneHasEvidence
  <2>1. sessions'[s] = sessions[s]
    BY <1>1
  <2>2. PICK p \in Run : runs[p].id = s /\ (runs[p].verdict = "success" \/ runs[p].phase = "exited0")
    BY <2>1 DEF OutcomeInv, DoneHasEvidence
  <2>3. runs[p].phase # "unused"
    BY <2>2, RunnerAssumption DEF OutcomeInv, UnusedAreBlank, NoProcess
  <2> QED
    BY <1>2, <2>2, <2>3
<1>6. RunningHasProcess'
  <2> SUFFICES ASSUME NEW s \in Ids, sessions'[s].state = "running"
               PROVE  \/ s \in stranded'
                      \/ \E p \in Run : runs'[p].id = s /\ runs'[p].phase \in Open
    BY DEF RunningHasProcess
  <2>1. CASE SpawnRun(id) /\ s = id
    BY <2>1, SpawnRunType DEF OutcomeInv, Open
  <2>2. CASE ~(SpawnRun(id) /\ s = id)
    <3>1. sessions'[s] = sessions[s]
      BY <1>1, <2>2
    <3>2. s \in stranded' <=> s \in stranded
      BY <1>1, <1>3, <2>2
    <3>3. CASE s \in stranded
      BY <3>2, <3>3
    <3>4. CASE s \notin stranded
      <4>1. PICK p \in Run : runs[p].id = s /\ runs[p].phase \in Open
        BY <3>1, <3>4 DEF OutcomeInv, RunningHasProcess
      <4> QED
        BY <1>2, <4>1 DEF Open
    <3> QED
      BY <3>3, <3>4
  <2> QED
    BY <2>1, <2>2
<1> QED
  BY <1>4, <1>5, <1>6

LEMMA ChildKeepsOutcomes ==
  ASSUME OutcomeInv, NEW p \in Run, ChildSteps(p)
  PROVE  ErrorExplained' /\ DoneHasEvidence' /\ RunningHasProcess'
<1> DEFINE id == runs[p].id
<1>1. id \in Ids /\ \A s \in Ids : s # id => sessions'[s] = sessions[s]
  BY ChildContract DEF OutcomeInv, StepContract
<1>2. /\ \A q \in Run : q # p => runs'[q] = runs[q]
      /\ runs'[p].id = id
      /\ runs[p].phase \in Open
      /\ UNCHANGED stranded
  BY ChildRuns DEF OutcomeInv
<1>3. /\ (sessions[id].state = "error" => sessions[id].error # "none")
             => (sessions'[id].state = "error" => sessions'[id].error # "none")
      /\ sessions'[id].state = "done" =>
             \/ runs'[p].verdict = "success"
             \/ runs'[p].phase = "exited0"
             \/ sessions[id].state = "done" /\ runs'[p].verdict = runs[p].verdict
      /\ sessions'[id].state = "running" =>
             sessions[id].state = "running" /\ runs'[p].phase \in Open
  BY ChildOutcome DEF OutcomeInv
<1> HIDE DEF id
<1>4. ErrorExplained'
  BY <1>1, <1>3 DEF OutcomeInv, ErrorExplained
<1>5. \A q \in Run : runs[q].phase = "exited0" => runs'[q] = runs[q]
  BY <1>2 DEF Open
<1>6. DoneHasEvidence'
  <2> SUFFICES ASSUME NEW s \in Ids, sessions'[s].state = "done"
               PROVE  \E q \in Run : /\ runs'[q].id = s
                                     /\ runs'[q].verdict = "success" \/ runs'[q].phase = "exited0"
    BY DEF DoneHasEvidence
  <2> DEFINE settles == s = id /\ (runs'[p].verdict = "success" \/ runs'[p].phase = "exited0")
  <2>1. CASE settles
    BY <1>2, <2>1
  <2>2. CASE ~settles
    <3>1. sessions[s].state = "done" /\ (s = id => runs'[p].verdict = runs[p].verdict)
      BY <1>1, <1>3, <2>2
    <3> HIDE DEF settles
    <3>2. PICK q \in Run : /\ runs[q].id = s
                           /\ runs[q].verdict = "success" \/ runs[q].phase = "exited0"
      BY <3>1 DEF OutcomeInv, DoneHasEvidence
    <3>3. CASE q # p
      <4>1. runs'[q] = runs[q]
        BY <1>2, <3>3
      <4> QED
        BY <3>2, <4>1
    <3>4. CASE q = p
      BY <1>2, <3>1, <3>2, <3>4 DEF Open, id
    <3> QED
      BY <3>3, <3>4
  <2> QED
    BY <2>1, <2>2
<1>7. RunningHasProcess'
  <2> SUFFICES ASSUME NEW s \in Ids, sessions'[s].state = "running", s \notin stranded
               PROVE  \E q \in Run : runs'[q].id = s /\ runs'[q].phase \in Open
    BY <1>2 DEF RunningHasProcess
  <2>1. sessions[s].state = "running"
    BY <1>1, <1>3
  <2>2. PICK q \in Run : runs[q].id = s /\ runs[q].phase \in Open
    BY <2>1 DEF OutcomeInv, RunningHasProcess
  <2>3. CASE q = p
    BY <1>2, <1>3, <2>2, <2>3 DEF id
  <2>4. CASE q # p
    BY <1>2, <2>2, <2>4
  <2> QED
    BY <2>3, <2>4
<1> QED
  BY <1>4, <1>6, <1>7

LEMMA NextOutcomeInv ==
  ASSUME OutcomeInv, [RunnerNext]_runnerVars PROVE OutcomeInv'
<1>1. RunnerTypeOK' /\ RunsHaveIds' /\ UnusedAreBlank'
  BY NextRunnerTypeOK, NextUnusedAreBlank DEF OutcomeInv
<1>2. CASE \E id \in Ids : RequestSteps(id)
  BY <1>1, <1>2, RequestKeepsOutcomes DEF OutcomeInv
<1>3. CASE \E p \in Run : ChildSteps(p)
  BY <1>1, <1>3, ChildKeepsOutcomes DEF OutcomeInv
<1>4. CASE ClockMoves \/ UNCHANGED runnerVars
  BY <1>1, <1>4
  DEF ClockMoves, runnerVars, OutcomeInv, ErrorExplained, DoneHasEvidence, RunningHasProcess
<1>5. CASE Restart
  <2>1. \A s \in Ids : sessions'[s].state = "absent"
    BY <1>5 DEF Restart, Absent
  <2> QED
    BY <1>1, <2>1 DEF OutcomeInv, ErrorExplained, DoneHasEvidence, RunningHasProcess
<1> QED
  BY <1>2, <1>3, <1>4, <1>5 DEF RunnerNext, Handler, RequestSteps, ChildSteps

(* Every reachable state satisfies the invariant of the outcomes.          *)
THEOREM OutcomeInvariant == RunnerSpec => []OutcomeInv
<1>1. OutcomeInv /\ [RunnerNext]_runnerVars => OutcomeInv'
  BY NextOutcomeInv
<1> QED
  BY <1>1, InitOutcomeInv, PTL DEF RunnerSpec

(* A failed session says why, whatever order frames, spawn errors and exit *)
(* codes come in (runner.ts:185-228).                                      *)
THEOREM ErrorsExplained == RunnerSpec => []ErrorExplained
<1>1. OutcomeInv => ErrorExplained
  BY DEF OutcomeInv
<1> QED
  BY <1>1, OutcomeInvariant, PTL

(* A successful session has a run that said so, or exited cleanly, even    *)
(* when runs of it overlap (runner.ts:185-220).                            *)
THEOREM SuccessHasEvidence == RunnerSpec => []DoneHasEvidence
<1>1. OutcomeInv => DoneHasEvidence
  BY DEF OutcomeInv
<1> QED
  BY <1>1, OutcomeInvariant, PTL

(* Either way a settled session is explained.                              *)
THEOREM OutcomesExplained == RunnerSpec => []OutcomeExplained
  BY ErrorsExplained, SuccessHasEvidence, PTL DEF OutcomeExplained

(* A running session has a child whose close event will settle it, unless  *)
(* its spawn() threw (runner.ts:107-201).                                  *)
THEOREM RunningIsSupervised == RunnerSpec => []RunningHasProcess
<1>1. OutcomeInv => RunningHasProcess
  BY DEF OutcomeInv
<1> QED
  BY <1>1, OutcomeInvariant, PTL

-----------------------------------------------------------------------------
(* The inductive invariant of NoStaleOutcome: children fill the table in   *)
(* order, and a child that is open is the latest of its session or a rival *)
(* of every later one.                                                     *)
InOrder ==
  \A p, q \in Run : p < q /\ runs[q].phase # "unused" => runs[p].phase # "unused"

OpenAreRivals ==
  \A p, q \in Run :
    runs[q].phase \in Open /\ p > q /\ runs[p].id = runs[q].id => q \in runs[p].rivals

RivalsWereSpawned == \A p \in Run : \A q \in runs[p].rivals : runs[q].phase # "unused"

(* A run that has settled its session, or tried to.                        *)
HadItsSay(q) == runs[q].verdict # "none" \/ runs[q].phase \notin {"spawning", "live"}

LatestInv ==
  /\ RunnerTypeOK
  /\ RunsHaveIds
  /\ UnusedAreBlank
  /\ InOrder
  /\ RivalsWereSpawned
  /\ OpenAreRivals
  /\ NoStaleOutcome

(* A request leaves a record as it was, or without an outcome.             *)
LEMMA RequestClears ==
  ASSUME RunnerTypeOK, NEW id \in Ids, RequestSteps(id)
  PROVE  \A s \in Ids : \/ sessions'[s] = sessions[s]
                        \/ sessions'[s].state \notin Settled /\ sessions'[s].final = 0
<1>1. /\ Absent.state \notin Settled /\ Absent.final = 0
      /\ NewSession.state \notin Settled /\ NewSession.final = 0
  BY DEF Absent, NewSession, Settled
<1>2. CASE Create(id) \/ Ensure(id)
  BY <1>1, <1>2, RegisterType DEF Create, Ensure
<1>3. CASE Prompt(id)
  <2>1. /\ \A s \in Ids : s # id => PromptBase(id)[s] \in {sessions[s], Absent}
        /\ PromptBase(id) \in [Ids -> Session]
    BY <1>3, PromptType
  <2>2. PromptObject(id).final = 0 /\ PromptObject(id).state \notin Settled
    <3>1. CASE id \in Known(sessions)
      BY <3>1 DEF PromptObject, Prompted, RunnerTypeOK, Session, Settled
    <3>2. CASE id \notin Known(sessions)
      BY <3>2 DEF PromptObject, Prompted, NewSession, Settled
    <3> QED
      BY <3>1, <3>2
  <2>3. CASE sessions' = [PromptBase(id) EXCEPT ![id] = PromptObject(id)]
    BY <1>1, <2>1, <2>2, <2>3
  <2>4. CASE sessions' = PromptBase(id) /\ id \notin Known(PromptBase(id))
    <3>1. id \notin Known(sessions)
      BY <2>4 DEF PromptBase
    <3>2. births < MaxBirths /\ PromptBase(id) = Register(id)
      BY <1>3, <3>1 DEF Prompt, PromptBase
    <3> QED
      BY <1>1, <2>4, <3>2, RegisterType
  <2> QED
    BY <1>3, <2>3, <2>4, PromptType
<1>4. CASE Start(id)
  <2>1. births < MaxBirths
    BY <1>4 DEF Start
  <2>2. NewSession \in Session
    BY <2>1, NewSessionType DEF RunnerTypeOK
  <2>3. /\ [NewSession EXCEPT !.state = "running"].state \notin Settled
        /\ [NewSession EXCEPT !.state = "running"].final = 0
    BY <1>1, <2>2 DEF Session, Settled
  <2> QED
    BY <1>1, <1>4, <2>1, <2>3, RegisterType, StartType
<1> QED
  BY <1>2, <1>3, <1>4 DEF RequestSteps

LEMMA RequestKeepsLatest ==
  ASSUME LatestInv, NEW id \in Ids, RequestSteps(id)
  PROVE  InOrder' /\ RivalsWereSpawned' /\ OpenAreRivals' /\ NoStaleOutcome'
<1> USE DEF LatestInv
<1>1. /\ runs \in [Run -> Process] /\ Run \subseteq Int
      /\ \A p \in Run : runs[p].phase # "unused" => runs[p].id \in Ids
      /\ None \notin Ids
  BY RunnerAssumption DEF RunnerTypeOK, RunsHaveIds, Run
<1>2. \A s \in Ids : \/ sessions'[s] = sessions[s]
                     \/ sessions'[s].state \notin Settled /\ sessions'[s].final = 0
  BY RequestClears
<1>3. CASE UNCHANGED runs
  BY <1>1, <1>2, <1>3 DEF InOrder, RivalsWereSpawned, OpenAreRivals, NoStaleOutcome
<1>4. CASE ~UNCHANGED runs
  <2>1. SpawnRun(id) /\ (Prompt(id) \/ Start(id))
    BY <1>4, PromptType, StartType DEF RequestSteps, Create, Ensure
  <2>2. PICK q \in Run :
          /\ runs[q].phase = "unused"
          /\ \A p \in 1 .. (q - 1) : runs[p].phase # "unused"
          /\ runs' = [runs EXCEPT ![q] =
                        [id |-> id, phase |-> "spawning", verdict |-> "none", deltas |-> 0,
                         rivals |-> {r \in Run : runs[r].id = id /\ runs[r].phase \in Open}]]
    BY <1>4, <2>1 DEF SpawnRun
  <2>3. /\ runs'[q].id = id /\ runs'[q].phase = "spawning"
        /\ runs'[q].rivals = {r \in Run : runs[r].id = id /\ runs[r].phase \in Open}
        /\ \A p \in Run : p # q => runs'[p] = runs[p]
    BY <1>1, <2>2
  <2>4. /\ \A p \in Run : p >= q => runs[p].phase = "unused" /\ runs[p].id = None
        /\ \A p \in Run : p < q => runs[p].phase # "unused"
    BY <1>1, <2>2 DEF InOrder, UnusedAreBlank, NoProcess, Run
  <2>5. InOrder'
    BY <1>1, <2>3, <2>4 DEF InOrder
  <2>6. OpenAreRivals'
    <3> SUFFICES ASSUME NEW p \in Run, NEW r \in Run,
                        runs'[r].phase \in Open, p > r, runs'[p].id = runs'[r].id
                 PROVE  r \in runs'[p].rivals
      BY DEF OpenAreRivals
    <3>1. CASE p = q
      BY <1>1, <2>3, <3>1
    <3>2. CASE p # q /\ r = q
      BY <1>1, <2>3, <2>4, <3>2
    <3>3. CASE p # q /\ r # q
      BY <2>3, <3>3 DEF OpenAreRivals
    <3> QED
      BY <3>1, <3>2, <3>3
  <2>7. NoStaleOutcome'
    <3> SUFFICES ASSUME NEW p \in Run, runs'[p].phase # "unused",
                        \A r \in Run : r > p => runs'[r].id # runs'[p].id
                 PROVE  LET s      == sessions'[runs'[p].id]
                            atHand == {p} \cup runs'[p].rivals
                        IN /\ s.state \in Settled =>
                                \E r \in atHand : \/ runs'[r].verdict # "none"
                                                  \/ runs'[r].phase \notin {"spawning", "live"}
                           /\ s.final \in {0} \cup atHand
      BY DEF NoStaleOutcome
    <3>1. CASE p = q
      <4>1. sessions'[id].state \notin Settled /\ sessions'[id].final = 0
        <5>1. CASE Prompt(id)
          <6>1. sessions'[id] = PromptObject(id)
            BY <1>4, <5>1, PromptType
          <6>2. CASE id \in Known(sessions)
            BY <6>1, <6>2 DEF PromptObject, Prompted, RunnerTypeOK, Session, Settled
          <6>3. CASE id \notin Known(sessions)
            BY <6>1, <6>3 DEF PromptObject, Prompted, NewSession, Settled
          <6> QED
            BY <6>2, <6>3
        <5>2. CASE Start(id)
          <6>1. /\ sessions'[id] = [NewSession EXCEPT !.state = "running"]
                /\ [NewSession EXCEPT !.state = "running"] \in Session
            BY <1>4, <5>2, StartType
          <6> QED
            BY <6>1 DEF NewSession, Settled
        <5> QED
          BY <2>1, <5>1, <5>2
      <4> QED
        BY <2>3, <3>1, <4>1
    <3>2. CASE p # q
      <4>1. runs'[p] = runs[p] /\ runs[p].phase # "unused" /\ runs[p].id \in Ids
        BY <1>1, <2>3, <3>2
      <4>2. \A r \in Run : r > p => runs[r].id # runs[p].id
        BY <1>1, <2>3, <2>4, <4>1
      <4>3. LET s      == sessions[runs[p].id]
                atHand == {p} \cup runs[p].rivals
            IN /\ s.state \in Settled =>
                    \E r \in atHand : \/ runs[r].verdict # "none"
                                      \/ runs[r].phase \notin {"spawning", "live"}
               /\ s.final \in {0} \cup atHand
        BY <4>1, <4>2 DEF NoStaleOutcome
      <4>4. q \notin {p} \cup runs[p].rivals
        BY <2>2, <3>2, <4>1 DEF RivalsWereSpawned
      <4>5. \A r \in {p} \cup runs[p].rivals : runs'[r] = runs[r]
        BY <1>1, <2>3, <4>4 DEF RunnerTypeOK, Process
      <4> QED
        BY <1>2, <4>1, <4>3, <4>5
    <3> QED
      BY <3>1, <3>2
  <2>8. RivalsWereSpawned'
    <3>1. \A r \in Run : runs[r].phase # "unused" => runs'[r].phase # "unused"
      BY <2>3
    <3>2. \A r \in runs'[q].rivals : runs[r].phase # "unused" /\ r \in Run
      BY <2>3 DEF Open
    <3>3. \A p \in Run : \A r \in runs[p].rivals : r \in Run /\ runs[r].phase # "unused"
      BY <1>1 DEF RivalsWereSpawned, Process
    <3> QED
      BY <2>3, <3>1, <3>2, <3>3 DEF RivalsWereSpawned
  <2> QED
    BY <2>5, <2>6, <2>7, <2>8
<1> QED
  BY <1>3, <1>4

(* A child settles its session with a verdict, or ends; the text it leaves *)
(* is its own, and what it has said it has said.                           *)
LEMMA ChildLatest ==
  ASSUME RunnerTypeOK, RunsHaveIds, NEW p \in Run, ChildSteps(p)
  PROVE  LET old == sessions[runs[p].id]
             new == sessions'[runs[p].id]
         IN /\ new.final \in {0, old.final, p}
            /\ new.state \in Settled => old.state \in Settled \/ HadItsSay(p)'
            /\ HadItsSay(p) => HadItsSay(p)'
            /\ runs'[p].rivals = runs[p].rivals
<1> DEFINE id == runs[p].id
<1>1. id \in Ids /\ sessions \in [Ids -> Session] /\ runs \in [Run -> Process]
  BY ChildContract DEF RunnerTypeOK
<1>2. ASSUME NEW ss \in [Ids -> Session], NEW clean \in BOOLEAN, NEW detail \in BOOLEAN
      PROVE  Finish(ss, id, clean, detail).sessions[id].final = ss[id].final
  BY <1>1 DEF Finish, NoEffect, Session
<1>3. ASSUME NEW kind \in LineKinds, MayPrint(p, kind)
      PROVE  LET e == Dispatch(sessions, id, FrameOf(p, kind))
             IN /\ e.sessions \in [Ids -> Session]
                /\ e.sessions[id].final \in {0, sessions[id].final, p}
                /\ e.sessions[id].state \in Settled =>
                     kind \notin EventKinds \/ sessions[id].state \in Settled
  <2>1. /\ FrameOf(p, kind) \in Frame /\ FrameOf(p, kind).run = p
        /\ FrameOf(p, kind).kind = kind
    BY <1>3, FrameOfType DEF FrameOf
  <2>2. CallbackContract(sessions, id, Dispatch(sessions, id, FrameOf(p, kind)))
    BY <1>1, <2>1, DispatchContract
  <2>3. CASE id \notin Known(sessions)
    BY <1>1, <2>3 DEF Dispatch, Fail, ApplyFrame, NoEffect
  <2>4. CASE id \in Known(sessions) /\ kind = "garbage"
    <3>1. Dispatch(sessions, id, FrameOf(p, kind)).sessions[id]
            = [sessions[id] EXCEPT !.state = "error", !.error = "detail"]
      BY <1>1, <2>1, <2>4 DEF Dispatch, Fail
    <3> QED
      BY <1>1, <2>2, <2>4, <3>1 DEF CallbackContract, Session, EventKinds
  <2>5. CASE id \in Known(sessions) /\ kind # "garbage"
    <3>1. Dispatch(sessions, id, FrameOf(p, kind)).sessions[id]
            = After(sessions[id], FrameOf(p, kind))
      BY <1>1, <2>1, <2>5 DEF Dispatch, ApplyFrame
    <3>2. LET after == After(sessions[id], FrameOf(p, kind))
          IN /\ after.final \in {0, sessions[id].final, p}
             /\ after.state \in Settled => kind \notin EventKinds \/ sessions[id].state \in Settled
      BY <1>1, <2>1, <2>5 DEF After, Session, ResultKinds, LineKinds, EventKinds
    <3> QED
      BY <2>2, <3>1, <3>2 DEF CallbackContract
  <2> QED
    BY <2>3, <2>4, <2>5
<1>4. ASSUME NEW kind \in LineKinds, NEW phase
      PROVE  /\ runs[p].verdict # "none" \/ kind \notin EventKinds
                  => Printed(p, kind, phase).verdict # "none"
             /\ Printed(p, kind, phase).phase = phase
             /\ Printed(p, kind, phase).rivals = runs[p].rivals
  BY <1>1 DEF Printed, Process, VerdictOf, LineKinds, EventKinds, ResultKinds
<1>5. ASSUME NEW kind \in LineKinds, Stdout(p, kind)
      PROVE  /\ sessions'[id].final \in {0, sessions[id].final, p}
             /\ sessions'[id].state \in Settled => HadItsSay(p)' \/ sessions[id].state \in Settled
             /\ HadItsSay(p) => HadItsSay(p)'
             /\ runs'[p].rivals = runs[p].rivals
  <2>1. /\ sessions' = Dispatch(sessions, id, FrameOf(p, kind)).sessions
        /\ runs' = [runs EXCEPT ![p] = Printed(p, kind, "live")]
        /\ MayPrint(p, kind) /\ runs[p].phase \in {"spawning", "live"}
    BY <1>5 DEF Stdout
  <2>2. /\ runs[p].verdict # "none" \/ kind \notin EventKinds => runs'[p].verdict # "none"
        /\ runs'[p].rivals = runs[p].rivals
    BY <1>1, <1>4, <2>1
  <2> QED
    BY <1>3, <2>1, <2>2 DEF HadItsSay
<1>6. CASE SpawnError(p)
  <2>1. sessions' = Fail(sessions, id).sessions /\ runs' = [runs EXCEPT ![p].phase = "failed"]
    BY <1>6 DEF SpawnError
  <2>2. Fail(sessions, id).sessions[id].final = sessions[id].final
    BY <1>1 DEF Fail, NoEffect, Session
  <2> QED
    BY <1>1, <2>1, <2>2 DEF Process, HadItsSay
<1>7. ASSUME NEW clean \in BOOLEAN, NEW detail \in BOOLEAN, Close(p, clean, detail)
      PROVE  /\ sessions'[id].final = sessions[id].final
             /\ HadItsSay(p)'
             /\ runs'[p].rivals = runs[p].rivals
  <2>1. /\ sessions' = Finish(sessions, id, clean, detail).sessions
        /\ runs' = [runs EXCEPT ![p].phase = Exit(clean)]
    BY <1>7 DEF Close
  <2> QED
    BY <1>1, <1>2, <2>1 DEF Exit, Process, HadItsSay
<1>8. ASSUME NEW clean \in BOOLEAN, NEW detail \in BOOLEAN, NEW kind \in LineKinds,
             CloseTrailing(p, kind, clean, detail)
      PROVE  /\ sessions'[id].final \in {0, sessions[id].final, p}
             /\ HadItsSay(p)'
             /\ runs'[p].rivals = runs[p].rivals
  <2> DEFINE ss == Dispatch(sessions, id, FrameOf(p, kind)).sessions
  <2>1. /\ sessions' = Finish(ss, id, clean, detail).sessions
        /\ runs' = [runs EXCEPT ![p] = Printed(p, kind, Exit(clean))]
        /\ MayPrint(p, kind)
    BY <1>8 DEF CloseTrailing
  <2>2. ss \in [Ids -> Session] /\ ss[id].final \in {0, sessions[id].final, p}
    BY <1>3, <2>1
  <2> HIDE DEF ss
  <2>3. sessions'[id].final = ss[id].final
    BY <1>2, <2>1, <2>2
  <2>4. runs'[p] = Printed(p, kind, Exit(clean))
    BY <1>1, <2>1
  <2> QED
    BY <1>4, <2>2, <2>3, <2>4 DEF Exit, HadItsSay
<1>9. CASE Closes(p)
  BY <1>7, <1>8, <1>9 DEF Closes
<1> QED
  BY <1>5, <1>6, <1>9 DEF ChildSteps

LEMMA ChildKeepsLatest ==
  ASSUME LatestInv, NEW p \in Run, ChildSteps(p)
  PROVE  InOrder' /\ RivalsWereSpawned' /\ OpenAreRivals' /\ NoStaleOutcome'
<1> USE DEF LatestInv
<1>1. /\ \A q \in Run : q # p => runs'[q] = runs[q]
      /\ runs'[p].id = runs[p].id
      /\ runs'[p].phase \in {"live", "failed", "exited0", "exited1"}
      /\ runs[p].phase \in Open
  BY ChildRuns
<1>2. runs[p].id \in Ids /\ \A s \in Ids : s # runs[p].id => sessions'[s] = sessions[s]
  BY ChildContract DEF StepContract
<1>3. LET old == sessions[runs[p].id]
          new == sessions'[runs[p].id]
      IN /\ new.final \in {0, old.final, p}
         /\ new.state \in Settled => old.state \in Settled \/ HadItsSay(p)'
         /\ HadItsSay(p) => HadItsSay(p)'
         /\ runs'[p].rivals = runs[p].rivals
  BY ChildLatest
<1>4. \A q \in Run : /\ runs'[q].id = runs[q].id
                     /\ runs'[q].rivals = runs[q].rivals
                     /\ runs'[q].phase = "unused" <=> runs[q].phase = "unused"
                     /\ runs'[q].phase \in Open => runs[q].phase \in Open
                     /\ HadItsSay(q) => HadItsSay(q)'
  BY <1>1, <1>3 DEF Open, HadItsSay
<1>5. InOrder' /\ OpenAreRivals'
  BY <1>4 DEF InOrder, OpenAreRivals
<1>7. RivalsWereSpawned'
  <2>1. \A q \in Run : \A r \in runs[q].rivals : r \in Run
    BY DEF RunnerTypeOK, Process
  <2> QED
    BY <1>4, <2>1 DEF RivalsWereSpawned
<1>6. NoStaleOutcome'
  <2> SUFFICES ASSUME NEW q \in Run, runs'[q].phase # "unused",
                      \A r \in Run : r > q => runs'[r].id # runs'[q].id
               PROVE  LET s      == sessions'[runs'[q].id]
                          atHand == {q} \cup runs'[q].rivals
                      IN /\ s.state \in Settled => \E r \in atHand : HadItsSay(r)'
                         /\ s.final \in {0} \cup atHand
    BY DEF NoStaleOutcome, HadItsSay
  <2>1. runs[q].phase # "unused" /\ \A r \in Run : r > q => runs[r].id # runs[q].id
    BY <1>4
  <2>2. LET s      == sessions[runs[q].id]
            atHand == {q} \cup runs[q].rivals
        IN /\ s.state \in Settled => \E r \in atHand : HadItsSay(r)
           /\ s.final \in {0} \cup atHand
    BY <2>1 DEF NoStaleOutcome, HadItsSay
  <2>3. {q} \cup runs[q].rivals \subseteq Run
    BY DEF RunnerTypeOK, Process
  <2>4. CASE runs[q].id = runs[p].id
    <3>1. p \in {q} \cup runs[q].rivals
      <4>1. p > q \/ p = q \/ q > p
        BY DEF Run
      <4> QED
        BY <1>1, <2>1, <2>4, <4>1 DEF OpenAreRivals
    <3> QED
      BY <1>3, <1>4, <2>2, <2>3, <2>4, <3>1
  <2>5. CASE runs[q].id # runs[p].id
    <3>1. runs[q].id \in Ids
      BY <2>1 DEF RunsHaveIds
    <3> QED
      BY <1>2, <1>4, <2>2, <2>3, <2>5, <3>1
  <2> QED
    BY <2>4, <2>5
<1> QED
  BY <1>5, <1>6, <1>7

LEMMA NextLatestInv ==
  ASSUME LatestInv, [RunnerNext]_runnerVars PROVE LatestInv'
<1>1. RunnerTypeOK' /\ RunsHaveIds'
  BY NextRunnerTypeOK DEF LatestInv
<1>2. UnusedAreBlank'
  BY NextUnusedAreBlank DEF LatestInv
<1>3. CASE \E id \in Ids : RequestSteps(id)
  BY <1>1, <1>2, <1>3, RequestKeepsLatest DEF LatestInv
<1>4. CASE \E p \in Run : ChildSteps(p)
  BY <1>1, <1>2, <1>4, ChildKeepsLatest DEF LatestInv
<1>5. CASE ClockMoves \/ UNCHANGED runnerVars
  BY <1>1, <1>2, <1>5
  DEF ClockMoves, runnerVars, LatestInv, InOrder, RivalsWereSpawned, OpenAreRivals,
      NoStaleOutcome
<1>6. CASE Restart
  <2>1. \A s \in Ids : sessions'[s].state \notin Settled /\ sessions'[s].final = 0
    BY <1>6 DEF Restart, Absent, Settled
  <2>2. \A p \in Run : /\ runs'[p].id = runs[p].id
                       /\ runs'[p].phase = "unused" <=> runs[p].phase = "unused"
                       /\ runs'[p].phase \notin Open
                       /\ runs'[p].rivals = runs[p].rivals
                       /\ runs[p].rivals \subseteq Run
    BY <1>6 DEF Restart, Open, LatestInv, RunnerTypeOK, Process
  <2>3. NoStaleOutcome'
    BY <1>1, <2>1 DEF NoStaleOutcome, RunsHaveIds
  <2> QED
    BY <1>1, <1>2, <2>2, <2>3 DEF LatestInv, InOrder, RivalsWereSpawned, OpenAreRivals
<1> QED
  BY <1>3, <1>4, <1>5, <1>6 DEF RunnerNext, Handler, RequestSteps, ChildSteps

(* However the runs of a session overlap and whatever the CLI prints, the  *)
(* outcome it shows is that of its latest run or of one that was open when *)
(* that run was spawned: never of a run that had ended before it           *)
(* (runner.ts:107-228).                                                    *)
THEOREM OutcomeNeverStale == RunnerSpec => []NoStaleOutcome
<1>1. RunnerInit => LatestInv
  <2> SUFFICES ASSUME RunnerInit PROVE LatestInv
    OBVIOUS
  <2>1. \A p \in Run : runs[p] = NoProcess
    BY DEF RunnerInit
  <2> QED
    BY <2>1, InitRunnerTypeOK
    DEF LatestInv, UnusedAreBlank, InOrder, RivalsWereSpawned, OpenAreRivals, NoStaleOutcome,
        Open, NoProcess
<1>2. LatestInv /\ [RunnerNext]_runnerVars => LatestInv'
  BY NextLatestInv
<1>3. LatestInv => NoStaleOutcome
  BY DEF LatestInv
<1> QED
  BY <1>1, <1>2, <1>3, PTL DEF RunnerSpec

-----------------------------------------------------------------------------
(* No two records of a Map are equally old: trimOld's order is strict.     *)
DistinctAges(ss) ==
  \A s, t \in Known(ss) : s # t => ss[s].born # ss[t].born

(* The records listed before that of s.                                    *)
Before(ss, s) == {t \in Known(ss) : ListedBefore(ss[t], ss[s])}

LEMMA BeforeGrows ==
  ASSUME NEW ss \in [Ids -> Session], NEW s \in Known(ss), NEW t \in Known(ss),
         ListedBefore(ss[s], ss[t])
  PROVE  Cardinality(Before(ss, s)) < Cardinality(Before(ss, t))
<1>1. \A r \in Ids : ss[r].created \in Int /\ ss[r].born \in Int
  BY RunnerAssumption DEF Session
<1>2. s \in Ids /\ t \in Ids
  BY DEF Known
<1>3. Before(ss, s) \subseteq Before(ss, t)
  <2> SUFFICES ASSUME NEW r \in Known(ss), ListedBefore(ss[r], ss[s])
               PROVE  ListedBefore(ss[r], ss[t])
    BY DEF Before
  <2>1. r \in Ids
    BY DEF Known
  <2> QED
    BY <1>1, <1>2, <2>1 DEF ListedBefore
<1>4. s \in Before(ss, t) /\ s \notin Before(ss, s)
  BY <1>1, <1>2 DEF Before, ListedBefore
<1>5. IsFiniteSet(Before(ss, t)) /\ IsFiniteSet(Before(ss, s))
  BY RunnerAssumption, FS_Subset DEF Before, Known
<1>6. /\ Cardinality(Before(ss, s)) <= Cardinality(Before(ss, t))
      /\ Cardinality(Before(ss, s)) # Cardinality(Before(ss, t))
  BY <1>3, <1>4, <1>5, FS_Subset
<1>7. Cardinality(Before(ss, s)) \in Nat /\ Cardinality(Before(ss, t)) \in Nat
  BY <1>5, FS_CardinalityType
<1> QED
  BY <1>6, <1>7

(* trimOld leaves at most MAX_KEEP records: those it keeps have different  *)
(* places in the list, all below MAX_KEEP.                                 *)
LEMMA TrimOldBound ==
  ASSUME NEW ss \in [Ids -> Session], DistinctAges(ss)
  PROVE  Cardinality(Known(TrimOld(ss))) <= MAX_KEEP
<1> DEFINE kept  == Known(TrimOld(ss))
           place == [s \in kept |-> Cardinality(Before(ss, s))]
<1>1. \A s \in kept : s \in Known(ss) /\ ~(Cardinality(Before(ss, s)) >= MAX_KEEP)
  BY DEF Known, TrimOld, Before, Absent
<1>2. \A s \in kept : Cardinality(Before(ss, s)) \in 0 .. (MAX_KEEP - 1)
  <2> SUFFICES ASSUME NEW s \in kept PROVE Cardinality(Before(ss, s)) \in 0 .. (MAX_KEEP - 1)
    OBVIOUS
  <2>1. IsFiniteSet(Before(ss, s))
    BY RunnerAssumption, FS_Subset DEF Before, Known
  <2>2. Cardinality(Before(ss, s)) \in Nat
    BY <2>1, FS_CardinalityType
  <2> QED
    BY <1>1, <2>2, RunnerAssumption
<1>3. ASSUME NEW s \in kept, NEW t \in kept, s # t PROVE place[s] # place[t]
  <2>1. s \in Known(ss) /\ t \in Known(ss) /\ ss[s].born # ss[t].born
    BY <1>1, <1>3 DEF DistinctAges
  <2>2. /\ ss[s].created \in Int /\ ss[s].born \in Int
        /\ ss[t].created \in Int /\ ss[t].born \in Int
    BY <2>1, RunnerAssumption DEF Session, Known
  <2>3. ListedBefore(ss[s], ss[t]) \/ ListedBefore(ss[t], ss[s])
    BY <2>1, <2>2 DEF ListedBefore
  <2>4. /\ Cardinality(Before(ss, s)) \in Int /\ Cardinality(Before(ss, t)) \in Int
    BY <1>2
  <2>5. Cardinality(Before(ss, s)) # Cardinality(Before(ss, t))
    <3>1. CASE ListedBefore(ss[s], ss[t])
      BY <2>1, <2>4, <3>1, BeforeGrows
    <3>2. CASE ListedBefore(ss[t], ss[s])
      BY <2>1, <2>4, <3>2, BeforeGrows
    <3> QED
      BY <2>3, <3>1, <3>2
  <2> QED
    BY <2>5
<1>4. place \in Injection(kept, 0 .. (MAX_KEEP - 1))
  <2>1. place \in [kept -> 0 .. (MAX_KEEP - 1)]
    BY <1>2
  <2> HIDE DEF place, kept
  <2> QED
    BY <1>3, <2>1 DEF Injection, IsInjective
<1>5. /\ IsFiniteSet(0 .. (MAX_KEEP - 1))
      /\ Cardinality(0 .. (MAX_KEEP - 1)) = MAX_KEEP
  BY FS_Interval, RunnerAssumption
<1> HIDE DEF place, kept
<1>6. Cardinality(kept) <= Cardinality(0 .. (MAX_KEEP - 1))
  BY <1>4, <1>5, FS_Injection
<1> QED
  BY <1>5, <1>6 DEF kept

-----------------------------------------------------------------------------
(* The inductive invariant of the store's size: every record is of an age  *)
(* of its own, none younger than the number of insertions.                 *)
SizeInv ==
  /\ RunnerTypeOK
  /\ RunsHaveIds
  /\ DistinctAges(sessions)
  /\ \A s \in Known(sessions) : sessions[s].born <= births
  /\ StoreBounded

(* A Map with the same ids and the same ages is as good.                   *)
SameAges(ss, tt) ==
  /\ Known(tt) = Known(ss)
  /\ \A s \in Ids : tt[s].born = ss[s].born

LEMMA RegisterAges ==
  ASSUME SizeInv, NEW id \in Ids, births < MaxBirths
  PROVE  /\ DistinctAges(Register(id))
         /\ \A s \in Known(Register(id)) : Register(id)[s].born <= births + 1
         /\ Cardinality(Known(Register(id))) <= MAX_KEEP
<1> DEFINE ss == [sessions EXCEPT ![id] = NewSession]
<1>1. ss \in [Ids -> Session]
  BY NewSessionType DEF SizeInv, RunnerTypeOK
<1>2. births \in Int /\ \A s \in Ids : sessions[s].born \in Int
  BY RunnerAssumption DEF SizeInv, RunnerTypeOK, Session
<1>3. ss[id].born = births + 1 /\ \A s \in Ids \ {id} : ss[s] = sessions[s]
  BY DEF SizeInv, RunnerTypeOK, NewSession
<1>4. \A s \in Known(ss) : s # id => sessions[s].born <= births /\ s \in Known(sessions)
  BY <1>3 DEF SizeInv, Known
<1>5. DistinctAges(ss)
  <2> SUFFICES ASSUME NEW s \in Known(ss), NEW t \in Known(ss), s # t
               PROVE  ss[s].born # ss[t].born
    BY DEF DistinctAges
  <2>1. s \in Ids /\ t \in Ids
    BY DEF Known
  <2> HIDE DEF ss
  <2>2. CASE s = id
    BY <1>2, <1>3, <1>4, <2>1, <2>2
  <2>3. CASE t = id
    BY <1>2, <1>3, <1>4, <2>1, <2>3
  <2>4. CASE s # id /\ t # id
    BY <1>3, <1>4, <2>1, <2>4 DEF SizeInv, DistinctAges
  <2> QED
    BY <2>2, <2>3, <2>4
<1>6. \A s \in Known(ss) : ss[s].born <= births + 1
  <2> SUFFICES ASSUME NEW s \in Known(ss) PROVE ss[s].born <= births + 1
    OBVIOUS
  <2>1. s \in Ids
    BY DEF Known
  <2> HIDE DEF ss
  <2> QED
    BY <1>2, <1>3, <1>4, <2>1
<1>7. Register(id) = TrimOld(ss)
  BY DEF Register
<1> HIDE DEF ss
<1>8. \A s \in Known(Register(id)) : s \in Known(ss) /\ Register(id)[s] = ss[s]
  BY <1>1, <1>7, TrimOldType DEF Known, Absent
<1> QED
  BY <1>1, <1>5, <1>6, <1>7, <1>8, TrimOldBound DEF DistinctAges

LEMMA RequestKeepsSize ==
  ASSUME SizeInv, NEW id \in Ids, RequestSteps(id)
  PROVE  /\ DistinctAges(sessions')
         /\ \A s \in Known(sessions') : sessions'[s].born <= births'
         /\ StoreBounded'
<1>1. CASE births' = births /\ Prompt(id) /\ id \in Known(sessions)
  <2>1. sessions' = [sessions EXCEPT ![id] = PromptObject(id)]
    BY <1>1, PromptType DEF SizeInv, PromptBase
  <2>2. PromptObject(id).born = sessions[id].born /\ PromptObject(id).state = "running"
    <3>1. PromptObject(id) = Prompted(sessions[id])
      BY <1>1 DEF PromptObject
    <3> QED
      BY <3>1, PromptedType DEF SizeInv, RunnerTypeOK
  <2>3. SameAges(sessions, sessions')
    BY <1>1, <2>1, <2>2 DEF SameAges, Known, SizeInv, RunnerTypeOK
  <2> QED
    BY <1>1, <2>3 DEF SameAges, SizeInv, DistinctAges, StoreBounded, Known
<1>2. ASSUME births < MaxBirths, births' = births + 1, SameAges(Register(id), sessions')
      PROVE  /\ DistinctAges(sessions')
             /\ \A s \in Known(sessions') : sessions'[s].born <= births'
             /\ StoreBounded'
  BY <1>2, RegisterAges DEF SameAges, DistinctAges, StoreBounded, Known
<1>3. CASE Create(id) \/ Ensure(id)
  BY <1>2, <1>3 DEF Create, Ensure, SameAges
<1>4. CASE Prompt(id) /\ id \notin Known(sessions)
  <2>1. births < MaxBirths /\ births' = births + 1 /\ PromptBase(id) = Register(id)
    BY <1>4 DEF Prompt, PromptBase
  <2>2. CASE id \notin Known(Register(id))
    <3>1. sessions' = Register(id)
      BY <1>4, <2>2 DEF Prompt
    <3> QED
      BY <1>2, <2>1, <3>1 DEF SameAges
  <2>3. CASE id \in Known(Register(id))
    <3>1. Register(id)[id] = NewSession /\ Register(id) \in [Ids -> Session]
      BY <2>1, <2>3, RegisterType DEF SizeInv, Known, Absent
    <3>2. NewSession \in Session
      BY <2>1, NewSessionType DEF SizeInv, RunnerTypeOK
    <3>3. PromptObject(id) = Prompted(NewSession)
      BY <1>4 DEF PromptObject
    <3>4. PromptObject(id).born = NewSession.born /\ PromptObject(id).state = "running"
      BY <3>2, <3>3, PromptedType
    <3>5. sessions' = [Register(id) EXCEPT ![id] = PromptObject(id)]
      BY <1>4, <2>3, <3>3 DEF Prompt
    <3>6. SameAges(Register(id), sessions')
      BY <2>3, <3>1, <3>4, <3>5 DEF SameAges, Known
    <3> QED
      BY <1>2, <2>1, <3>6
  <2> QED
    BY <2>2, <2>3
<1>5. CASE Start(id)
  <2>1. births < MaxBirths /\ births' = births + 1
    BY <1>5 DEF Start
  <2>2. CASE id \notin Known(Register(id))
    BY <1>2, <1>5, <2>1, <2>2 DEF Start, SameAges
  <2>3. CASE id \in Known(Register(id))
    <3>1. Register(id) \in [Ids -> Session]
      BY <2>1, RegisterType DEF SizeInv
    <3>2. sessions' = [Register(id) EXCEPT ![id].state = "running"]
      BY <1>5, <2>3 DEF Start
    <3>3. SameAges(Register(id), sessions')
      BY <2>3, <3>1, <3>2 DEF SameAges, Known, Session
    <3> QED
      BY <1>2, <2>1, <3>3
  <2> QED
    BY <2>2, <2>3
<1>6. Prompt(id) /\ id \in Known(sessions) => births' = births
  BY DEF Prompt
<1> QED
  BY <1>1, <1>3, <1>4, <1>5, <1>6 DEF RequestSteps

(* The Map holds at most MAX_KEEP sessions between two handlers, whatever  *)
(* the clock does to the order trimOld sorts by (runner.ts:83-105,242-245).*)
THEOREM StoreIsBounded == RunnerSpec => []StoreBounded
<1>1. RunnerInit => SizeInv
  <2> SUFFICES ASSUME RunnerInit PROVE SizeInv
    OBVIOUS
  <2>1. Known(sessions) = {}
    BY DEF RunnerInit, Known, Absent
  <2>2. Cardinality({}) = 0
    BY FS_EmptySet
  <2> QED
    BY <2>1, <2>2, InitRunnerTypeOK, RunnerAssumption DEF SizeInv, DistinctAges, StoreBounded
<1>2. ASSUME SizeInv, [RunnerNext]_runnerVars PROVE SizeInv'
  <2>1. RunnerTypeOK' /\ RunsHaveIds'
    BY <1>2, NextRunnerTypeOK DEF SizeInv
  <2>2. ASSUME NEW id \in Ids, RequestSteps(id) PROVE SizeInv'
    <3>1. /\ DistinctAges(sessions')
          /\ \A s \in Known(sessions') : sessions'[s].born <= births'
          /\ StoreBounded'
      BY <1>2, <2>2, RequestKeepsSize
    <3> QED
      BY <2>1, <3>1 DEF SizeInv, DistinctAges, Known
  <2>3. ASSUME NEW p \in Run, ChildSteps(p) PROVE SizeInv'
    <3>1. StepContract(runs[p].id) /\ runs[p].id \in Ids
      BY <1>2, <2>3, ChildContract DEF SizeInv
    <3>2. SameAges(sessions, sessions')
      BY <3>1 DEF StepContract, SameAges, Known
    <3>3. births' = births
      BY <1>2, <2>3, ChildRuns DEF SizeInv
    <3> QED
      BY <1>2, <2>1, <3>2, <3>3 DEF SizeInv, SameAges, DistinctAges, StoreBounded, Known
  <2>4. CASE ClockMoves \/ UNCHANGED runnerVars
    BY <1>2, <2>1, <2>4
    DEF ClockMoves, runnerVars, SizeInv, DistinctAges, StoreBounded, Known
  <2>5. CASE Restart
    <3>1. Known(sessions') = {}
      BY <2>5 DEF Restart, Known, Absent
    <3>2. Cardinality({}) = 0
      BY FS_EmptySet
    <3> QED
      BY <2>1, <3>1, <3>2, RunnerAssumption DEF SizeInv, DistinctAges, StoreBounded, Known
  <2> QED
    BY <1>2, <2>2, <2>3, <2>4, <2>5 DEF RunnerNext, Handler, RequestSteps, ChildSteps
<1>3. SizeInv /\ [RunnerNext]_runnerVars => SizeInv'
  BY <1>2
<1>4. SizeInv => StoreBounded
  BY DEF SizeInv
<1> QED
  BY <1>1, <1>3, <1>4, PTL DEF RunnerSpec

=============================================================================
