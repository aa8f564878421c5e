------------------------ MODULE EventStreamFeedProofs ------------------------
(***************************************************************************)
(* What the connections tell of a session, for any number of connections,  *)
(* sessions, runs and deltas: of one that is prompted once (first and      *)
(* third), and of any (second).                                            *)
(*                                                                         *)
(* First, two connections never disagree on how it went, if its CLI        *)
(* behaves.  The verdict on a session is a function of its record.  The    *)
(* child of a session that is prompted once makes the verdict when it      *)
(* settles the record and leaves it alone from then on: whatever it may    *)
(* still do to a settled record is to explain a failure.  So the live      *)
(* account, made when the session settles, and the replay, made later, are *)
(* the same; and once the record is dropped nothing is said of it any      *)
(* more, unless it is made anew (revived).                                 *)
(*                                                                         *)
(* Second, a connection tells the outcome of the first settlement it hears *)
(* of, in the step that makes it, and no other (FirstOutcomeTold).         *)
(*                                                                         *)
(* Third, every connection tells a well-formed story: the event stream     *)
(* implements SessionFeed.  A story is continued from its last event       *)
(* (Path).  The lists of compat.ts lead from where a connection's sets say *)
(* it is to the update; and where a text part is open, its last delta is   *)
(* the last one its run has printed, as long as the session runs           *)
(* (Written), so the next delta is the next of that run.                   *)
(***************************************************************************)
EXTENDS EventStreamProofs

(* The environment: no session is prompted again, and the CLI prints only  *)
(* frames, and none after its result.                                      *)
PromptedOnce == MaxPrompts <= 1 /\ TidyCli

(* The log l tells verdict v.                                              *)
Tells(l, v) == \A type \in Steps : Has(l, type) <=> type \in v

-----------------------------------------------------------------------------
(* A session that was prompted once, and its only child.                   *)
OneChild ==
  /\ \A p \in Run : runs[p].phase # "unused" => prompts[runs[p].id] > 0
  /\ \A p, q \in Run : runs[p].phase # "unused" /\ runs[q].phase # "unused"
                         /\ runs[p].id = runs[q].id => p = q
  /\ \A p \in Run : runs[p].phase = "spawning" => runs[p].verdict = "none"
  /\ \A p \in Run : runs[p].phase # "unused" /\ sessions[runs[p].id].state \in Settled
                      => runs[p].verdict # "none" \/ runs[p].phase \notin {"spawning", "live"}

OncePrompted ==
  /\ \A s \in Ids : sessions[s].state \in Settled \cup {"running"} => prompts[s] > 0
  /\ \A s \in Ids \ revived : sessions[s].state = "idle" => prompts[s] = 0
  /\ \A s \in Ids \ used : prompts[s] = 0 /\ sessions[s].state = "absent"
  /\ revived \subseteq Ids /\ \A s \in revived : prompts[s] > 0

(* What the connections hold of session s.                                 *)
AgreedOn(s) ==
  /\ \A c \in Clients : s \in streams[c].settled =>
       prompts[s] > 0 /\ sessions[s].state \in Settled \cup {"absent"}
  /\ \A c \in Clients : s \in streams[c].settled /\ sessions[s].state \in Settled =>
       Tells(streams[c].log[s], Verdict(sessions[s]))
  /\ \A c \in Clients : s \notin streams[c].settled => Tells(streams[c].log[s], {})
  /\ \A c, d \in Clients : s \in streams[c].settled \cap streams[d].settled =>
       \A type \in Steps : Has(streams[c].log[s], type) <=> Has(streams[d].log[s], type)

AgreeInv ==
  /\ LogInv
  /\ OneChild
  /\ OncePrompted
  /\ \A s \in Ids \ revived : AgreedOn(s)

-----------------------------------------------------------------------------
(* The verdict of the callbacks.  What a callback emits of a session is    *)
(* that it runs, or the verdict it leaves.                                 *)
Conveys(m, session) ==
  \/ m.session.state = "running"
  \/ /\ m.session.state \in Settled /\ session.state \in Settled
     /\ Verdict(m.session) = Verdict(session)

LEMMA FailedVerdict ==
  ASSUME NEW session \in Session, session.state = "error"
  PROVE  Verdict(session) = {"stepFailed"}
BY DEF Verdict, Replied, Failed, Steps

LEMMA FinishVerdict ==
  ASSUME NEW ss \in [Ids -> Session], NEW id \in Ids, ss[id].state # "idle",
         NEW clean \in BOOLEAN, NEW detail \in BOOLEAN
  PROVE  LET e == Finish(ss, id, clean, detail)
         IN /\ ss[id].state = "absent" => e.sessions = ss /\ e.wire = <<>>
            /\ ss[id].state # "absent" => e.sessions[id].state \in Settled
            /\ ss[id].state \in Settled => Verdict(e.sessions[id]) = Verdict(ss[id])
            /\ e.wire = <<>> \/ e.wire[1].session = e.sessions[id]
<1> DEFINE e == Finish(ss, id, clean, detail)
<1>1. CallbackContract(ss, id, e)
  BY FinishContract
<1>2. CASE ss[id].state = "absent"
  BY <1>2 DEF Finish, NoEffect, Settled
<1>3. CASE ss[id].state = "running"
  <2>1. e.sessions[id].state \in Settled
    BY <1>3 DEF Finish, Settled, Session
  <2> QED
    BY <1>1, <1>3, <2>1 DEF CallbackContract, Settled
<1>4. CASE ss[id].state \in Settled
  <2>1. CASE ss[id].state = "error"
    <3>1. e.sessions[id].state = "error" /\ e.sessions[id] \in Session
      BY <1>1, <2>1 DEF Finish, NoEffect, Session, CallbackContract
    <3>2. Verdict(e.sessions[id]) = Verdict(ss[id])
      BY <2>1, <3>1, FailedVerdict
    <3> QED
      BY <1>1, <2>1, <3>1, <3>2 DEF CallbackContract, Settled
  <2>2. CASE ss[id].state = "done"
    <3>1. e = NoEffect(ss)
      BY <2>2 DEF Finish
    <3> QED
      BY <1>4, <3>1 DEF NoEffect, Settled
  <2> QED
    BY <1>4, <2>1, <2>2 DEF Settled
<1>5. ss[id].state \in {"absent", "running"} \cup Settled
  BY DEF Session, Settled
<1> QED
  BY <1>2, <1>3, <1>4, <1>5

LEMMA DispatchVerdict ==
  ASSUME NEW ss \in [Ids -> Session], NEW id \in Ids, ss[id].state \in {"absent", "running"},
         NEW f \in Frame, f.kind # "garbage"
  PROVE  LET e == Dispatch(ss, id, f)
         IN /\ ss[id].state = "absent" => e.sessions = ss /\ e.wire = <<>>
            /\ ss[id].state # "absent" => e.sessions[id].state \in Settled \cup {"running"}
            /\ e.wire = <<>> \/ e.wire[1].session = e.sessions[id]
<1> DEFINE e == Dispatch(ss, id, f)
<1>1. CallbackContract(ss, id, e)
  BY DispatchContract
<1>2. e = ApplyFrame(ss, id, f)
  BY DEF Dispatch
<1>3. CASE ss[id].state = "absent"
  BY <1>2, <1>3 DEF ApplyFrame, NoEffect, Known
<1>4. CASE ss[id].state = "running"
  <2>1. e.sessions[id] = After(ss[id], f)
    BY <1>2, <1>4 DEF ApplyFrame, Known
  <2>2. After(ss[id], f).state \in Settled \cup {"running"}
    BY <1>4 DEF After, Session, Settled
  <2> QED
    BY <1>1, <1>4, <2>1, <2>2 DEF CallbackContract
<1> QED
  BY <1>3, <1>4

(* A child of a session that is prompted once settles it once.             *)
LEMMA ChildVerdict ==
  ASSUME TidyCli, RunnerTypeOK, RunsHaveIds, OneChild, NEW p \in Run, ChildSteps(p),
         sessions[runs[p].id].state # "idle"
  PROVE  LET id == runs[p].id
         IN /\ sessions[id].state = "absent" => sessions'[id] = sessions[id] /\ wire' = <<>>
            /\ sessions[id].state = "running" => sessions'[id].state \in Settled \cup {"running"}
            /\ sessions[id].state \in Settled =>
                 sessions'[id].state \in Settled /\ Verdict(sessions'[id]) = Verdict(sessions[id])
            /\ \A i \in DOMAIN wire' : wire'[i].id = id /\ Conveys(wire'[i], sessions'[id])
<1> DEFINE id == runs[p].id
           Goal(after, w) ==
             /\ sessions[id].state = "absent" => after[id] = sessions[id] /\ w = <<>>
             /\ sessions[id].state = "running" => after[id].state \in Settled \cup {"running"}
             /\ sessions[id].state \in Settled =>
                  after[id].state \in Settled /\ Verdict(after[id]) = Verdict(sessions[id])
             /\ \A i \in DOMAIN w : Conveys(w[i], after[id])
<1>1. /\ id \in Ids /\ runs[p].phase # "unused" /\ sessions \in [Ids -> Session]
      /\ StepContract(id)
  BY ChildContract DEF RunnerTypeOK
<1>2. sessions[id].state \in {"absent", "running"} \cup Settled
  BY <1>1 DEF Session, Settled
<1>3. runs[p].phase \in {"spawning", "live"} /\ runs[p].verdict = "none"
        => sessions[id].state \notin Settled
  BY <1>1 DEF OneChild
<1>4. \A i \in DOMAIN wire' : wire'[i].id = id
  BY <1>1, LenProperties DEF StepContract
<1>5. ASSUME NEW ss, NEW e, CallbackContract(ss, id, e),
             e.sessions[id].state \in Settled \cup {"running"}
      PROVE  \A i \in DOMAIN e.wire : Conveys(e.wire[i], e.sessions[id])
  <2>1. CASE e.wire = <<>>
    BY <2>1
  <2>2. CASE Len(e.wire) = 1 /\ e.wire[1].session = e.sessions[id]
    <3>1. DOMAIN e.wire = {1}
      BY <1>5, <2>2, LenProperties DEF CallbackContract
    <3> QED
      BY <1>5, <2>2, <3>1 DEF Conveys
  <2> QED
    BY <1>5, <2>1, <2>2 DEF CallbackContract
<1>6. ASSUME NEW kind \in LineKinds, Stdout(p, kind) PROVE Goal(sessions', wire')
  <2> DEFINE e == Dispatch(sessions, id, FrameOf(p, kind))
  <2>1. /\ MayPrint(p, kind) /\ sessions[id].state \in {"absent", "running"}
        /\ sessions' = e.sessions /\ wire' = e.wire
    BY <1>2, <1>3, <1>6 DEF Stdout, MayPrint
  <2>2. FrameOf(p, kind) \in Frame /\ FrameOf(p, kind).kind # "garbage"
    BY <2>1, FrameOfType DEF MayPrint, FrameOf
  <2>3. CallbackContract(sessions, id, e)
    BY <1>1, <2>2, DispatchContract
  <2>4. /\ sessions[id].state = "absent" => e.sessions = sessions /\ e.wire = <<>>
        /\ sessions[id].state # "absent" => e.sessions[id].state \in Settled \cup {"running"}
    BY <1>1, <2>1, <2>2, DispatchVerdict
  <2> HIDE DEF e
  <2>5. CASE sessions[id].state = "absent"
    BY <2>1, <2>4, <2>5 DEF Settled
  <2>6. CASE sessions[id].state = "running"
    <3>1. \A i \in DOMAIN e.wire : Conveys(e.wire[i], e.sessions[id])
      BY <1>5, <2>3, <2>4, <2>6
    <3> QED
      BY <2>1, <2>4, <2>6, <3>1 DEF Settled
  <2> QED
    BY <2>1, <2>5, <2>6
<1>7. ASSUME SpawnError(p) PROVE Goal(sessions', wire')
  <2> DEFINE e == Fail(sessions, id)
  <2>1. sessions' = e.sessions /\ wire' = e.wire /\ sessions[id].state \in {"absent", "running"}
    BY <1>2, <1>3, <1>7 DEF SpawnError, OneChild
  <2>2. CallbackContract(sessions, id, e)
    BY <1>1, FailContract
  <2>3. CASE sessions[id].state = "absent"
    BY <1>1, <2>1, <2>3 DEF Fail, NoEffect, Known, Settled
  <2>4. CASE sessions[id].state = "running"
    <3>1. e.sessions[id].state \in Settled
      BY <1>1, <2>4 DEF Fail, Known, Session, Settled
    <3>2. \A i \in DOMAIN e.wire : Conveys(e.wire[i], e.sessions[id])
      BY <1>5, <2>2, <3>1
    <3> HIDE DEF e
    <3> QED
      BY <2>1, <2>4, <3>1, <3>2 DEF Settled
  <2> QED
    BY <2>1, <2>3, <2>4
<1>8. ASSUME NEW clean \in BOOLEAN, NEW detail \in BOOLEAN, Close(p, clean, detail)
      PROVE  Goal(sessions', wire')
  <2> DEFINE e == Finish(sessions, id, clean, detail)
  <2>1. sessions' = e.sessions /\ wire' = e.wire
    BY <1>8 DEF Close
  <2>2. CallbackContract(sessions, id, e)
    BY <1>1, FinishContract
  <2>3. /\ sessions[id].state = "absent" => e.sessions = sessions /\ e.wire = <<>>
        /\ sessions[id].state # "absent" => e.sessions[id].state \in Settled
        /\ sessions[id].state \in Settled => Verdict(e.sessions[id]) = Verdict(sessions[id])
    BY <1>1, FinishVerdict
  <2> HIDE DEF e
  <2>4. CASE sessions[id].state = "absent"
    BY <2>1, <2>3, <2>4 DEF Settled
  <2>5. CASE sessions[id].state # "absent"
    <3>1. \A i \in DOMAIN e.wire : Conveys(e.wire[i], e.sessions[id])
      BY <1>5, <2>2, <2>3, <2>5
    <3> QED
      BY <2>1, <2>3, <2>5, <3>1
  <2> QED
    BY <2>4, <2>5
<1>9. ASSUME NEW clean \in BOOLEAN, NEW detail \in BOOLEAN, NEW kind \in LineKinds,
             CloseTrailing(p, kind, clean, detail)
      PROVE  Goal(sessions', wire')
  <2> DEFINE first == Dispatch(sessions, id, FrameOf(p, kind))
             last  == Finish(first.sessions, id, clean, detail)
  <2>1. /\ MayPrint(p, kind) /\ sessions[id].state \in {"absent", "running"}
        /\ sessions' = last.sessions /\ wire' = first.wire \o last.wire
    BY <1>2, <1>3, <1>9 DEF CloseTrailing, MayPrint
  <2>2. FrameOf(p, kind) \in Frame /\ FrameOf(p, kind).kind # "garbage"
    BY <2>1, FrameOfType DEF MayPrint, FrameOf
  <2>3. CallbackContract(sessions, id, first)
    BY <1>1, <2>2, DispatchContract
  <2>4. /\ sessions[id].state = "absent" => first.sessions = sessions /\ first.wire = <<>>
        /\ sessions[id].state # "absent" => first.sessions[id].state \in Settled \cup {"running"}
        /\ first.wire = <<>> \/ first.wire[1].session = first.sessions[id]
    BY <1>1, <2>1, <2>2, DispatchVerdict
  <2>5. first.sessions \in [Ids -> Session] /\ first.sessions[id].state # "idle"
    BY <1>1, <2>1, <2>3, <2>4 DEF CallbackContract, Settled
  <2>6. CallbackContract(first.sessions, id, last)
    BY <1>1, <2>5, FinishContract
  <2>7. /\ first.sessions[id].state = "absent" => last.sessions = first.sessions /\ last.wire = <<>>
        /\ first.sessions[id].state # "absent" => last.sessions[id].state \in Settled
        /\ first.sessions[id].state \in Settled =>
             Verdict(last.sessions[id]) = Verdict(first.sessions[id])
    BY <1>1, <2>5, FinishVerdict
  <2>8. Joined(first.wire, last.wire, wire')
    <3>1. Len(first.wire) \in {0, 1} /\ Len(last.wire) \in {0, 1}
      BY <2>3, <2>6, OneEmission
    <3> QED
      BY <2>1, <2>3, <2>6, <3>1, ShortConcat DEF CallbackContract
  <2> HIDE DEF first, last
  <2>9. CASE sessions[id].state = "absent"
    <3>1. first.wire = <<>> /\ last.wire = <<>> /\ last.sessions = sessions
      BY <2>4, <2>7, <2>9
    <3>2. wire' = <<>>
      BY <2>1, <3>1
    <3> QED
      BY <2>1, <2>9, <3>1, <3>2 DEF Settled
  <2>10. CASE sessions[id].state = "running"
    <3>1. last.sessions[id].state \in Settled
      BY <2>4, <2>7, <2>10 DEF Settled
    <3>2. \A i \in DOMAIN last.wire : Conveys(last.wire[i], last.sessions[id])
      BY <1>5, <2>6, <3>1
    <3>3. \A i \in DOMAIN first.wire : Conveys(first.wire[i], last.sessions[id])
      <4>1. \A i \in DOMAIN first.wire : Conveys(first.wire[i], first.sessions[id])
        BY <1>5, <2>3, <2>4, <2>10
      <4> QED
        BY <2>7, <3>1, <4>1 DEF Conveys, Settled
    <3>4. \A i \in DOMAIN wire' : Conveys(wire'[i], last.sessions[id])
      <4>1. CASE wire' = last.wire
        BY <3>2, <4>1
      <4>2. CASE wire' = first.wire
        BY <3>3, <4>2
      <4>3. CASE /\ Len(first.wire) = 1 /\ Len(last.wire) = 1
                 /\ wire' \in Seq(Emission) /\ Len(wire') = 2
                 /\ wire'[1] = first.wire[1] /\ wire'[2] = last.wire[1]
        <5>1. DOMAIN wire' = {1, 2}
          BY <4>3, LenProperties
        <5>2. 1 \in DOMAIN first.wire /\ 1 \in DOMAIN last.wire
          BY <2>3, <2>6, <4>3, LenProperties DEF CallbackContract
        <5> QED
          BY <3>2, <3>3, <4>3, <5>1, <5>2
      <4> QED
        BY <2>8, <4>1, <4>2, <4>3 DEF Joined
    <3> QED
      BY <2>1, <2>10, <3>1, <3>4 DEF Settled
  <2> QED
    BY <2>1, <2>9, <2>10
<1>10. Goal(sessions', wire')
  BY <1>6, <1>7, <1>8, <1>9 DEF ChildSteps, Closes
<1> QED
  BY <1>4, <1>10
-----------------------------------------------------------------------------
(* What the lists of compat.ts tell is the verdict.                        *)
LEMMA OnlyHas ==
  ASSUME NEW condition \in BOOLEAN, NEW e \in Seq(Entry), NEW type
  PROVE  /\ Only(condition, e) \in Seq(Entry)
         /\ Has(Only(condition, e), type) <=> condition /\ Has(e, type)
BY NoEntry DEF Only

LEMMA ListsTell ==
  ASSUME NEW session \in Session, NEW streamed \in BOOLEAN
  PROVE  /\ ToEvents(session) \in Seq(Entry) /\ Tells(ToEvents(session), Verdict(session))
         /\ ToStreamEndEvents(session, streamed) \in Seq(Entry)
         /\ Tells(ToStreamEndEvents(session, streamed), Verdict(session))
<1> DEFINE a == Plain("textStarted")
           b == Text("delta", session.final)
           c == Text("textEnded", session.final)
           d == Plain("stepEnded")
           f == Plain("stepFailed")
           u == Plain("updated")
<1>1. /\ a \in Entry /\ b \in Entry /\ c \in Entry /\ d \in Entry /\ f \in Entry /\ u \in Entry
      /\ a.type = "textStarted" /\ b.type = "delta" /\ c.type = "textEnded"
      /\ d.type = "stepEnded" /\ f.type = "stepFailed" /\ u.type = "updated"
  <2>1. session.final \in 0 .. MaxRuns
    BY RunnerAssumption DEF Session
  <2> QED
    BY <2>1, PlainType, TextType DEF EventTypes
<1>2. Replied(session) \in BOOLEAN /\ Failed(session) \in BOOLEAN
      /\ (streamed /\ Replied(session)) \in BOOLEAN
  BY DEF Replied, Failed
<1>3. /\ ToEvents(session) = Only(Replied(session), <<a, b, c, d>>) \o Only(Failed(session), <<f>>)
                             \o <<u>>
      /\ ToStreamEndEvents(session, streamed) =
           Only(streamed /\ Replied(session), <<c>>) \o Only(Replied(session), <<d>>)
           \o Only(Failed(session), <<f>>) \o <<u>>
  BY DEF ToEvents, ToStreamEndEvents
<1> HIDE DEF a, b, c, d, f, u
<1>4. /\ <<a, b, c, d>> \in Seq(Entry) /\ <<c>> \in Seq(Entry) /\ <<d>> \in Seq(Entry)
      /\ <<f>> \in Seq(Entry) /\ <<u>> \in Seq(Entry)
  BY <1>1
<1>5. \A type \in Steps : /\ Has(<<a, b, c, d>>, type) <=> type = "stepEnded"
                          /\ ~Has(<<c>>, type) /\ ~Has(<<u>>, type)
                          /\ Has(<<d>>, type) <=> type = "stepEnded"
                          /\ Has(<<f>>, type) <=> type = "stepFailed"
  <2>1. DOMAIN <<a, b, c, d>> = 1 .. 4
    OBVIOUS
  <2>2. ASSUME NEW type \in Steps PROVE Has(<<a, b, c, d>>, type) <=> type = "stepEnded"
    BY <1>1, <2>1, <2>2 DEF Has, Steps
  <2> QED
    BY <1>1, <2>2, OneEntry DEF Steps
<1> DEFINE whole == Only(Replied(session), <<a, b, c, d>>)
           text  == Only(streamed /\ Replied(session), <<c>>)
           ended == Only(Replied(session), <<d>>)
           fail  == Only(Failed(session), <<f>>)
           last  == <<u>>
<1>6. /\ whole \in Seq(Entry) /\ text \in Seq(Entry) /\ ended \in Seq(Entry) /\ fail \in Seq(Entry)
      /\ last \in Seq(Entry)
      /\ \A type \in Steps : /\ Has(whole, type) <=> Replied(session) /\ type = "stepEnded"
                             /\ ~Has(text, type)
                             /\ Has(ended, type) <=> Replied(session) /\ type = "stepEnded"
                             /\ Has(fail, type) <=> Failed(session) /\ type = "stepFailed"
                             /\ ~Has(last, type)
  BY <1>2, <1>4, <1>5, OnlyHas
<1>7. \A type \in Steps : type \in Verdict(session) <=>
        \/ Replied(session) /\ type = "stepEnded"
        \/ Failed(session) /\ type = "stepFailed"
  BY <1>2 DEF Verdict, Steps
<1>8. /\ ToEvents(session) = (whole \o fail) \o last
      /\ ToStreamEndEvents(session, streamed) = ((text \o ended) \o fail) \o last
  BY <1>3
<1> HIDE DEF whole, text, ended, fail, last
<1>9. (whole \o fail) \in Seq(Entry) /\ ((whole \o fail) \o last) \in Seq(Entry)
      /\ \A type \in Steps : Has((whole \o fail) \o last, type) <=>
                               Has(whole, type) \/ Has(fail, type) \/ Has(last, type)
  <2>1. whole \o fail \in Seq(Entry) /\ (whole \o fail) \o last \in Seq(Entry)
    BY <1>6, ConcatEntries
  <2> QED
    BY <1>6, <2>1, ConcatHas
<1>10. /\ ((text \o ended) \o fail) \o last \in Seq(Entry)
       /\ \A type \in Steps : Has(((text \o ended) \o fail) \o last, type) <=>
            Has(text, type) \/ Has(ended, type) \/ Has(fail, type) \/ Has(last, type)
  <2>1. text \o ended \in Seq(Entry) /\ (text \o ended) \o fail \in Seq(Entry)
        /\ ((text \o ended) \o fail) \o last \in Seq(Entry)
    BY <1>6, ConcatEntries
  <2> QED
    BY <1>6, <2>1, ConcatHas
<1> QED
  BY <1>6, <1>7, <1>8, <1>9, <1>10 DEF Tells

-----------------------------------------------------------------------------
(* What a connection hears of session id: nothing that matters to a        *)
(* verdict, or one of the verdicts in `told'.                              *)
Speaks(m, told) == m.session.state = "running" \/ Verdict(m.session) \in told

Settlement(session) == IF session.state \in Settled THEN {Verdict(session)} ELSE {}

Same(st, u, s) ==
  /\ s \in u.settled <=> s \in st.settled
  /\ \A type \in Steps : Has(u.log[s], type) <=> Has(st.log[s], type)

Heard(st, u, id, told) ==
  /\ st \in Handling /\ u \in Handling
  /\ \A s \in Ids \ {id} : Same(st, u, s)
  /\ \/ Same(st, u, id)
     \/ /\ id \notin st.settled /\ id \in u.settled
        /\ \E v \in told : \A type \in Steps :
             Has(u.log[id], type) <=> Has(st.log[id], type) \/ type \in v

LEMMA HeardNothing ==
  ASSUME NEW st \in Handling, NEW id, NEW told PROVE Heard(st, st, id, told)
BY DEF Heard, Same

LEMMA HeardTwice ==
  ASSUME NEW st, NEW u, NEW v, NEW id \in Ids, NEW told,
         Heard(st, u, id, told), Heard(u, v, id, told)
  PROVE  Heard(st, v, id, told)
BY DEF Heard, Same

LEMMA SendHeard ==
  ASSUME NEW st \in Handling, NEW id \in Ids, NEW e \in Seq(Entry)
  PROVE  LET u == Send(st, id, e)
         IN /\ u \in Handling /\ u.settled = st.settled
            /\ \A s \in Ids \ {id} : Same(st, u, s)
            /\ \A type : Has(u.log[id], type) <=> Has(st.log[id], type) \/ Has(e, type)
<1> DEFINE u == Send(st, id, e)
<1>1. /\ u \in Handling /\ u.settled = st.settled /\ u.log[id] = st.log[id] \o e
      /\ \A s \in Ids : s # id => u.log[s] = st.log[s]
  BY SendShape
<1>2. st.log[id] \in Seq(Entry)
  BY DEF Handling
<1> HIDE DEF u
<1>3. \A type : Has(u.log[id], type) <=> Has(st.log[id], type) \/ Has(e, type)
  BY <1>1, <1>2, ConcatHas
<1>4. \A s \in Ids \ {id} : Same(st, u, s)
  BY <1>1 DEF Same
<1> QED
  BY <1>1, <1>3, <1>4 DEF u

(* Events that are no verdict, after a note in one of the handler's sets.  *)
LEMMA SendQuiet ==
  ASSUME NEW st \in Handling, NEW u \in Handling, u.settled = st.settled, u.log = st.log,
         NEW id \in Ids, NEW e \in Seq(Entry), \A type \in Steps : ~Has(e, type), NEW told
  PROVE  Heard(st, Send(u, id, e), id, told)
<1> DEFINE v == Send(u, id, e)
<1>1. /\ v \in Handling /\ v.settled = u.settled
      /\ \A s \in Ids \ {id} : Same(u, v, s)
      /\ \A type : Has(v.log[id], type) <=> Has(u.log[id], type) \/ Has(e, type)
  BY SendHeard
<1> HIDE DEF v
<1>2. Heard(st, v, id, told)
  BY <1>1 DEF Heard, Same
<1> QED
  BY <1>2 DEF v

LEMMA EmitStartHeard ==
  ASSUME NEW st \in Handling, NEW id \in Ids, NEW told
  PROVE  Heard(st, EmitStart(st, id), id, told) /\ EmitStart(st, id).settled = st.settled
<1>1. CASE id \in st.started
  BY <1>1, HeardNothing DEF EmitStart
<1>2. CASE id \notin st.started
  <2> DEFINE noted == [st EXCEPT !.started = @ \cup {id}]
             start == <<Plain("start")>>
  <2>1. EmitStart(st, id) = Send(noted, id, start)
    BY <1>2 DEF EmitStart
  <2>2. noted \in Handling /\ noted.settled = st.settled /\ noted.log = st.log
    BY NotingShape
  <2>3. start \in Seq(Entry) /\ \A type \in Steps : ~Has(start, type)
    BY PlainType, OneEntry DEF EventTypes, Steps
  <2> HIDE DEF noted, start
  <2>4. Heard(st, Send(noted, id, start), id, told)
    BY <2>2, <2>3, SendQuiet
  <2>5. Send(noted, id, start).settled = noted.settled
    BY <2>2, <2>3, SendHeard
  <2> QED
    BY <2>1, <2>2, <2>4, <2>5
<1> QED
  BY <1>1, <1>2

LEMMA StreamDeltaHeard ==
  ASSUME NEW st \in Handling, NEW id \in Ids, NEW frame \in Frame, NEW seq \in Nat, NEW told
  PROVE  Heard(st, StreamDelta(st, id, frame, seq), id, told)
<1> DEFINE delta == [type |-> "delta", run |-> frame.run, n |-> frame.n, seq |-> seq]
           begun == Plain("textStarted")
           noted == [st EXCEPT !.textStarted = @ \cup {id}]
<1>1. delta \in Entry /\ delta.type = "delta"
  <2>1. frame.run \in 0 .. MaxRuns /\ frame.n \in 0 .. MaxDeltas
    BY RunnerAssumption DEF Frame
  <2> QED
    BY <2>1 DEF Entry, EventTypes
<1>2. begun \in Entry /\ begun.type = "textStarted"
  BY PlainType DEF EventTypes
<1>3. noted \in Handling /\ noted.settled = st.settled /\ noted.log = st.log
  BY NotingShape
<1>4. StreamDelta(st, id, frame, seq) =
        IF id \in st.textStarted THEN Send(st, id, <<delta>>) ELSE Send(noted, id, <<begun, delta>>)
  BY DEF StreamDelta
<1> HIDE DEF delta, begun, noted
<1>5. <<delta>> \in Seq(Entry) /\ \A type \in Steps : ~Has(<<delta>>, type)
  BY <1>1, OneEntry DEF Steps
<1>6. <<begun, delta>> \in Seq(Entry) /\ \A type \in Steps : ~Has(<<begun, delta>>, type)
  <2>1. <<begun, delta>> \in Seq(Entry) /\ DOMAIN <<begun, delta>> = 1 .. 2
    BY <1>1, <1>2
  <2> QED
    BY <1>1, <1>2, <2>1 DEF Has, Steps
<1> QED
  BY <1>3, <1>4, <1>5, <1>6, SendQuiet

LEMMA SettleHeard ==
  ASSUME NEW st \in Handling, NEW id \in Ids, id \notin st.settled, NEW e \in Seq(Entry),
         NEW told, NEW v \in told, Tells(e, v)
  PROVE  Heard(st, Settle(st, id, e), id, told)
<1> DEFINE before == EmitStart(st, id)
           noted  == [before EXCEPT !.settled = @ \cup {id}]
           u      == Send(noted, id, e)
<1>1. Settle(st, id, e) = u
  BY DEF Settle
<1>2. Heard(st, before, id, told) /\ before.settled = st.settled
  BY EmitStartHeard
<1> HIDE DEF before
<1>3. before \in Handling
  BY <1>2 DEF Heard
<1>4. noted \in Handling /\ noted.settled = before.settled \cup {id} /\ noted.log = before.log
  BY <1>3, NotingShape
<1> HIDE DEF noted
<1>5. /\ u \in Handling /\ u.settled = noted.settled
      /\ \A s \in Ids \ {id} : Same(noted, u, s)
      /\ \A type : Has(u.log[id], type) <=> Has(noted.log[id], type) \/ Has(e, type)
  BY <1>4, SendHeard
<1> HIDE DEF u
<1>6. Heard(before, u, id, told)
  BY <1>2, <1>3, <1>4, <1>5 DEF Heard, Same, Tells
<1> QED
  BY <1>1, <1>2, <1>6, HeardTwice

LEMMA ReceiveHeard ==
  ASSUME NEW st \in Handling, NEW m \in Emission, NEW seq \in Nat, NEW told, Speaks(m, told)
  PROVE  Heard(st, Receive(st, m, seq), m.id, told)
<1>1. m.id \in Ids /\ m.session \in Session /\ m.frame \in Frame
  BY DEF Emission
<1>2. CASE m.session.state = "running"
  <2>1. Heard(st, EmitStart(st, m.id), m.id, told) /\ EmitStart(st, m.id) \in Handling
    BY <1>1, EmitStartHeard DEF Heard
  <2>2. CASE m.frame.kind = "delta"
    <3>1. Receive(st, m, seq) = StreamDelta(EmitStart(st, m.id), m.id, m.frame, seq)
      BY <1>2, <2>2 DEF Receive
    <3>2. Heard(EmitStart(st, m.id), Receive(st, m, seq), m.id, told)
      BY <1>1, <2>1, <3>1, StreamDeltaHeard
    <3> QED
      BY <1>1, <2>1, <3>2, HeardTwice
  <2>3. CASE m.frame.kind # "delta"
    BY <1>2, <2>1, <2>3 DEF Receive
  <2> QED
    BY <2>2, <2>3
<1>3. CASE m.session.state # "running" /\ m.id \in st.settled
  BY <1>3, HeardNothing DEF Receive
<1>4. CASE m.session.state # "running" /\ m.id \notin st.settled
  <2> DEFINE e == ToStreamEndEvents(m.session, m.id \in st.textStarted)
  <2>1. Receive(st, m, seq) = Settle(st, m.id, e)
    BY <1>4 DEF Receive
  <2>2. Verdict(m.session) \in told
    BY <1>4 DEF Speaks
  <2>3. e \in Seq(Entry) /\ Tells(e, Verdict(m.session))
    <3>1. (m.id \in st.textStarted) \in BOOLEAN
      OBVIOUS
    <3> QED
      BY <1>1, <3>1, ListsTell
  <2> HIDE DEF e
  <2> QED
    BY <1>1, <1>4, <2>1, <2>2, <2>3, SettleHeard
<1> QED
  BY <1>2, <1>3, <1>4

LEMMA ReceiveAllHeard ==
  ASSUME NEW st \in Handling, NEW ms \in Seq(Emission), Len(ms) <= 2, NEW seq \in Nat,
         NEW id \in Ids, NEW told,
         \A i \in DOMAIN ms : ms[i].id = id /\ Speaks(ms[i], told)
  PROVE  Heard(st, ReceiveAll(st, ms, seq), id, told)
<1>1. /\ Len(ms) \in Nat /\ DOMAIN ms = 1 .. Len(ms)
      /\ \A i \in 1 .. Len(ms) : ms[i] \in Emission
  BY LenProperties
<1>2. CASE Len(ms) = 0
  BY <1>2, HeardNothing DEF ReceiveAll
<1>3. ASSUME Len(ms) > 0 PROVE Heard(st, Receive(st, ms[1], seq), id, told)
  <2>1. ms[1] \in Emission /\ ms[1].id = id /\ Speaks(ms[1], told)
    BY <1>1, <1>3
  <2> QED
    BY <2>1, ReceiveHeard
<1>4. CASE Len(ms) = 1
  BY <1>3, <1>4 DEF ReceiveAll
<1>5. CASE Len(ms) = 2
  <2> DEFINE u == Receive(st, ms[1], seq)
  <2>1. ReceiveAll(st, ms, seq) = Receive(u, ms[2], seq)
    BY <1>5 DEF ReceiveAll
  <2>2. Heard(st, u, id, told)
    BY <1>3, <1>5
  <2> HIDE DEF u
  <2>3. ms[2] \in Emission /\ ms[2].id = id /\ Speaks(ms[2], told)
    BY <1>1, <1>5
  <2>4. Heard(u, Receive(u, ms[2], seq), id, told)
    BY <2>2, <2>3, ReceiveHeard DEF Heard
  <2> QED
    BY <2>1, <2>2, <2>4, HeardTwice
<1> QED
  BY <1>1, <1>2, <1>4, <1>5, AtMostTwo

-----------------------------------------------------------------------------
(* emit() tells every connection the same.                                 *)
LEMMA DeliverHeard ==
  ASSUME LogInv, Handler, Deliver, NEW id \in Ids, NEW told,
         \A i \in DOMAIN wire' : wire'[i].id = id /\ Speaks(wire'[i], told),
         NEW c \in Clients
  PROVE  Heard(streams[c], streams'[c], id, told)
<1>1. /\ sequence \in [Ids -> Nat] /\ streams \in [Clients -> Handling]
      /\ streams[c] \in Handling
  BY DEF LogInv
<1>2. wire' \in Seq(Emission) /\ Len(wire') <= 2
  BY HandlerWire DEF LogInv
<1>3. ASSUME NEW seq \in Nat, streams'[c] = ReceiveAll(streams[c], wire', seq)
      PROVE  Heard(streams[c], streams'[c], id, told)
  BY <1>1, <1>2, <1>3, ReceiveAllHeard
<1>4. streams'[c] = streams[c] => Heard(streams[c], streams'[c], id, told)
  BY <1>1, HeardNothing
<1>5. CASE Numbered(wire')
  <2>1. wire'[1].id = id
    <3>1. Len(wire') \in Nat /\ DOMAIN wire' = 1 .. Len(wire') /\ DOMAIN wire' # {}
      BY <1>2, <1>5, LenProperties DEF Numbered
    <3>2. 1 \in DOMAIN wire'
      BY <3>1
    <3> QED
      BY <3>2
  <2>2. PICK order \in Orders :
          streams' = [d \in Clients |->
                        IF d \in Listening
                        THEN ReceiveAll(streams[d], wire', sequence[id] + order[d])
                        ELSE streams[d]]
    BY <1>5, <2>1 DEF Deliver, Publish
  <2>3. CASE c \in Listening
    <3>1. sequence[id] + order[c] \in Nat
      <4>1. order[c] \in 1 .. Cardinality(Listening)
        BY <2>3 DEF Orders
      <4> QED
        BY <1>1, <4>1, ListeningIsFinite
    <3> QED
      BY <1>3, <2>2, <2>3, <3>1
  <2> QED
    BY <1>4, <2>2, <2>3
<1>6. CASE ~Numbered(wire')
  <2>1. streams' = [d \in Clients |-> IF d \in Listening THEN ReceiveAll(streams[d], wire', 0)
                                      ELSE streams[d]]
    BY <1>6 DEF Deliver, Publish
  <2> QED
    BY <1>3, <1>4, <2>1
<1> QED
  BY <1>5, <1>6

(* A record that was made anew is not forgotten before the next prompt.    *)
LEMMA RevivedStays ==
  ASSUME OncePrompted, Deliver, NEW s \in Ids, s \notin revived', prompts[s] > 0,
         prompts'[s] = prompts[s]
  PROVE  s \notin revived /\ (sessions[s].state = "absent" => sessions'[s].state = "absent")
BY DEF Deliver, Revived

-----------------------------------------------------------------------------
(* A request makes the record of an id that has none, or prompts an id for *)
(* the only time.                                                          *)
RequestFacts(id) ==
  /\ used' = used \cup {id}
  /\ \A s \in Ids \ {id} : prompts'[s] = prompts[s] /\ sessions'[s] \in {sessions[s], Absent}
  /\ \A i \in DOMAIN wire' : wire'[i].id = id /\ wire'[i].session.state = "running"
  /\ \/ /\ sessions[id].state = "absent" /\ sessions'[id].state \in {"absent", "idle"}
        /\ prompts'[id] = prompts[id] /\ UNCHANGED runs
     \/ /\ prompts[id] = 0 /\ prompts'[id] > 0
        /\ sessions'[id].state \in {"absent", "running"}
        /\ SpawnRun(id) \/ UNCHANGED runs

LEMMA RequestOnce ==
  ASSUME MaxPrompts <= 1, RunnerTypeOK, OncePrompted, NEW id \in Ids, RequestSteps(id)
  PROVE  RequestFacts(id)
<1>1. /\ sessions \in [Ids -> Session] /\ prompts \in [Ids -> 0 .. MaxPrompts] /\ MaxPrompts \in Nat
      /\ prompts[id] \in Nat
  BY RunnerAssumption DEF RunnerTypeOK
<1>2. id \notin used => sessions[id].state = "absent"
  BY DEF OncePrompted
<1>3. Absent.state = "absent" /\ NewSession.state = "idle"
  BY DEF Absent, NewSession
<1>4. CASE Create(id) \/ Ensure(id)
  <2>1. /\ births < MaxBirths /\ sessions' = Register(id) /\ UNCHANGED <<runs, prompts>>
        /\ wire' = <<>> /\ used' = used \cup {id} /\ sessions[id].state = "absent"
    BY <1>2, <1>4 DEF Create, Ensure, Known
  <2> QED
    BY <1>3, <2>1, RegisterType DEF RequestFacts
<1>5. ASSUME Prompt(id) \/ Start(id)
      PROVE  /\ prompts[id] = 0 /\ prompts'[id] > 0
             /\ \A s \in Ids \ {id} : prompts'[s] = prompts[s]
             /\ used' = used \cup {id}
             /\ SpawnRun(id) \/ UNCHANGED runs
  <2>1. prompts[id] < MaxPrompts /\ prompts' = [prompts EXCEPT ![id] = prompts[id] + 1]
    BY <1>5 DEF Prompt, Start
  <2>2. used' = used \cup {id} /\ (SpawnRun(id) \/ UNCHANGED runs)
    BY <1>5 DEF Prompt, Start
  <2> QED
    BY <1>1, <2>1, <2>2
<1>6. CASE Prompt(id)
  <2>1. /\ \A s \in Ids : s # id => PromptBase(id)[s] \in {sessions[s], Absent}
        /\ PromptBase(id) \in [Ids -> Session]
        /\ PromptObject(id).state = "running"
    BY <1>6, PromptType
  <2>2. \A i \in DOMAIN wire' : wire'[i].id = id /\ wire'[i].session.state = "running"
    <3>1. wire' = Emit(id, PromptObject(id), Synthetic)
      BY <1>6 DEF Prompt, PromptObject
    <3> QED
      BY <2>1, <3>1 DEF Emit
  <2>3. /\ \A s \in Ids \ {id} : sessions'[s] \in {sessions[s], Absent}
        /\ sessions'[id].state \in {"absent", "running"}
    <3>1. CASE sessions' = [PromptBase(id) EXCEPT ![id] = PromptObject(id)]
      BY <2>1, <3>1
    <3>2. CASE sessions' = PromptBase(id) /\ id \notin Known(PromptBase(id))
      BY <2>1, <3>2 DEF Known
    <3> QED
      BY <1>6, <3>1, <3>2, PromptType
  <2> QED
    BY <1>5, <1>6, <2>2, <2>3 DEF RequestFacts
<1>7. CASE Start(id)
  <2>1. births < MaxBirths /\ wire' = <<>>
    BY <1>7 DEF Start
  <2>2. /\ \A s \in Ids : s # id => Register(id)[s] \in {sessions[s], Absent}
        /\ Register(id) \in [Ids -> Session]
    BY <2>1, RegisterType
  <2>3. /\ \A s \in Ids \ {id} : sessions'[s] \in {sessions[s], Absent}
        /\ sessions'[id].state \in {"absent", "running"}
    <3>1. CASE id \in Known(Register(id))
      <4>1. sessions' = [Register(id) EXCEPT ![id].state = "running"]
        BY <1>7, <3>1 DEF Start
      <4>2. Register(id)[id] \in Session
        BY <2>2
      <4>3. sessions'[id].state = "running"
        BY <2>2, <4>1, <4>2 DEF Session
      <4> QED
        BY <2>2, <4>1, <4>3
    <3>2. CASE id \notin Known(Register(id))
      <4>1. sessions' = Register(id)
        BY <1>7, <3>2 DEF Start
      <4> QED
        BY <2>2, <3>2, <4>1 DEF Known
    <3> QED
      BY <3>1, <3>2
  <2> QED
    BY <1>5, <1>7, <2>1, <2>3 DEF RequestFacts
<1> QED
  BY <1>4, <1>6, <1>7 DEF RequestSteps

-----------------------------------------------------------------------------
(* The invariant is kept by requests ...                                   *)
LEMMA RequestAgrees ==
  ASSUME PromptedOnce, AgreeInv, NEW id \in Ids, RequestSteps(id), Deliver
  PROVE  OneChild' /\ OncePrompted' /\ \A s \in Ids \ revived' : AgreedOn(s)'
<1> USE DEF AgreeInv
<1>1. /\ RunnerTypeOK /\ RunsHaveIds
      /\ sessions \in [Ids -> Session] /\ runs \in [Run -> Process] /\ prompts \in [Ids -> Nat]
      /\ streams \in [Clients -> Handling]
  BY RunnerAssumption DEF LogInv, RunnerTypeOK
<1>2. RequestFacts(id)
  BY <1>1, RequestOnce DEF PromptedOnce
<1>3. /\ Absent.state = "absent" /\ Settled = {"done", "error"}
      /\ \A s \in Ids : prompts'[s] = prompts[s] \/ (prompts[s] = 0 /\ prompts'[s] > 0)
  <2>1. \A s \in Ids : prompts'[s] = prompts[s] \/ (prompts[s] = 0 /\ prompts'[s] > 0)
    BY <1>2 DEF RequestFacts
  <2> QED
    BY <2>1 DEF Absent, Settled
<1>4. Handler
  BY DEF Handler, RequestSteps
<1>5. OneChild'
  <2>1. CASE UNCHANGED runs
    <3>1. \A s \in Ids : sessions'[s].state \in Settled => sessions[s].state \in Settled
      BY <1>2, <1>3 DEF RequestFacts
    <3> QED
      BY <1>1, <1>3, <2>1, <3>1 DEF OneChild, RunsHaveIds
  <2>2. CASE ~UNCHANGED runs
    <3>1. SpawnRun(id) /\ prompts[id] = 0 /\ prompts'[id] > 0
      BY <1>2, <2>2 DEF RequestFacts
    <3>2. PICK p \in Run :
            /\ runs[p].phase = "unused"
            /\ runs' = [runs EXCEPT ![p] = [id |-> id, phase |-> "spawning",
                                            verdict |-> "none", deltas |-> 0,
                                            rivals |-> {r \in Run : /\ runs[r].id = id
                                                                    /\ runs[r].phase \in Open}]]
      BY <2>2, <3>1 DEF SpawnRun
    <3>3. /\ runs'[p].id = id /\ runs'[p].phase = "spawning" /\ runs'[p].verdict = "none"
          /\ \A q \in Run : q # p => runs'[q] = runs[q]
      BY <1>1, <3>2
    <3>4. \A q \in Run : q # p /\ runs[q].phase # "unused" =>
                           runs[q].id # id /\ runs[q].id \in Ids /\ prompts'[runs[q].id] > 0
      BY <1>1, <1>3, <3>1 DEF OneChild, RunsHaveIds
    <3>5. sessions'[id].state \notin Settled
      BY <1>2, <1>3, <3>1 DEF RequestFacts
    <3>6. \A s \in Ids : sessions'[s].state \in Settled => sessions[s].state \in Settled
      BY <1>2, <1>3 DEF RequestFacts
    <3> QED
      BY <3>1, <3>3, <3>4, <3>5, <3>6 DEF OneChild
  <2> QED
    BY <2>1, <2>2
<1>6. ASSUME NEW s \in Ids \ revived'
      PROVE  /\ s \notin revived
             /\ sessions'[s].state = "idle" =>
                  (sessions'[s] = sessions[s] /\ prompts'[s] = prompts[s]) \/ prompts'[s] = 0
  <2>1. s \notin revived
    BY <1>3 DEF Deliver, Revived, OncePrompted
  <2>2. CASE s # id
    BY <1>2, <1>3, <2>1, <2>2 DEF RequestFacts
  <2>3. CASE s = id
    <3>1. sessions[s].state = "absent" /\ prompts'[s] = prompts[s] /\ sessions'[s].state = "idle"
            => prompts[s] = 0
      BY <1>1, RevivedStays
    <3> QED
      BY <1>2, <2>1, <2>3, <3>1 DEF RequestFacts
  <2> QED
    BY <2>1, <2>2, <2>3
<1>7. OncePrompted'
  <2>1. \A s \in Ids : sessions'[s].state \in Settled \cup {"running"} => prompts'[s] > 0
    BY <1>2, <1>3 DEF OncePrompted, RequestFacts
  <2>2. \A s \in Ids \ revived' : sessions'[s].state = "idle" => prompts'[s] = 0
    BY <1>6 DEF OncePrompted
  <2>3. \A s \in Ids \ used' : prompts'[s] = 0 /\ sessions'[s].state = "absent"
    BY <1>2, <1>3 DEF OncePrompted, RequestFacts
  <2>4. revived' \subseteq Ids /\ \A s \in revived' : prompts'[s] > 0
    BY DEF Deliver, Revived, OncePrompted
  <2> QED
    BY <2>1, <2>2, <2>3, <2>4 DEF OncePrompted
<1>8. ASSUME NEW s \in Ids \ revived' PROVE AgreedOn(s)'
  <2>1. s \notin revived /\ AgreedOn(s)
    BY <1>6
  <2>2. \A i \in DOMAIN wire' : wire'[i].id = id /\ Speaks(wire'[i], {})
    BY <1>2 DEF RequestFacts, Speaks
  <2>3. \A c \in Clients : Same(streams[c], streams'[c], s)
    BY <1>4, <2>2, DeliverHeard DEF Heard
  <2>4. \A c \in Clients : s \in streams[c].settled =>
          /\ prompts[s] > 0 /\ prompts'[s] = prompts[s]
          /\ sessions'[s] = sessions[s] \/ sessions'[s].state = "absent"
    BY <1>2, <1>3, <1>6, <2>1 DEF AgreedOn, RequestFacts
  <2> QED
    BY <1>3, <2>1, <2>3, <2>4 DEF AgreedOn, Same, Tells
<1> QED
  BY <1>5, <1>7, <1>8

(* ... and by the child.                                                   *)
LEMMA ChildAgrees ==
  ASSUME PromptedOnce, AgreeInv, NEW p \in Run, ChildSteps(p), Deliver
  PROVE  OneChild' /\ OncePrompted' /\ \A s \in Ids \ revived' : AgreedOn(s)'
<1> USE DEF AgreeInv
<1> DEFINE id == runs[p].id
<1>1. /\ RunnerTypeOK /\ RunsHaveIds /\ TidyCli
      /\ sessions \in [Ids -> Session] /\ runs \in [Run -> Process] /\ prompts \in [Ids -> Nat]
      /\ streams \in [Clients -> Handling]
  BY RunnerAssumption DEF LogInv, RunnerTypeOK, PromptedOnce
<1>2. /\ id \in Ids /\ runs[p].phase # "unused" /\ prompts[id] > 0
      /\ \A s \in Ids : s # id => sessions'[s] = sessions[s]
      /\ sessions'[id].state = "absent" <=> sessions[id].state = "absent"
  BY <1>1, ChildContract DEF StepContract, OneChild
<1>3. /\ \A q \in Run : q # p => runs'[q] = runs[q]
      /\ runs'[p].id = id /\ runs'[p].phase \in {"live", "failed", "exited0", "exited1"}
      /\ runs[p].phase \in Open
      /\ used' = used /\ prompts' = prompts
  BY <1>1, ChildRuns
<1>4. Handler
  BY DEF Handler, ChildSteps
<1> HIDE DEF id
<1>5. OneChild'
  <2>1. \A q \in Run : /\ runs'[q].id = runs[q].id
                       /\ runs'[q].phase # "unused" => runs[q].phase # "unused"
    BY <1>2, <1>3 DEF id
  <2>2. /\ sessions'[id].state \in Settled => sessions[id].state \in Settled \/ HadItsSay(p)'
        /\ HadItsSay(p) => HadItsSay(p)'
    BY <1>1, ChildLatest DEF id
  <2>3. sessions[id].state \in Settled => HadItsSay(p)
    BY <1>2 DEF OneChild, HadItsSay, id
  <2>4. \A q \in Run : q # p /\ runs[q].phase # "unused" => runs[q].id # id /\ runs[q].id \in Ids
    BY <1>1, <1>2 DEF OneChild, RunsHaveIds, id
  <2>5. \A q \in Run : runs'[q].phase # "unused" /\ sessions'[runs'[q].id].state \in Settled
                         => \/ runs'[q].verdict # "none"
                            \/ runs'[q].phase \notin {"spawning", "live"}
    <3> SUFFICES ASSUME NEW q \in Run, runs'[q].phase # "unused",
                        sessions'[runs'[q].id].state \in Settled
                 PROVE  runs'[q].verdict # "none" \/ runs'[q].phase \notin {"spawning", "live"}
      OBVIOUS
    <3>1. CASE q = p
      BY <1>3, <2>2, <2>3, <3>1 DEF HadItsSay
    <3>2. CASE q # p
      BY <1>2, <1>3, <2>4, <3>2 DEF OneChild
    <3> QED
      BY <3>1, <3>2
  <2> QED
    BY <1>3, <2>1, <2>5 DEF OneChild
<1>6. ASSUME NEW s \in Ids \ revived' PROVE s \notin revived
  BY <1>3 DEF Deliver, Revived
<1>7. ASSUME id \notin revived'
      PROVE  /\ sessions[id].state # "idle"
             /\ sessions[id].state = "absent" => sessions'[id] = sessions[id] /\ wire' = <<>>
             /\ sessions[id].state = "running" => sessions'[id].state \in Settled \cup {"running"}
             /\ sessions[id].state \in Settled =>
                  sessions'[id].state \in Settled /\ Verdict(sessions'[id]) = Verdict(sessions[id])
             /\ \A i \in DOMAIN wire' : wire'[i].id = id /\ Conveys(wire'[i], sessions'[id])
  <2>1. sessions[id].state # "idle"
    BY <1>1, <1>2, <1>6, <1>7 DEF OncePrompted
  <2> QED
    BY <1>1, <2>1, ChildVerdict DEF id
<1>8. OncePrompted'
  <2>1. \A s \in Ids : sessions'[s].state \in Settled \cup {"running"} => prompts'[s] > 0
    BY <1>2, <1>3 DEF OncePrompted
  <2>2. \A s \in Ids \ revived' : sessions'[s].state = "idle" => prompts'[s] = 0
    <3> SUFFICES ASSUME NEW s \in Ids \ revived', sessions'[s].state = "idle" PROVE prompts'[s] = 0
      OBVIOUS
    <3>1. CASE s = id
      <4>1. sessions[id].state \in {"absent", "running", "done", "error"}
        BY <1>1, <1>2, <1>7, <3>1 DEF Session
      <4> QED
        BY <1>7, <3>1, <4>1 DEF Settled
    <3>2. CASE s # id
      BY <1>2, <1>3, <1>6, <3>2 DEF OncePrompted
    <3> QED
      BY <3>1, <3>2
  <2>3. \A s \in Ids \ used' : prompts'[s] = 0 /\ sessions'[s].state = "absent"
    BY <1>2, <1>3 DEF OncePrompted
  <2>4. revived' \subseteq Ids /\ \A s \in revived' : prompts'[s] > 0
    BY DEF Deliver, Revived, OncePrompted
  <2> QED
    BY <2>1, <2>2, <2>3, <2>4 DEF OncePrompted
<1>9. ASSUME NEW s \in Ids \ revived' PROVE AgreedOn(s)'
  <2>1. AgreedOn(s)
    BY <1>6
  <2>2. CASE s = id
    <3>1. \A c \in Clients : Heard(streams[c], streams'[c], id, Settlement(sessions'[id]))
      <4>1. \A i \in DOMAIN wire' : wire'[i].id = id /\ Speaks(wire'[i], Settlement(sessions'[id]))
        BY <1>7, <2>2 DEF Conveys, Speaks, Settlement
      <4> QED
        BY <1>2, <1>4, <4>1, DeliverHeard
    <3>2. sessions[id].state \in Settled \cup {"absent"} =>
            sessions'[id].state \in Settled \cup {"absent"}
      BY <1>7, <2>2 DEF Settled
    <3>3. \A c \in Clients : s \in streams'[c].settled =>
            prompts'[s] > 0 /\ sessions'[s].state \in Settled \cup {"absent"}
      BY <1>2, <1>3, <2>1, <2>2, <3>1, <3>2 DEF Heard, Settlement, Same, AgreedOn
    <3>4. ASSUME NEW c \in Clients, s \in streams'[c].settled, sessions'[s].state \in Settled
          PROVE  Tells(streams'[c].log[s], Verdict(sessions'[s]))
      <4>1. CASE Same(streams[c], streams'[c], s)
        <5>1. s \in streams[c].settled /\ sessions[s].state \in Settled \cup {"absent"}
          BY <2>1, <3>4, <4>1 DEF Same, AgreedOn
        <5>2. sessions[s].state \in Settled /\ Verdict(sessions'[s]) = Verdict(sessions[s])
          BY <1>2, <1>7, <2>2, <3>4, <5>1 DEF Settled
        <5> QED
          BY <2>1, <4>1, <5>1, <5>2 DEF Same, AgreedOn, Tells
      <4>2. CASE ~Same(streams[c], streams'[c], s)
        BY <2>1, <2>2, <3>1, <4>2 DEF Heard, Settlement, AgreedOn, Tells
      <4> QED
        BY <4>1, <4>2
    <3>5. \A c \in Clients : s \notin streams'[c].settled => Tells(streams'[c].log[s], {})
      BY <2>1, <2>2, <3>1 DEF Heard, Same, AgreedOn, Tells
    <3>6. ASSUME NEW c \in Clients, NEW d \in Clients,
                 s \in streams'[c].settled \cap streams'[d].settled
          PROVE  \A type \in Steps : Has(streams'[c].log[s], type) <=> Has(streams'[d].log[s], type)
      <4>1. CASE sessions'[s].state \in Settled
        BY <3>4, <3>6, <4>1 DEF Tells
      <4>2. CASE sessions'[s].state \notin Settled
        <5>1. Same(streams[c], streams'[c], s) /\ Same(streams[d], streams'[d], s)
          BY <2>2, <3>1, <4>2 DEF Heard, Settlement
        <5> QED
          BY <2>1, <3>6, <5>1 DEF Same, AgreedOn
      <4> QED
        BY <4>1, <4>2
    <3> QED
      BY <3>3, <3>4, <3>5, <3>6 DEF AgreedOn
  <2>3. CASE s # id
    <3>1. \A i \in DOMAIN wire' : wire'[i].id = id /\ Speaks(wire'[i], SUBSET Steps)
      <4>1. \A i \in DOMAIN wire' : wire'[i].id = id
        BY <1>1, <1>2, LenProperties, ChildContract DEF StepContract, id
      <4> QED
        BY <4>1 DEF Speaks, Verdict
    <3>2. \A c \in Clients : Same(streams[c], streams'[c], s)
      BY <1>2, <1>4, <2>3, <3>1, DeliverHeard DEF Heard
    <3> QED
      BY <1>2, <1>3, <2>1, <2>3, <3>2 DEF AgreedOn, Same, Tells
  <2> QED
    BY <2>2, <2>3
<1> QED
  BY <1>5, <1>8, <1>9

-----------------------------------------------------------------------------
(* A connection that is made is told the verdict on what is settled.       *)
LEMMA ReplayTells ==
  ASSUME NEW session \in Session
  PROVE  Tells(ReplayLog(session), IF session.state \in Settled THEN Verdict(session) ELSE {})
<1> DEFINE start == <<Plain("start")>>
           e     == ToEvents(session)
<1>1. start \in Seq(Entry) /\ \A type \in Steps : ~Has(start, type)
  BY PlainType, OneEntry DEF EventTypes, Steps
<1>2. e \in Seq(Entry) /\ Tells(e, Verdict(session))
  BY ListsTell
<1>3. ReplayLog(session) = CASE session.state = "running" -> start
                             [] session.state \in Settled -> start \o e
                             [] OTHER -> <<>>
  BY DEF ReplayLog
<1> HIDE DEF start, e
<1>4. CASE session.state = "running"
  BY <1>1, <1>3, <1>4 DEF Settled, Tells
<1>5. CASE session.state \in Settled
  <2>1. ReplayLog(session) = start \o e
    BY <1>3, <1>5 DEF Settled
  <2>2. \A type : Has(start \o e, type) <=> Has(start, type) \/ Has(e, type)
    BY <1>1, <1>2, ConcatHas
  <2> QED
    BY <1>1, <1>2, <1>5, <2>1, <2>2 DEF Tells
<1>6. CASE session.state \notin Settled \cup {"running"}
  BY <1>3, <1>6, NoEntry DEF Tells
<1> QED
  BY <1>4, <1>5, <1>6

LEMMA ConnectionAgrees ==
  ASSUME AgreeInv, NEW c \in Clients, Connect(c) \/ Disconnect(c)
  PROVE  OneChild' /\ OncePrompted' /\ \A s \in Ids \ revived' : AgreedOn(s)'
<1> USE DEF AgreeInv
<1>1. /\ UNCHANGED <<sessions, runs, used, prompts, revived>>
      /\ sessions \in [Ids -> Session] /\ streams \in [Clients -> Handling]
  BY DEF Connect, Disconnect, LogInv, RunnerTypeOK
<1>2. OneChild' /\ OncePrompted'
  BY <1>1 DEF OneChild, OncePrompted
<1>3. PICK st \in {Subscribed, Closed} : streams' = [streams EXCEPT ![c] = st]
  BY DEF Connect, Disconnect
<1>4. ASSUME NEW s \in Ids \ revived' PROVE AgreedOn(s)'
  <2>1. AgreedOn(s)
    BY <1>1
  <2>2. streams'[c] = st /\ \A d \in Clients : d # c => streams'[d] = streams[d]
    BY <1>1, <1>3
  <2>3. CASE st = Closed
    <3>1. s \notin st.settled /\ st.log[s] = <<>>
      BY <2>3 DEF Closed
    <3>2. Tells(st.log[s], {})
      BY <3>1, NoEntry DEF Tells
    <3> QED
      BY <1>1, <2>1, <2>2, <3>1, <3>2 DEF AgreedOn
  <2>4. CASE st = Subscribed
    <3>1. /\ s \in st.settled <=> sessions[s].state \in Settled
          /\ st.log[s] = ReplayLog(sessions[s])
      BY <2>4 DEF Subscribed
    <3>2. /\ s \in st.settled => Tells(st.log[s], Verdict(sessions[s])) /\ prompts[s] > 0
          /\ s \notin st.settled => Tells(st.log[s], {})
      BY <1>1, <3>1, ReplayTells DEF OncePrompted
    <3>3. \A d \in Clients : s \in streams'[d].settled /\ sessions[s].state \in Settled =>
            Tells(streams'[d].log[s], Verdict(sessions[s]))
      BY <2>1, <2>2, <3>2 DEF AgreedOn
    <3>4. \A d \in Clients :
            /\ s \in streams'[d].settled =>
                 prompts[s] > 0 /\ sessions[s].state \in Settled \cup {"absent"}
            /\ s \notin streams'[d].settled => Tells(streams'[d].log[s], {})
      BY <2>1, <2>2, <3>1, <3>2 DEF AgreedOn
    <3>5. ASSUME NEW d \in Clients, NEW e \in Clients,
                 s \in streams'[d].settled \cap streams'[e].settled
          PROVE  \A type \in Steps : Has(streams'[d].log[s], type) <=> Has(streams'[e].log[s], type)
      <4>1. CASE sessions[s].state \in Settled
        BY <3>3, <3>5, <4>1 DEF Tells
      <4>2. CASE sessions[s].state \notin Settled
        BY <2>1, <2>2, <3>1, <3>5, <4>2 DEF AgreedOn
      <4> QED
        BY <4>1, <4>2
    <3> QED
      BY <1>1, <3>3, <3>4, <3>5 DEF AgreedOn
  <2> QED
    BY <1>3, <2>3, <2>4
<1> QED
  BY <1>2, <1>4

(* Nothing is left to disagree about when every connection is closed.      *)
LEMMA ClosedAgrees ==
  ASSUME streams = [c \in Clients |-> Closed], NEW s \in Ids PROVE AgreedOn(s)
<1>1. \A c \in Clients : s \notin streams[c].settled /\ streams[c].log[s] = <<>>
  BY DEF Closed
<1>2. Tells(<<>>, {})
  BY NoEntry DEF Tells
<1> QED
  BY <1>1, <1>2 DEF AgreedOn

LEMMA InitAgreeInv == Init => AgreeInv
<1> SUFFICES ASSUME Init PROVE AgreeInv
  OBVIOUS
<1>1. LogInv
  BY InitLogInv
<1>2. OneChild
  BY DEF Init, RunnerInit, NoProcess, OneChild
<1>3. OncePrompted
  BY DEF Init, RunnerInit, Absent, Settled, OncePrompted
<1>4. \A s \in Ids : AgreedOn(s)
  BY ClosedAgrees DEF Init
<1> QED
  BY <1>1, <1>2, <1>3, <1>4 DEF AgreeInv

LEMMA NextAgreeInv == ASSUME PromptedOnce, AgreeInv, [Next]_vars PROVE AgreeInv'
<1>1. LogInv'
  BY NextLogInv DEF AgreeInv
<1>2. ASSUME NEW id \in Ids, RequestSteps(id), Deliver PROVE AgreeInv'
  BY <1>1, <1>2, RequestAgrees DEF AgreeInv
<1>3. ASSUME NEW p \in Run, ChildSteps(p), Deliver PROVE AgreeInv'
  BY <1>1, <1>3, ChildAgrees DEF AgreeInv
<1>4. CASE ClockMoves /\ Deliver
  <2>1. UNCHANGED <<sessions, runs, used, prompts>> /\ wire' = <<>>
    BY <1>4 DEF ClockMoves
  <2>2. revived' = revived
    BY <1>4, <2>1 DEF Deliver, Revived, AgreeInv, OncePrompted
  <2>3. ASSUME NEW s \in Ids, NEW c \in Clients PROVE Same(streams[c], streams'[c], s)
    <3>1. \A i \in DOMAIN wire' : wire'[i].id = s /\ Speaks(wire'[i], {})
      BY <2>1
    <3> QED
      BY <1>4, <3>1, DeliverHeard DEF AgreeInv, Handler, Heard
  <2>4. OneChild' /\ OncePrompted'
    BY <2>1, <2>2 DEF AgreeInv, OneChild, OncePrompted
  <2>5. \A s \in Ids \ revived' : AgreedOn(s)'
    BY <2>1, <2>2, <2>3 DEF AgreeInv, AgreedOn, Same, Tells
  <2> QED
    BY <1>1, <2>4, <2>5 DEF AgreeInv
<1>5. ASSUME NEW c \in Clients, Connect(c) \/ Disconnect(c) PROVE AgreeInv'
  BY <1>1, <1>5, ConnectionAgrees DEF AgreeInv
<1>6. CASE DaemonRestart
  <2>1. /\ sessions' = [s \in Ids |-> Absent] /\ revived' = {}
        /\ streams' = [c \in Clients |-> Closed] /\ UNCHANGED <<used, prompts>>
        /\ \A s \in Ids : sessions'[s].state = "absent"
    BY <1>6 DEF DaemonRestart, Restart, Absent
  <2>2. \A p \in Run : /\ runs'[p].id = runs[p].id
                       /\ runs'[p].phase # "unused" => runs[p].phase # "unused"
                       /\ runs'[p].phase # "spawning"
    BY <1>6 DEF DaemonRestart, Restart, Open, AgreeInv, LogInv, RunnerTypeOK, Process
  <2>3. OneChild'
    <3>1. \A p \in Run : runs'[p].phase # "unused" => runs'[p].id \in Ids
      BY <1>1 DEF LogInv, RunsHaveIds
    <3> QED
      BY <2>1, <2>2, <3>1 DEF AgreeInv, OneChild, Settled
  <2>4. OncePrompted'
    BY <2>1 DEF AgreeInv, OncePrompted, Settled
  <2>5. \A s \in Ids \ revived' : AgreedOn(s)'
    <3>1. \A s \in Ids, c \in Clients : s \notin streams'[c].settled /\ streams'[c].log[s] = <<>>
      BY <2>1 DEF Closed
    <3>2. Tells(<<>>, {})
      BY NoEntry DEF Tells
    <3> QED
      BY <3>1, <3>2 DEF AgreedOn
  <2> QED
    BY <1>1, <2>3, <2>4, <2>5 DEF AgreeInv
<1>7. CASE UNCHANGED vars
  BY <1>1, <1>7 DEF vars, runnerVars, streamVars, AgreeInv, OneChild, OncePrompted, AgreedOn
<1> QED
  BY <1>2, <1>3, <1>4, <1>5, <1>6, <1>7 DEF Next, Handler, RequestSteps, ChildSteps

(* Two windows never disagree on how a session that was prompted once went *)
(* (server.ts:429-482, compat.ts:124-247), for any number of windows, if   *)
(* the CLI prints only frames, and none after its result.                  *)
THEOREM AccountsAgree == PromptedOnce => (Spec => []StreamsAgree)
<1> SUFFICES ASSUME PromptedOnce PROVE Spec => []StreamsAgree
  OBVIOUS
<1>1. AgreeInv /\ [Next]_vars => AgreeInv'
  BY NextAgreeInv
<1>2. ASSUME AgreeInv PROVE StreamsAgree
  <2> SUFFICES ASSUME NEW c \in Clients, NEW d \in Clients, NEW s \in Ids,
                      s \in streams[c].settled \cap streams[d].settled, s \notin revived
               PROVE  Outcome(streams[c].log[s]) = Outcome(streams[d].log[s])
    BY DEF StreamsAgree
  <2>1. \A type \in Steps : Has(streams[c].log[s], type) <=> Has(streams[d].log[s], type)
    BY <1>2 DEF AgreeInv, AgreedOn
  <2>2. \A l : Outcome(l) = {type \in Steps : Has(l, type)}
    BY DEF Outcome, Has, Steps
  <2> QED
    BY <2>1, <2>2
<1>3. AgreeInv => StreamsAgree
  BY <1>2
<1> QED
  BY <1>1, <1>3, InitAgreeInv, PTL DEF Spec

-----------------------------------------------------------------------------
(***************************************************************************)
(* What every connection tells of a session, for any number of             *)
(* connections, sessions, runs and prompts and whatever the CLI prints: the*)
(* outcome of its first settlement on that connection, and no other.       *)
(*                                                                         *)
(* A connection that has not noted a settlement has told no outcome        *)
(* (Untold) and one that has, has finalized the session (Story).  All that *)
(* the step that settles a session emits of it is that it runs, or the     *)
(* verdict on the record it leaves: the close handler may emit twice, but  *)
(* it never changes the verdict on a record that a last line has settled.  *)
(***************************************************************************)
Untold == \A c \in Clients, s \in Ids :
            s \notin streams[c].settled => Tells(streams[c].log[s], {})

FirstInv ==
  /\ LogInv
  /\ ToldInv
  /\ Untold
  /\ \A c \in Clients : ~streams[c].open => streams[c] = Closed

LEMMA ChildSettling ==
  ASSUME RunnerTypeOK, RunsHaveIds, NEW p \in Run, ChildSteps(p),
         sessions'[runs[p].id].state \in Settled
  PROVE  LET id == runs[p].id
         IN \A i \in DOMAIN wire' : /\ wire'[i].id = id
                                    /\ Speaks(wire'[i], {Verdict(sessions'[id])})
<1> DEFINE id == runs[p].id
           told == {Verdict(sessions'[id])}
<1>1. /\ id \in Ids /\ sessions \in [Ids -> Session] /\ StepContract(id)
  BY ChildContract DEF RunnerTypeOK
<1>2. \A i \in DOMAIN wire' : wire'[i].id = id
  BY <1>1, LenProperties DEF StepContract
<1>3. ASSUME Len(wire') # 2 PROVE \A i \in DOMAIN wire' : Speaks(wire'[i], told)
  <2>1. Len(wire') \in Nat /\ Len(wire') <= 2 /\ DOMAIN wire' = 1 .. Len(wire')
    BY <1>1, LenProperties DEF StepContract
  <2>2. Len(wire') = 0 \/ Len(wire') = 1
    BY <1>3, <2>1
  <2>3. CASE Len(wire') = 0
    BY <2>1, <2>3
  <2>4. CASE Len(wire') = 1
    <3>1. wire'[1].session = sessions'[id]
      <4>1. wire' # <<>>
        BY <2>4
      <4> QED
        BY <1>1, <2>4, <4>1 DEF StepContract
    <3> QED
      BY <2>1, <2>4, <3>1 DEF Speaks
  <2> QED
    BY <2>2, <2>3, <2>4
<1>4. ASSUME NEW clean \in BOOLEAN, NEW detail \in BOOLEAN, NEW kind \in LineKinds,
             CloseTrailing(p, kind, clean, detail), Len(wire') = 2
      PROVE  \A i \in DOMAIN wire' : Speaks(wire'[i], told)
  <2> DEFINE first == Dispatch(sessions, id, FrameOf(p, kind))
             last  == Finish(first.sessions, id, clean, detail)
  <2>1. sessions' = last.sessions /\ wire' = first.wire \o last.wire /\ MayPrint(p, kind)
    BY <1>4 DEF CloseTrailing
  <2>2. CallbackContract(sessions, id, first)
    BY <1>1, <2>1, FrameOfType, DispatchContract
  <2>3. first.sessions \in [Ids -> Session]
    BY <2>2 DEF CallbackContract
  <2>4. CallbackContract(first.sessions, id, last)
    BY <1>1, <2>3, FinishContract
  <2>5. Joined(first.wire, last.wire, wire')
    <3>1. Len(first.wire) \in {0, 1} /\ Len(last.wire) \in {0, 1}
      BY <2>2, <2>4, OneEmission
    <3> QED
      BY <2>1, <2>2, <2>4, <3>1, ShortConcat DEF CallbackContract
  <2>6. first.sessions[id].state # "idle"
    <3>1. first.sessions[id].state = "idle" => last = NoEffect(first.sessions)
      BY DEF Finish
    <3>2. first.sessions[id].state = "idle" => sessions'[id].state = "idle"
      BY <2>1, <3>1 DEF NoEffect
    <3> QED
      BY <3>2 DEF Settled
  <2>7. first.sessions[id].state \in Settled => Verdict(last.sessions[id]) = Verdict(first.sessions[id])
    BY <1>1, <2>3, <2>6, FinishVerdict
  <2>8. first.sessions[id].state # "absent"
    BY <1>1, <2>1, <2>4 DEF CallbackContract, Settled
  <2>9. first.sessions[id].state \in Settled \cup {"running"}
    BY <1>1, <2>3, <2>6, <2>8 DEF Session, Settled
  <2> HIDE DEF first, last
  <2>10. /\ Len(first.wire) = 1 /\ Len(last.wire) = 1
         /\ wire'[1] = first.wire[1] /\ wire'[2] = last.wire[1]
         /\ DOMAIN wire' = {1, 2}
    <3>1. /\ Len(first.wire) \in {0, 1} /\ Len(last.wire) \in {0, 1}
      BY <2>2, <2>4, OneEmission
    <3>2. wire' \in Seq(Emission)
      BY <1>1 DEF StepContract
    <3>3. DOMAIN wire' = {1, 2}
      BY <1>4, <3>2, LenProperties
    <3>4. wire' # first.wire /\ wire' # last.wire
      BY <1>4, <3>1
    <3> QED
      BY <2>5, <3>3, <3>4 DEF Joined
  <2>11. wire'[1].session = first.sessions[id] /\ wire'[2].session = last.sessions[id]
    <3>1. first.wire # <<>> /\ last.wire # <<>>
      BY <2>10
    <3> QED
      BY <2>2, <2>4, <2>10, <3>1 DEF CallbackContract
  <2> QED
    BY <2>1, <2>7, <2>9, <2>10, <2>11 DEF Speaks
<1>5. ASSUME NEW kind \in LineKinds, Stdout(p, kind) PROVE Len(wire') # 2
  <2>1. CallbackContract(sessions, id, Dispatch(sessions, id, FrameOf(p, kind)))
    BY <1>1, <1>5, FrameOfType, DispatchContract DEF Stdout
  <2> QED
    BY <1>5, <2>1, OneEmission DEF Stdout
<1>6. ASSUME SpawnError(p) PROVE Len(wire') # 2
  <2>1. CallbackContract(sessions, id, Fail(sessions, id))
    BY <1>1, FailContract
  <2> QED
    BY <1>6, <2>1, OneEmission DEF SpawnError
<1>7. ASSUME NEW clean \in BOOLEAN, NEW detail \in BOOLEAN, Close(p, clean, detail)
      PROVE  Len(wire') # 2
  <2>1. CallbackContract(sessions, id, Finish(sessions, id, clean, detail))
    BY <1>1, FinishContract
  <2> QED
    BY <1>7, <2>1, OneEmission DEF Close
<1> HIDE DEF id, told
<1>8. CASE Len(wire') = 2
  <2>1. PICK clean \in BOOLEAN, detail \in BOOLEAN, kind \in LineKinds :
          CloseTrailing(p, kind, clean, detail)
    BY <1>5, <1>6, <1>7, <1>8 DEF ChildSteps, Closes
  <2> QED
    BY <1>2, <1>4, <1>8, <2>1 DEF id, told
<1> QED
  BY <1>2, <1>3, <1>8 DEF id, told

(* Nothing is added to what a connection has finalized; and what it is not *)
(* told of for good stays untold.                                          *)
Steady(c, s) ==
  /\ s \in streams[c].settled => Same(streams[c], streams'[c], s)
  /\ s \notin streams'[c].settled => Same(streams[c], streams'[c], s)

(* What a step makes of the session, if it leaves it settled.              *)
FirstTold(c, s) ==
  streams'[c].open /\ sessions'[s].state \in Settled =>
    IF s \in streams[c].settled
    THEN Same(streams[c], streams'[c], s)
    ELSE Tells(streams'[c].log[s], Verdict(sessions'[s]))

LEMMA HandlerFirst ==
  ASSUME FirstInv, Handler, Deliver, ToldInv', NEW c \in Clients, NEW s \in Ids
  PROVE  Steady(c, s) /\ FirstTold(c, s)
<1>1. /\ LogInv /\ RunnerTypeOK /\ RunsHaveIds /\ streams[c].open = streams'[c].open
      /\ sessions \in [Ids -> Session]
  <2>1. LogInv /\ RunnerTypeOK /\ RunsHaveIds /\ sessions \in [Ids -> Session]
    BY DEF FirstInv, LogInv, RunnerTypeOK
  <2>2. wire' \in Seq(Emission) /\ Len(wire') <= 2
    BY <2>1, HandlerWire
  <2> QED
    BY <2>1, <2>2, DeliverNotes DEF FirstInv
<1>2. s \notin streams[c].settled => Tells(streams[c].log[s], {})
  BY DEF FirstInv, Untold
<1>3. streams[c].open /\ sessions[s].state \in Settled => s \in streams[c].settled
  BY DEF FirstInv, ToldInv, SettledIsNoted
<1>4. streams'[c].open /\ sessions'[s].state \in Settled => s \in streams'[c].settled
  BY DEF ToldInv, SettledIsNoted
<1>5. ASSUME Same(streams[c], streams'[c], s),
             sessions'[s].state \in Settled => sessions[s].state \in Settled
      PROVE  Steady(c, s) /\ FirstTold(c, s)
  BY <1>1, <1>3, <1>5 DEF Steady, FirstTold
<1>6. ASSUME NEW id \in Ids, RequestSteps(id) PROVE Steady(c, s) /\ FirstTold(c, s)
  <2>1. \A i \in DOMAIN wire' : wire'[i].id = id /\ Speaks(wire'[i], {})
    <3>1. CASE Prompt(id)
      <4>1. wire' = Emit(id, PromptObject(id), Synthetic)
        BY <3>1 DEF Prompt, PromptObject
      <4>2. PromptObject(id).state = "running"
        BY <1>1, <3>1, PromptType
      <4> QED
        BY <4>1, <4>2, EmitIs DEF Speaks
    <3>2. CASE Create(id) \/ Ensure(id) \/ Start(id)
      BY <3>2 DEF Create, Ensure, Start
    <3> QED
      BY <1>6, <3>1, <3>2 DEF RequestSteps
  <2>2. Same(streams[c], streams'[c], s)
    BY <1>1, <2>1, DeliverHeard DEF Heard
  <2>3. sessions'[s].state \in Settled => sessions[s].state \in Settled
    BY <1>1, <1>6, RequestContract DEF Settled
  <2> QED
    BY <1>5, <2>2, <2>3
<1>7. ASSUME NEW p \in Run, ChildSteps(p) PROVE Steady(c, s) /\ FirstTold(c, s)
  <2>1. PICK id \in Ids : id = runs[p].id
    BY <1>1, <1>7, ChildContract
  <2>2. /\ \A t \in Ids : t # id => sessions'[t] = sessions[t]
        /\ \A i \in DOMAIN wire' : wire'[i].id = id
    BY <1>1, <1>7, <2>1, ChildContract, LenProperties DEF StepContract
  <2>3. Heard(streams[c], streams'[c], id, SUBSET Steps)
    <3>1. \A i \in DOMAIN wire' : wire'[i].id = id /\ Speaks(wire'[i], SUBSET Steps)
      BY <2>2 DEF Speaks, Verdict
    <3> QED
      BY <1>1, <3>1, DeliverHeard
  <2>4. CASE s # id
    BY <1>5, <2>2, <2>3, <2>4 DEF Heard
  <2>5. CASE s = id
    <3>1. Steady(c, s)
      BY <2>3, <2>5 DEF Steady, Heard, Same
    <3>2. ASSUME streams'[c].open, sessions'[s].state \in Settled, s \notin streams[c].settled
          PROVE  Tells(streams'[c].log[s], Verdict(sessions'[s]))
      <4>1. \A i \in DOMAIN wire' : wire'[i].id = id /\ Speaks(wire'[i], {Verdict(sessions'[id])})
        BY <1>1, <1>7, <2>1, <2>5, <3>2, ChildSettling
      <4>2. Heard(streams[c], streams'[c], id, {Verdict(sessions'[id])})
        BY <1>1, <4>1, DeliverHeard
      <4>3. ~Same(streams[c], streams'[c], s)
        BY <1>4, <3>2 DEF Same
      <4> QED
        BY <1>2, <2>5, <3>2, <4>2, <4>3 DEF Heard, Tells
    <3>3. FirstTold(c, s)
      BY <3>1, <3>2 DEF FirstTold, Steady
    <3> QED
      BY <3>1, <3>3
  <2> QED
    BY <2>4, <2>5
<1>8. CASE ClockMoves
  <2>1. wire' = <<>> /\ sessions' = sessions
    BY <1>8 DEF ClockMoves
  <2>2. \A i \in DOMAIN wire' : wire'[i].id = s /\ Speaks(wire'[i], {})
    BY <2>1
  <2>3. Same(streams[c], streams'[c], s)
    BY <1>1, <2>2, DeliverHeard DEF Heard
  <2> QED
    BY <1>5, <2>1, <2>3
<1> QED
  BY <1>6, <1>7, <1>8 DEF Handler, RequestSteps, ChildSteps

LEMMA NextFirst ==
  ASSUME FirstInv, [Next]_vars
  PROVE  FirstInv' /\ \A c \in Clients, s \in Ids : FirstTold(c, s)
<1>1. LogInv' /\ ToldInv'
  BY NextLogInv, NextToldInv DEF FirstInv
<1>2. CASE Handler /\ Deliver
  <2>1. \A c \in Clients, s \in Ids : Steady(c, s) /\ FirstTold(c, s)
    BY <1>1, <1>2, HandlerFirst
  <2>2. Untold'
    BY <2>1 DEF Steady, Same, Tells, FirstInv, Untold
  <2>3. \A c \in Clients : ~streams'[c].open => streams'[c] = Closed
    <3>1. wire' \in Seq(Emission) /\ Len(wire') <= 2
      BY <1>2, HandlerWire DEF FirstInv, LogInv
    <3>2. \A c \in Clients : streams'[c].open = streams[c].open
      BY <1>2, <3>1, DeliverNotes DEF FirstInv
    <3>3. \A c \in Clients : ~streams[c].open => streams'[c] = streams[c]
      BY <1>2 DEF Deliver, Publish, Listening
    <3> QED
      BY <3>2, <3>3 DEF FirstInv
  <2> QED
    BY <1>1, <2>1, <2>2, <2>3 DEF FirstInv
<1>3. ASSUME NEW st \in {Subscribed, Closed}, NEW c \in Clients, UNCHANGED sessions,
             streams[c] = Closed \/ st = Closed,
             streams'[c] = st, \A d \in Clients : d # c => streams'[d] = streams[d]
      PROVE  FirstInv' /\ \A d \in Clients, s \in Ids : FirstTold(d, s)
  <2>1. /\ Subscribed.open /\ ~Closed.open
        /\ \A s \in Ids : s \notin Closed.settled /\ Closed.log[s] = <<>>
        /\ \A s \in Ids : /\ s \in Subscribed.settled <=> sessions[s].state \in Settled
                          /\ Subscribed.log[s] = ReplayLog(sessions[s])
    BY DEF Subscribed, Closed
  <2>2. \A s \in Ids : sessions[s] \in Session
    BY DEF FirstInv, LogInv, RunnerTypeOK
  <2>3. \A s \in Ids : Tells(Closed.log[s], {})
    BY <2>1, NoEntry DEF Tells
  <2>4. \A s \in Ids : Tells(Subscribed.log[s], IF s \in Subscribed.settled
                                                THEN Verdict(sessions[s]) ELSE {})
    BY <2>1, <2>2, ReplayTells
  <2>5. Untold'
    BY <1>3, <2>3, <2>4 DEF Untold, FirstInv
  <2>6. \A d \in Clients : ~streams'[d].open => streams'[d] = Closed
    BY <1>3, <2>1 DEF FirstInv
  <2>7. ASSUME NEW d \in Clients, NEW s \in Ids PROVE FirstTold(d, s)
    <3>1. CASE d # c
      BY <1>3, <3>1 DEF FirstTold, Same, FirstInv, ToldInv, SettledIsNoted
    <3>2. CASE d = c
      BY <1>3, <2>1, <2>4, <3>2 DEF FirstTold
    <3> QED
      BY <3>1, <3>2
  <2> QED
    BY <1>1, <2>5, <2>6, <2>7 DEF FirstInv
<1>4. ASSUME NEW c \in Clients, Connect(c) \/ Disconnect(c)
      PROVE  FirstInv' /\ \A d \in Clients, s \in Ids : FirstTold(d, s)
  <2>1. DOMAIN streams = Clients
    BY DEF FirstInv, ToldInv
  <2>2. CASE Connect(c)
    <3>1. /\ UNCHANGED sessions /\ streams[c] = Closed /\ streams'[c] = Subscribed
          /\ \A d \in Clients : d # c => streams'[d] = streams[d]
      BY <2>1, <2>2 DEF Connect, FirstInv
    <3> QED
      BY <1>3, <3>1
  <2>3. CASE Disconnect(c)
    <3>1. /\ UNCHANGED sessions /\ streams'[c] = Closed
          /\ \A d \in Clients : d # c => streams'[d] = streams[d]
      BY <2>1, <2>3 DEF Disconnect
    <3> QED
      BY <1>3, <3>1
  <2> QED
    BY <1>4, <2>2, <2>3
<1>5. CASE DaemonRestart
  <2>1. \A c \in Clients : streams'[c] = Closed
    BY <1>5 DEF DaemonRestart
  <2>2. ~Closed.open /\ \A s \in Ids : Closed.log[s] = <<>>
    BY DEF Closed
  <2>3. Untold' /\ \A c \in Clients, s \in Ids : FirstTold(c, s)
    BY <2>1, <2>2, NoEntry DEF Untold, Tells, FirstTold
  <2> QED
    BY <1>1, <2>1, <2>3 DEF FirstInv
<1>6. CASE UNCHANGED vars
  <2>1. sessions' = sessions /\ streams' = streams
    BY <1>6 DEF vars, runnerVars, streamVars
  <2> QED
    BY <1>1, <2>1
    DEF FirstInv, Untold, FirstTold, Same, ToldInv, SettledIsNoted
<1> QED
  BY <1>2, <1>4, <1>5, <1>6 DEF Next

(* Every open connection tells the outcome of a settled session in the step*)
(* that settles it or opens the connection, and sticks to the first outcome*)
(* it has told (server.ts:445-469), whoever prompts the session again and  *)
(* however the frames and the ends of its children are ordered.            *)
THEOREM FirstOutcomeTold == Spec => FirstOutcomeIsTold
<1>1. Init => FirstInv
  <2> SUFFICES ASSUME Init PROVE FirstInv
    OBVIOUS
  <2>1. \A c \in Clients : streams[c] = Closed
    BY DEF Init
  <2>2. \A s \in Ids : Closed.log[s] = <<>>
    BY DEF Closed
  <2> QED
    BY <2>1, <2>2, NoEntry, InitLogInv, InitToldInv DEF FirstInv, Untold, Tells
<1>2. FirstInv /\ [Next]_vars => FirstInv'
  BY NextFirst
<1>3. ASSUME FirstInv, FirstInv', [Next]_vars, NEW c \in Clients, NEW s \in Ids,
             streams'[c].open, sessions'[s].state \in Settled
      PROVE  /\ Finalized(streams'[c].log[s])
             /\ Outcome(streams'[c].log[s]) =
                  IF Finalized(streams[c].log[s]) THEN Outcome(streams[c].log[s])
                  ELSE Verdict(sessions'[s])
  <2>1. FirstTold(c, s)
    BY <1>3, NextFirst
  <2>2. \A l : /\ Finalized(l) <=> Has(l, "updated")
               /\ Outcome(l) = {type \in Steps : Has(l, type)}
    BY DEF Finalized, Outcome, Has, Steps
  <2>3. /\ Finalized(streams[c].log[s]) <=> s \in streams[c].settled
        /\ Finalized(streams'[c].log[s]) <=> s \in streams'[c].settled
    <3>1. Story(streams[c], s, sequence[s]) /\ Story(streams[c], s, sequence[s])'
      BY <1>3 DEF FirstInv, LogInv
    <3> QED
      BY <2>2, <3>1 DEF Story
  <2>4. s \in streams'[c].settled
    BY <1>3 DEF FirstInv, ToldInv, SettledIsNoted
  <2>5. Verdict(sessions'[s]) \subseteq Steps
    BY DEF Verdict
  <2>6. CASE s \in streams[c].settled
    BY <1>3, <2>1, <2>2, <2>3, <2>4, <2>6 DEF FirstTold, Same
  <2>7. CASE s \notin streams[c].settled
    BY <1>3, <2>1, <2>2, <2>3, <2>4, <2>5, <2>7 DEF FirstTold, Tells
  <2> QED
    BY <2>6, <2>7
<1>4. FirstInv /\ FirstInv' /\ [Next]_vars
        => [\A c \in Clients, s \in Ids :
              LET old == streams[c].log[s]
                  new == streams'[c].log[s]
              IN streams'[c].open /\ sessions'[s].state \in Settled =>
                   /\ Finalized(new)
                   /\ Outcome(new) = IF Finalized(old) THEN Outcome(old)
                                     ELSE Verdict(sessions'[s])]_vars
  BY <1>3
<1> QED
  BY <1>1, <1>2, <1>4, PTL DEF Spec, FirstOutcomeIsTold

-----------------------------------------------------------------------------
(* Stories grow at their end.                                              *)
Nothing == Plain("none")

End(l) == IF l = <<>> THEN Nothing ELSE l[Len(l)]

(* What MayAdd says of the last event of a story.                          *)
Follows(x, e) ==
  CASE x.type = "none"        -> e.type = "start"
    [] x.type = "start"       -> e.type \in {"textStarted", "stepEnded", "stepFailed", "updated"}
    [] x.type = "textStarted" -> e.type = "delta"
    [] x.type = "delta"       -> \/ e.type = "delta" /\ e.run = x.run /\ e.n = x.n + 1
                                 \/ e.type = "textEnded" /\ e.run = x.run
                                 \/ e.type \in {"stepFailed", "updated"}
    [] x.type = "textEnded"   -> e.type = "stepEnded"
    [] x.type = "stepEnded"   -> e.type = "updated"
    [] x.type = "stepFailed"  -> e.type = "updated"
    [] OTHER                  -> FALSE

LEMMA EndType ==
  ASSUME NEW l \in Seq(Entry)
  PROVE  /\ l = <<>> => End(l) = Nothing
         /\ l # <<>> => End(l) \in Entry /\ End(l) = l[Len(l)]
<1>1. Len(l) \in Nat /\ DOMAIN l = 1 .. Len(l)
  BY LenProperties
<1>2. ASSUME l # <<>> PROVE l[Len(l)] \in Entry
  <2>1. Len(l) \in 1 .. Len(l)
    BY <1>1, <1>2, EmptySeq
  <2> QED
    BY <2>1, ElementOfSeq
<1> QED
  BY <1>2 DEF End

LEMMA FollowsMayAdd ==
  ASSUME NEW l \in Seq(Entry), NEW e \in Entry, Follows(End(l), e) PROVE Feed!MayAdd(l, e)
<1>1. CASE l = <<>>
  BY <1>1 DEF Follows, End, Nothing, Plain, Feed!MayAdd
<1>2. CASE l # <<>>
  <2> DEFINE last == l[Len(l)]
  <2>1. End(l) = last /\ last \in Entry
    BY <1>2, EndType
  <2>2. Feed!MayAdd(l, e) <=>
          /\ e.type \in Feed!FollowedBy[last.type]
          /\ last.type = "delta" /\ e.type = "delta" => e.run = last.run /\ e.n = last.n + 1
          /\ last.type = "delta" /\ e.type = "textEnded" => e.run = last.run
    BY <1>2 DEF Feed!MayAdd
  <2> HIDE DEF last
  <2>3. last.type \in EventTypes
    BY <2>1 DEF Entry
  <2>4. /\ Feed!FollowedBy["start"] = {"textStarted", "stepEnded", "stepFailed", "updated"}
        /\ Feed!FollowedBy["textStarted"] = {"delta"}
        /\ Feed!FollowedBy["delta"] = {"delta", "textEnded", "stepFailed", "updated"}
        /\ Feed!FollowedBy["textEnded"] = {"stepEnded"}
        /\ Feed!FollowedBy["stepEnded"] = {"updated"}
        /\ Feed!FollowedBy["stepFailed"] = {"updated"}
    BY DEF Feed!FollowedBy
  <2> QED
    BY <2>1, <2>2, <2>3, <2>4 DEF Follows, EventTypes
<1> QED
  BY <1>1, <1>2

LEMMA SamePrefix ==
  ASSUME NEW m \in Seq(Entry), NEW n \in Seq(Entry), Len(m) <= Len(n),
         \A i \in 1 .. Len(m) : n[i] = m[i], NEW k \in 0 .. Len(m)
  PROVE  SubSeq(n, 1, k) = SubSeq(m, 1, k)
<1>1. Len(m) \in Nat /\ Len(n) \in Nat /\ k \in Nat
  BY LenProperties
<1>2. /\ \A i \in 1 .. k : m[i] \in Entry
      /\ \A i \in 1 .. k : n[i] \in Entry /\ n[i] = m[i]
  BY <1>1, ElementOfSeq
<1> DEFINE a == SubSeq(n, 1, k)
           b == SubSeq(m, 1, k)
<1>3. /\ a \in Seq(Entry) /\ Len(a) = (IF 1 <= k THEN k - 1 + 1 ELSE 0)
      /\ \A i \in 1 .. k - 1 + 1 : a[i] = n[1 + i - 1]
  BY <1>1, <1>2, SubSeqProperties
<1>4. /\ b \in Seq(Entry) /\ Len(b) = (IF 1 <= k THEN k - 1 + 1 ELSE 0)
      /\ \A i \in 1 .. k - 1 + 1 : b[i] = m[1 + i - 1]
  BY <1>1, <1>2, SubSeqProperties
<1> HIDE DEF a, b
<1>5. Len(a) = Len(b) /\ \A i \in 1 .. Len(a) : a[i] = b[i]
  BY <1>1, <1>2, <1>3, <1>4
<1>6. a = b
  BY <1>3, <1>4, <1>5, SeqEqual
<1> QED
  BY <1>6 DEF a, b

(* Continues, event by event.                                              *)
Grows(l, m) ==
  /\ m \in Seq(Entry) /\ Len(l) <= Len(m)
  /\ \A i \in 1 .. Len(l) : m[i] = l[i]
  /\ \A i \in (Len(l) + 1) .. Len(m) : Feed!MayAdd(SubSeq(m, 1, i - 1), m[i])

LEMMA GrowsContinues ==
  ASSUME NEW l \in Seq(Entry), NEW m, Grows(l, m) PROVE Feed!Continues(l, m)
<1>1. m \in Seq(Entry) /\ Len(l) \in Nat /\ Len(l) \in 0 .. Len(l)
  BY LenProperties DEF Grows
<1>2. SubSeq(m, 1, Len(l)) = SubSeq(l, 1, Len(l))
  BY <1>1, SamePrefix DEF Grows
<1>3. SubSeq(l, 1, Len(l)) = l
  BY SubSeqFull
<1> QED
  BY <1>2, <1>3 DEF Grows, Feed!Continues

LEMMA GrowsSelf == ASSUME NEW l \in Seq(Entry) PROVE Grows(l, l)
BY LenProperties DEF Grows

LEMMA GrowsOn ==
  ASSUME NEW l \in Seq(Entry), NEW m, NEW n, Grows(l, m), Grows(m, n) PROVE Grows(l, n)
<1>1. /\ m \in Seq(Entry) /\ n \in Seq(Entry)
      /\ Len(l) \in Nat /\ Len(m) \in Nat /\ Len(n) \in Nat
      /\ Len(l) <= Len(m) /\ Len(m) <= Len(n)
      /\ \A i \in 1 .. Len(m) : n[i] = m[i]
  BY LenProperties DEF Grows
<1>2. \A i \in 1 .. Len(l) : n[i] = l[i]
  BY <1>1 DEF Grows
<1>3. ASSUME NEW i \in (Len(l) + 1) .. Len(n) PROVE Feed!MayAdd(SubSeq(n, 1, i - 1), n[i])
  <2>1. CASE i <= Len(m)
    <3>1. i \in 1 .. Len(m) /\ i - 1 \in 0 .. Len(m) /\ i \in (Len(l) + 1) .. Len(m)
      BY <1>1, <2>1
    <3>2. n[i] = m[i] /\ SubSeq(n, 1, i - 1) = SubSeq(m, 1, i - 1)
      BY <1>1, <3>1, SamePrefix
    <3> QED
      BY <3>1, <3>2 DEF Grows
  <2>2. CASE i > Len(m)
    <3>1. i \in (Len(m) + 1) .. Len(n)
      BY <1>1, <2>2
    <3> QED
      BY <3>1 DEF Grows
  <2> QED
    BY <1>1, <2>1, <2>2
<1> QED
  BY <1>1, <1>2, <1>3 DEF Grows

LEMMA GrowsByOne ==
  ASSUME NEW l \in Seq(Entry), NEW e \in Entry, Follows(End(l), e)
  PROVE  Grows(l, l \o <<e>>) /\ End(l \o <<e>>) = e
<1> DEFINE m == l \o <<e>>
<1>1. /\ m \in Seq(Entry) /\ Len(l) \in Nat /\ Len(m) = Len(l) + 1
      /\ \A i \in 1 .. Len(l) : m[i] = l[i]
      /\ m[Len(l) + 1] = e
  <2>1. <<e>> \in Seq(Entry) /\ Len(<<e>>) = 1 /\ <<e>>[1] = e
    OBVIOUS
  <2>2. /\ m \in Seq(Entry) /\ Len(m) = Len(l) + Len(<<e>>) /\ Len(l) \in Nat
        /\ \A i \in 1 .. Len(l) + Len(<<e>>) :
             m[i] = IF i <= Len(l) THEN l[i] ELSE <<e>>[i - Len(l)]
    BY <2>1, ConcatProperties, LenProperties
  <2> HIDE DEF m
  <2> QED
    BY <2>1, <2>2
<1> HIDE DEF m
<1>2. SubSeq(m, 1, Len(l)) = l
  BY <1>1, SamePrefix, SubSeqFull
<1>3. Grows(l, m)
  <2>1. Feed!MayAdd(l, e)
    BY FollowsMayAdd
  <2>2. \A i \in (Len(l) + 1) .. Len(m) : i = Len(l) + 1 /\ i - 1 = Len(l)
    BY <1>1
  <2>3. Len(l) <= Len(m)
    BY <1>1
  <2>4. \A i \in (Len(l) + 1) .. Len(m) : Feed!MayAdd(SubSeq(m, 1, i - 1), m[i])
    BY <1>1, <1>2, <2>1, <2>2
  <2> QED
    BY <1>1, <2>3, <2>4 DEF Grows
<1>4. End(m) = e
  <2>1. m # <<>>
    BY <1>1
  <2> QED
    BY <1>1, <2>1 DEF End
<1> QED
  BY <1>3, <1>4 DEF m

(* A list of events that leads a story that ends in x to y.                *)
Path(x, e, y) ==
  /\ e \in Seq(Entry)
  /\ \A l \in Seq(Entry) : End(l) = x => Grows(l, l \o e) /\ End(l \o e) = y

LEMMA NoPath == ASSUME NEW x PROVE Path(x, <<>>, x)
BY ConcatEmptySeq, GrowsSelf, NoEntry DEF Path

LEMMA OnePath == ASSUME NEW x, NEW e \in Entry, Follows(x, e) PROVE Path(x, <<e>>, e)
BY OneEntry, GrowsByOne DEF Path

LEMMA JoinPaths ==
  ASSUME NEW x, NEW a, NEW y, NEW b, NEW z, Path(x, a, y), Path(y, b, z) PROVE Path(x, a \o b, z)
<1>1. a \in Seq(Entry) /\ b \in Seq(Entry) /\ a \o b \in Seq(Entry)
  BY ConcatProperties DEF Path
<1>2. ASSUME NEW l \in Seq(Entry), End(l) = x PROVE Grows(l, l \o (a \o b)) /\ End(l \o (a \o b)) = z
  <2>1. Grows(l, l \o a) /\ End(l \o a) = y /\ l \o a \in Seq(Entry)
    BY <1>1, <1>2, ConcatProperties DEF Path
  <2>2. Grows(l \o a, (l \o a) \o b) /\ End((l \o a) \o b) = z
    BY <2>1 DEF Path
  <2>3. (l \o a) \o b = l \o (a \o b)
    BY <1>1, ConcatAssociative
  <2> QED
    BY <2>1, <2>2, <2>3, GrowsOn
<1> QED
  BY <1>1, <1>2 DEF Path

-----------------------------------------------------------------------------
(* The lists of compat.ts are well-formed.  A record with a text is done   *)
(* and without an error, or failed.                                        *)
Sober(r) == r.final # 0 => r.state = "error" \/ (r.state = "done" /\ r.error = "none")

LEMMA SoberVerdict ==
  ASSUME NEW r \in Session, Sober(r) PROVE ~Replied(r) \/ ~Failed(r)
BY DEF Sober, Replied, Failed

LEMMA OnlyList ==
  ASSUME NEW e
  PROVE  Only(TRUE, e) = e /\ Only(FALSE, e) = <<>>
BY DEF Only

LEMMA PlainEntry ==
  /\ \A type \in EventTypes : Plain(type) \in Entry /\ Plain(type).type = type
  /\ \A type \in EventTypes, run \in 0 .. MaxRuns :
       Text(type, run) \in Entry /\ Text(type, run).type = type /\ Text(type, run).run = run
BY PlainType, TextType DEF Text

(* From what ends a turn, through the verdict, to the update.              *)
LEMMA ClosingPath ==
  ASSUME NEW x, x.type \in {"start", "textEnded", "delta"}, NEW r \in Session, Sober(r),
         x.type = "textEnded" => Replied(r), x.type = "delta" => ~Replied(r)
  PROVE  Path(x, (Only(Replied(r), <<Plain("stepEnded")>>) \o Only(Failed(r), <<Plain("stepFailed")>>))
                 \o <<Plain("updated")>>, Plain("updated"))
<1> DEFINE d == Plain("stepEnded")
           f == Plain("stepFailed")
           u == Plain("updated")
<1>1. d \in Entry /\ f \in Entry /\ u \in Entry
      /\ d.type = "stepEnded" /\ f.type = "stepFailed" /\ u.type = "updated"
  BY PlainEntry DEF EventTypes
<1> HIDE DEF d, f, u
<1>2. Replied(r) \in BOOLEAN /\ Failed(r) \in BOOLEAN
  BY DEF Replied, Failed
<1>3. CASE Replied(r)
  <2>1. Only(Replied(r), <<d>>) = <<d>> /\ Only(Failed(r), <<f>>) = <<>>
    BY <1>3, SoberVerdict DEF Only
  <2>2. Path(x, <<d>>, d) /\ Path(d, <<>>, d) /\ Path(d, <<u>>, u)
    BY <1>1, <1>3, OnePath, NoPath DEF Follows
  <2>3. Path(x, <<d>> \o <<>>, d)
    BY <2>2, JoinPaths
  <2>4. Path(x, (<<d>> \o <<>>) \o <<u>>, u)
    BY <2>2, <2>3, JoinPaths
  <2> QED
    BY <2>1, <2>4 DEF d, f, u
<1>4. CASE ~Replied(r) /\ Failed(r)
  <2>1. Only(Replied(r), <<d>>) = <<>> /\ Only(Failed(r), <<f>>) = <<f>>
    BY <1>4 DEF Only
  <2>2. Path(x, <<>>, x) /\ Path(x, <<f>>, f) /\ Path(f, <<u>>, u)
    BY <1>1, <1>4, OnePath, NoPath DEF Follows
  <2>3. Path(x, <<>> \o <<f>>, f)
    BY <2>2, JoinPaths
  <2>4. Path(x, (<<>> \o <<f>>) \o <<u>>, u)
    BY <2>2, <2>3, JoinPaths
  <2> QED
    BY <2>1, <2>4 DEF d, f, u
<1>5. CASE ~Replied(r) /\ ~Failed(r)
  <2>1. Only(Replied(r), <<d>>) = <<>> /\ Only(Failed(r), <<f>>) = <<>>
    BY <1>5 DEF Only
  <2>2. Path(x, <<>>, x) /\ Path(x, <<u>>, u)
    BY <1>1, <1>5, OnePath, NoPath DEF Follows
  <2>3. Path(x, <<>> \o <<>>, x)
    BY <2>2, JoinPaths
  <2>4. Path(x, (<<>> \o <<>>) \o <<u>>, u)
    BY <2>2, <2>3, JoinPaths
  <2> QED
    BY <2>1, <2>4 DEF d, f, u
<1> QED
  BY <1>3, <1>4, <1>5

LEMMA StreamEndPath ==
  ASSUME NEW r \in Session, Sober(r), NEW streamed \in BOOLEAN, NEW x,
         x.type = IF streamed THEN "delta" ELSE "start",
         streamed /\ Replied(r) => x.run = r.final
  PROVE  Path(x, ToStreamEndEvents(r, streamed), Plain("updated"))
<1> DEFINE text   == Only(streamed /\ Replied(r), <<Text("textEnded", r.final)>>)
           step   == Only(Replied(r), <<Plain("stepEnded")>>)
           fail   == Only(Failed(r), <<Plain("stepFailed")>>)
           update == <<Plain("updated")>>
           t      == Text("textEnded", r.final)
<1>1. r.final \in 0 .. MaxRuns
  BY RunnerAssumption DEF Session
<1>2. t \in Entry /\ t.type = "textEnded" /\ t.run = r.final
  BY <1>1, PlainEntry DEF EventTypes
<1>3. /\ text \in Seq(Entry) /\ step \in Seq(Entry) /\ fail \in Seq(Entry) /\ update \in Seq(Entry)
      /\ step \o fail \in Seq(Entry)
  <2>1. /\ <<t>> \in Seq(Entry) /\ <<Plain("stepEnded")>> \in Seq(Entry)
        /\ <<Plain("stepFailed")>> \in Seq(Entry) /\ update \in Seq(Entry)
    BY <1>2, PlainEntry, OneEntry DEF EventTypes
  <2>2. text \in Seq(Entry) /\ step \in Seq(Entry) /\ fail \in Seq(Entry)
    BY <2>1, NoEntry DEF Only
  <2> QED
    BY <2>1, <2>2, ConcatProperties
<1>4. ToStreamEndEvents(r, streamed) = text \o ((step \o fail) \o update)
  <2>1. ToStreamEndEvents(r, streamed) = ((text \o step) \o fail) \o update
    BY DEF ToStreamEndEvents
  <2>2. (text \o step) \o fail = text \o (step \o fail)
    BY <1>3, ConcatAssociative
  <2>3. (text \o (step \o fail)) \o update = text \o ((step \o fail) \o update)
    BY <1>3, ConcatAssociative
  <2> QED
    BY <2>1, <2>2, <2>3
<1>5. CASE streamed /\ Replied(r)
  <2>1. text = <<t>>
    BY <1>5 DEF Only
  <2>2. Path(x, text, t)
    BY <1>2, <1>5, <2>1, OnePath DEF Follows
  <2>3. ASSUME NEW y, y.type = "textEnded" PROVE Path(y, (step \o fail) \o update, Plain("updated"))
    <3>1. /\ y.type \in {"start", "textEnded", "delta"}
          /\ y.type = "textEnded" => Replied(r)
          /\ y.type = "delta" => ~Replied(r)
      BY <1>5, <2>3
    <3> QED
      BY <3>1, ClosingPath
  <2> QED
    BY <1>2, <1>4, <2>2, <2>3, JoinPaths
<1>6. CASE ~(streamed /\ Replied(r))
  <2>1. text = <<>>
    BY <1>6 DEF Only
  <2>2. Path(x, text, x)
    BY <2>1, NoPath
  <2>3. Path(x, (step \o fail) \o update, Plain("updated"))
    BY <1>6, ClosingPath
  <2> QED
    BY <1>4, <2>2, <2>3, JoinPaths
<1> QED
  BY <1>5, <1>6

LEMMA TwoInARow ==
  ASSUME NEW a \in Entry, NEW b \in Entry PROVE <<a>> \o <<b>> = <<a, b>>
<1>1. /\ <<a>> \in Seq(Entry) /\ Len(<<a>>) = 1 /\ <<b>> \in Seq(Entry) /\ Len(<<b>>) = 1
      /\ <<a, b>> \in Seq(Entry) /\ Len(<<a, b>>) = 2
  OBVIOUS
<1> DEFINE ab == <<a>> \o <<b>>
<1>2. ab \in Seq(Entry) /\ Len(ab) = 2 /\ ab[1] = a /\ ab[2] = b
  BY <1>1, ConcatProperties
<1> HIDE DEF ab
<1>3. \A i \in 1 .. 2 : ab[i] = <<a, b>>[i]
  BY <1>2
<1> QED
  BY <1>1, <1>2, <1>3, SeqEqual DEF ab

LEMMA FourInARow ==
  ASSUME NEW a \in Entry, NEW b \in Entry, NEW c \in Entry, NEW d \in Entry
  PROVE  ((<<a>> \o <<b>>) \o <<c>>) \o <<d>> = <<a, b, c, d>>
<1> DEFINE ab  == <<a>> \o <<b>>
           abc == ab \o <<c>>
           all == abc \o <<d>>
<1>1. \A e \in Entry : <<e>> \in Seq(Entry) /\ Len(<<e>>) = 1 /\ <<e>>[1] = e
  OBVIOUS
<1>2. ASSUME NEW l \in Seq(Entry), NEW e \in Entry
      PROVE  /\ l \o <<e>> \in Seq(Entry) /\ Len(l \o <<e>>) = Len(l) + 1 /\ Len(l) \in Nat
             /\ \A i \in 1 .. Len(l) : (l \o <<e>>)[i] = l[i]
             /\ (l \o <<e>>)[Len(l) + 1] = e
  BY <1>1, ConcatProperties, LenProperties
<1>3. ab \in Seq(Entry) /\ Len(ab) = 2 /\ ab[1] = a /\ ab[2] = b
  BY <1>1, <1>2
<1> HIDE DEF ab
<1>4. abc \in Seq(Entry) /\ Len(abc) = 3 /\ abc[1] = a /\ abc[2] = b /\ abc[3] = c
  <2>1. Len(ab) + 1 = 3 /\ 1 \in 1 .. Len(ab) /\ 2 \in 1 .. Len(ab)
    BY <1>3
  <2>2. /\ abc \in Seq(Entry) /\ Len(abc) = Len(ab) + 1
        /\ \A i \in 1 .. Len(ab) : abc[i] = ab[i]
        /\ abc[Len(ab) + 1] = c
    BY <1>2, <1>3
  <2> HIDE DEF abc
  <2> QED
    BY <1>3, <2>1, <2>2
<1> HIDE DEF abc
<1>5. /\ all \in Seq(Entry) /\ Len(all) = 4
      /\ all[1] = a /\ all[2] = b /\ all[3] = c /\ all[4] = d
  <2>1. Len(abc) + 1 = 4 /\ 1 \in 1 .. Len(abc) /\ 2 \in 1 .. Len(abc) /\ 3 \in 1 .. Len(abc)
    BY <1>4
  <2>2. /\ all \in Seq(Entry) /\ Len(all) = Len(abc) + 1
        /\ \A i \in 1 .. Len(abc) : all[i] = abc[i]
        /\ all[Len(abc) + 1] = d
    BY <1>2, <1>4
  <2> HIDE DEF all
  <2> QED
    BY <1>4, <2>1, <2>2
<1> HIDE DEF all
<1>6. /\ <<a, b, c, d>> \in Seq(Entry) /\ Len(<<a, b, c, d>>) = 4
      /\ \A i \in 1 .. 4 : all[i] = <<a, b, c, d>>[i]
  BY <1>5
<1>7. all = <<a, b, c, d>>
  BY <1>5, <1>6, SeqEqual
<1> QED
  BY <1>7 DEF all, abc, ab

LEMMA EventsPath ==
  ASSUME NEW r \in Session, Sober(r), NEW x, x.type = "start"
  PROVE  Path(x, ToEvents(r), Plain("updated"))
<1> DEFINE a == Plain("textStarted")
           b == Text("delta", r.final)
           c == Text("textEnded", r.final)
           d == Plain("stepEnded")
           u == Plain("updated")
           fail == Only(Failed(r), <<Plain("stepFailed")>>)
<1>1. r.final \in 0 .. MaxRuns
  BY RunnerAssumption DEF Session
<1>2. /\ a \in Entry /\ b \in Entry /\ c \in Entry /\ d \in Entry /\ u \in Entry
      /\ a.type = "textStarted" /\ b.type = "delta" /\ b.run = r.final
      /\ c.type = "textEnded" /\ c.run = r.final
      /\ d.type = "stepEnded" /\ u.type = "updated"
  BY <1>1, PlainEntry DEF EventTypes
<1>3. ToEvents(r) = (Only(Replied(r), <<a, b, c, d>>) \o fail) \o <<u>>
  BY DEF ToEvents
<1>4. CASE Replied(r)
  <2>1. Only(Replied(r), <<a, b, c, d>>) = <<a, b, c, d>> /\ fail = <<>>
    BY <1>4, SoberVerdict DEF Only
  <2> HIDE DEF a, b, c, d, u, fail
  <2>2. /\ Path(x, <<a>>, a) /\ Path(a, <<b>>, b) /\ Path(b, <<c>>, c) /\ Path(c, <<d>>, d)
        /\ Path(d, <<>>, d) /\ Path(d, <<u>>, u)
    BY <1>2, OnePath, NoPath DEF Follows
  <2>3. Path(x, <<a>> \o <<b>>, b)
    BY <2>2, JoinPaths
  <2>4. Path(x, (<<a>> \o <<b>>) \o <<c>>, c)
    BY <2>2, <2>3, JoinPaths
  <2>5. Path(x, ((<<a>> \o <<b>>) \o <<c>>) \o <<d>>, d)
    BY <2>2, <2>4, JoinPaths
  <2>6. ((<<a>> \o <<b>>) \o <<c>>) \o <<d>> = <<a, b, c, d>>
    BY <1>2, FourInARow
  <2>7. Path(x, <<a, b, c, d>> \o <<>>, d)
    BY <2>2, <2>5, <2>6, JoinPaths
  <2>8. Path(x, (<<a, b, c, d>> \o <<>>) \o <<u>>, u)
    BY <2>2, <2>7, JoinPaths
  <2> QED
    BY <1>3, <2>1, <2>8 DEF u
<1>5. CASE ~Replied(r)
  <2>1. Only(Replied(r), <<a, b, c, d>>) = <<>> /\ Only(Replied(r), <<d>>) = <<>>
    BY <1>5 DEF Only
  <2>2. Path(x, (Only(Replied(r), <<d>>) \o fail) \o <<u>>, u)
    BY <1>5, ClosingPath
  <2> QED
    BY <1>3, <2>1, <2>2
<1> QED
  BY <1>4, <1>5

-----------------------------------------------------------------------------
(* Where a connection is in the story of s, whose text is that of run p.   *)
Chapter(st, s, p) ==
  LET x == End(st.log[s])
  IN /\ s \notin st.started =>
          st.log[s] = <<>> /\ s \notin st.textStarted /\ s \notin st.settled
     /\ s \in st.started \ (st.textStarted \cup st.settled) => x.type = "start"
     /\ s \in st.textStarted \ st.settled => x \in Entry /\ x.type = "delta" /\ x.run = p

(* Connection u has gone on with the story of id only.                     *)
GoesOn(st, u, id) ==
  /\ st \in Handling /\ u \in Handling /\ u.open = st.open
  /\ \A s \in Ids \ {id} :
       /\ u.log[s] = st.log[s]
       /\ s \in u.started <=> s \in st.started
       /\ s \in u.textStarted <=> s \in st.textStarted
       /\ s \in u.settled <=> s \in st.settled
  /\ Grows(st.log[id], u.log[id])

LEMMA LogType == ASSUME NEW st \in Handling, NEW s \in Ids PROVE st.log[s] \in Seq(Entry)
BY DEF Handling

LEMMA GoesOnSelf == ASSUME NEW st \in Handling, NEW id \in Ids PROVE GoesOn(st, st, id)
BY LogType, GrowsSelf DEF GoesOn

LEMMA GoesOnTwice ==
  ASSUME NEW st, NEW u, NEW v, NEW id \in Ids, GoesOn(st, u, id), GoesOn(u, v, id)
  PROVE  GoesOn(st, v, id)
<1>1. Grows(st.log[id], v.log[id])
  BY LogType, GrowsOn DEF GoesOn
<1> QED
  BY <1>1 DEF GoesOn

(* A note in the handler's sets about id, then events.                     *)
LEMMA WriteGoesOn ==
  ASSUME NEW st \in Handling, NEW n \in Handling, NEW id \in Ids,
         n.open = st.open, n.log = st.log,
         n.started \in {st.started, st.started \cup {id}},
         n.textStarted \in {st.textStarted, st.textStarted \cup {id}},
         n.settled \in {st.settled, st.settled \cup {id}},
         NEW e, NEW y, Path(End(st.log[id]), e, y)
  PROVE  LET u == Send(n, id, e)
         IN /\ GoesOn(st, u, id) /\ End(u.log[id]) = y
            /\ u.started = n.started /\ u.textStarted = n.textStarted /\ u.settled = n.settled
<1> DEFINE u   == Send(n, id, e)
           log == [n.log EXCEPT ![id] = n.log[id] \o e]
<1>1. n.log \in [Ids -> Seq(Entry)] /\ e \in Seq(Entry) /\ n.log[id] \in Seq(Entry)
  BY DEF Handling, Path
<1>2. /\ log \in [Ids -> Seq(Entry)] /\ log[id] = n.log[id] \o e
      /\ \A s \in Ids : s # id => log[s] = n.log[s]
  BY <1>1, ConcatEntries
<1>3. u = [n EXCEPT !.log = log]
  BY DEF Send
<1> HIDE DEF log
<1>4. /\ u \in Handling /\ u.log = log /\ u.open = n.open /\ u.started = n.started
      /\ u.textStarted = n.textStarted /\ u.settled = n.settled
  BY <1>2, <1>3 DEF Handling
<1> HIDE DEF u
<1>5. Grows(st.log[id], u.log[id]) /\ End(u.log[id]) = y
  BY <1>1, <1>2, <1>4 DEF Path
<1>6. GoesOn(st, u, id)
  BY <1>2, <1>4, <1>5 DEF GoesOn
<1> QED
  BY <1>4, <1>5, <1>6 DEF u

LEMMA NotingFields ==
  ASSUME NEW st \in Handling, NEW id \in Ids
  PROVE  /\ [st EXCEPT !.started = @ \cup {id}].open = st.open
         /\ [st EXCEPT !.started = @ \cup {id}].textStarted = st.textStarted
         /\ [st EXCEPT !.textStarted = @ \cup {id}].open = st.open
         /\ [st EXCEPT !.textStarted = @ \cup {id}].textStarted = st.textStarted \cup {id}
         /\ [st EXCEPT !.settled = @ \cup {id}].open = st.open
         /\ [st EXCEPT !.settled = @ \cup {id}].textStarted = st.textStarted
BY DEF Handling

LEMMA EmitStartGoesOn ==
  ASSUME NEW st \in Handling, NEW id \in Ids, NEW p, Chapter(st, id, p)
  PROVE  LET u == EmitStart(st, id)
         IN /\ GoesOn(st, u, id) /\ Chapter(u, id, p)
            /\ id \in u.started /\ u.textStarted = st.textStarted /\ u.settled = st.settled
            /\ id \in st.textStarted => u.log[id] = st.log[id]
<1>1. CASE id \in st.started
  BY <1>1, GoesOnSelf DEF EmitStart
<1>2. CASE id \notin st.started
  <2> DEFINE n == [st EXCEPT !.started = @ \cup {id}]
             b == Plain("start")
             u == Send(n, id, <<b>>)
  <2>1. EmitStart(st, id) = u
    BY <1>2 DEF EmitStart
  <2>2. /\ n \in Handling /\ n.open = st.open /\ n.log = st.log
        /\ n.started = st.started \cup {id} /\ n.textStarted = st.textStarted
        /\ n.settled = st.settled
    BY NotingShape, NotingFields
  <2>3. b \in Entry /\ b.type = "start"
    BY PlainEntry DEF EventTypes
  <2>4. st.log[id] = <<>> /\ id \notin st.textStarted /\ id \notin st.settled
    BY <1>2 DEF Chapter
  <2>5. Path(End(st.log[id]), <<b>>, b)
    <3>1. Follows(Nothing, b)
      BY <2>3 DEF Follows, Nothing, Plain
    <3> QED
      BY <2>3, <2>4, <3>1, OnePath DEF End
  <2> HIDE DEF n, b
  <2>6. /\ GoesOn(st, u, id) /\ End(u.log[id]) = b
        /\ u.started = n.started /\ u.textStarted = n.textStarted /\ u.settled = n.settled
    BY <2>2, <2>5, WriteGoesOn
  <2> HIDE DEF u
  <2>7. Chapter(u, id, p)
    BY <2>2, <2>3, <2>4, <2>6 DEF Chapter
  <2> QED
    BY <2>1, <2>2, <2>4, <2>6, <2>7
<1> QED
  BY <1>1, <1>2

LEMMA StreamDeltaGoesOn ==
  ASSUME NEW st \in Handling, NEW id \in Ids, NEW frame \in Frame, NEW seq \in Nat,
         Chapter(st, id, frame.run), id \in st.started, id \notin st.settled,
         id \in st.textStarted => frame.n = End(st.log[id]).n + 1
  PROVE  LET u == StreamDelta(st, id, frame, seq)
         IN /\ GoesOn(st, u, id) /\ Chapter(u, id, frame.run)
            /\ id \in u.started /\ id \in u.textStarted /\ u.settled = st.settled
            /\ End(u.log[id]).n = frame.n
<1> DEFINE d == [type |-> "delta", run |-> frame.run, n |-> frame.n, seq |-> seq]
           b == Plain("textStarted")
           n == [st EXCEPT !.textStarted = @ \cup {id}]
           u == StreamDelta(st, id, frame, seq)
           x == End(st.log[id])
<1>1. d \in Entry /\ d.type = "delta" /\ d.run = frame.run /\ d.n = frame.n
  <2>1. frame.run \in 0 .. MaxRuns /\ frame.n \in 0 .. MaxDeltas
    BY RunnerAssumption DEF Frame
  <2> QED
    BY <2>1 DEF Entry, EventTypes
<1>2. b \in Entry /\ b.type = "textStarted"
  BY PlainEntry DEF EventTypes
<1>3. /\ n \in Handling /\ n.open = st.open /\ n.log = st.log /\ n.started = st.started
      /\ n.textStarted = st.textStarted \cup {id} /\ n.settled = st.settled
  BY NotingShape, NotingFields
<1>4. u = IF id \in st.textStarted THEN Send(st, id, <<d>>) ELSE Send(n, id, <<b, d>>)
  BY DEF StreamDelta
<1> HIDE DEF d, b, n, u
<1>5. /\ GoesOn(st, u, id) /\ End(u.log[id]) = d
      /\ id \in u.started /\ id \in u.textStarted /\ u.settled = st.settled
  <2>1. CASE id \in st.textStarted
    <3>1. x.type = "delta" /\ x.run = frame.run
      BY <2>1 DEF Chapter
    <3>2. Path(x, <<d>>, d)
      BY <1>1, <2>1, <3>1, OnePath DEF Follows
    <3> QED
      BY <1>4, <2>1, <3>2, WriteGoesOn
  <2>2. CASE id \notin st.textStarted
    <3>1. x.type = "start"
      BY <2>2 DEF Chapter
    <3>2. Path(x, <<b>>, b) /\ Path(b, <<d>>, d)
      BY <1>1, <1>2, <3>1, OnePath DEF Follows
    <3>3. Path(x, <<b>> \o <<d>>, d)
      BY <3>2, JoinPaths
    <3>4. <<b>> \o <<d>> = <<b, d>>
      BY <1>1, <1>2, TwoInARow
    <3>5. Path(End(st.log[id]), <<b, d>>, d)
      BY <3>3, <3>4 DEF x
    <3>6. LET v == Send(n, id, <<b, d>>)
          IN /\ GoesOn(st, v, id) /\ End(v.log[id]) = d
             /\ v.started = n.started /\ v.textStarted = n.textStarted /\ v.settled = n.settled
      BY <1>3, <3>5, WriteGoesOn
    <3>7. u = Send(n, id, <<b, d>>)
      BY <1>4, <2>2
    <3> QED
      BY <1>3, <3>6, <3>7
  <2> QED
    BY <2>1, <2>2
<1>6. Chapter(u, id, frame.run)
  BY <1>1, <1>5 DEF Chapter
<1> QED
  BY <1>1, <1>5, <1>6 DEF u

LEMMA SettleGoesOn ==
  ASSUME NEW st \in Handling, NEW id \in Ids, NEW p, Chapter(st, id, p), id \notin st.settled,
         NEW r \in Session, Sober(r), r.final \in {0, p}
  PROVE  LET u == Settle(st, id, ToStreamEndEvents(r, id \in st.textStarted))
         IN GoesOn(st, u, id) /\ Chapter(u, id, p) /\ id \in u.started /\ id \in u.settled
<1> DEFINE before == EmitStart(st, id)
           n      == [before EXCEPT !.settled = @ \cup {id}]
           e      == ToStreamEndEvents(r, id \in st.textStarted)
           u      == Send(n, id, e)
           x      == End(before.log[id])
<1>1. Settle(st, id, e) = u
  BY DEF Settle
<1>2. /\ GoesOn(st, before, id) /\ Chapter(before, id, p)
      /\ id \in before.started /\ before.textStarted = st.textStarted
      /\ before.settled = st.settled
  BY EmitStartGoesOn
<1> HIDE DEF before
<1>3. before \in Handling
  BY <1>2 DEF GoesOn
<1>4. /\ n \in Handling /\ n.open = before.open /\ n.log = before.log
      /\ n.started = before.started /\ n.textStarted = before.textStarted
      /\ n.settled = before.settled \cup {id}
  BY <1>3, NotingShape, NotingFields
<1> HIDE DEF n
<1>5. Path(x, e, Plain("updated"))
  <2>1. x.type = IF id \in st.textStarted THEN "delta" ELSE "start"
    BY <1>2 DEF Chapter
  <2>2. id \in st.textStarted /\ Replied(r) => x.run = r.final
    BY <1>2 DEF Chapter, Replied
  <2>3. (id \in st.textStarted) \in BOOLEAN
    OBVIOUS
  <2> HIDE DEF x
  <2> QED
    BY <2>1, <2>2, <2>3, StreamEndPath
<1> HIDE DEF e
<1>6. /\ GoesOn(before, u, id)
      /\ u.started = n.started /\ u.textStarted = n.textStarted /\ u.settled = n.settled
  BY <1>3, <1>4, <1>5, WriteGoesOn
<1> HIDE DEF u
<1>7. GoesOn(st, u, id)
  BY <1>2, <1>6, GoesOnTwice
<1>8. Chapter(u, id, p)
  BY <1>2, <1>4, <1>6 DEF Chapter
<1> QED
  BY <1>1, <1>2, <1>4, <1>6, <1>7, <1>8 DEF e

(* What the listener makes of an emission that fits the story.             *)
LEMMA ReceiveGoesOn ==
  ASSUME NEW st \in Handling, NEW m \in Emission, NEW seq \in Nat, NEW p, Chapter(st, m.id, p),
         Sober(m.session), m.session.final \in {0, p},
         m.session.state = "running" => m.id \notin st.settled,
         Numbers(m) => m.frame.run = p,
         Numbers(m) /\ m.id \in st.textStarted => m.frame.n = End(st.log[m.id]).n + 1
  PROVE  LET u  == Receive(st, m, seq)
             id == m.id
         IN /\ GoesOn(st, u, id) /\ Chapter(u, id, p) /\ id \in u.started
            /\ IF m.session.state = "running" THEN u.settled = st.settled ELSE id \in u.settled
            /\ Numbers(m) => id \in u.textStarted /\ End(u.log[id]).n = m.frame.n
            /\ m.session.state = "running" /\ ~Numbers(m) =>
                 /\ u.textStarted = st.textStarted
                 /\ id \in st.textStarted => u.log[id] = st.log[id]
<1> DEFINE u  == Receive(st, m, seq)
           id == m.id
<1>1. id \in Ids /\ m.session \in Session /\ m.frame \in Frame
  BY DEF Emission
<1>2. CASE m.session.state = "running"
  <2> DEFINE v == EmitStart(st, id)
  <2>1. /\ GoesOn(st, v, id) /\ Chapter(v, id, p)
        /\ id \in v.started /\ v.textStarted = st.textStarted /\ v.settled = st.settled
        /\ id \in st.textStarted => v.log[id] = st.log[id]
    BY <1>1, EmitStartGoesOn
  <2>2. u = IF m.frame.kind = "delta" THEN StreamDelta(v, id, m.frame, seq) ELSE v
    BY <1>2 DEF Receive
  <2> HIDE DEF u, v
  <2>3. CASE m.frame.kind = "delta"
    <3>1. Numbers(m) /\ v \in Handling /\ id \notin v.settled /\ m.frame.run = p
      BY <1>2, <2>1, <2>3 DEF Numbers, GoesOn
    <3>2. id \in v.textStarted => m.frame.n = End(v.log[id]).n + 1
      BY <2>1, <3>1
    <3>3. /\ GoesOn(v, u, id) /\ Chapter(u, id, p) /\ id \in u.started /\ id \in u.textStarted
          /\ u.settled = v.settled /\ End(u.log[id]).n = m.frame.n
      BY <1>1, <2>1, <2>2, <2>3, <3>1, <3>2, StreamDeltaGoesOn
    <3>4. GoesOn(st, u, id)
      BY <1>1, <2>1, <3>3, GoesOnTwice
    <3> QED
      BY <1>2, <2>1, <3>1, <3>3, <3>4 DEF u
  <2>4. CASE m.frame.kind # "delta"
    BY <1>2, <2>1, <2>2, <2>4 DEF Numbers, u
  <2> QED
    BY <2>3, <2>4
<1>3. CASE m.session.state # "running" /\ id \in st.settled
  <2>1. u = st /\ id \in st.started /\ ~Numbers(m)
    BY <1>3 DEF Receive, Chapter, Numbers
  <2>2. GoesOn(st, st, id)
    BY <1>1, GoesOnSelf
  <2> QED
    BY <1>3, <2>1, <2>2
<1>4. CASE m.session.state # "running" /\ id \notin st.settled
  <2>1. /\ u = Settle(st, id, ToStreamEndEvents(m.session, id \in st.textStarted))
        /\ ~Numbers(m)
    BY <1>4 DEF Receive, Numbers
  <2> HIDE DEF u
  <2>2. GoesOn(st, u, id) /\ Chapter(u, id, p) /\ id \in u.started /\ id \in u.settled
    BY <1>1, <1>4, <2>1, SettleGoesOn
  <2> QED
    BY <1>4, <2>1, <2>2 DEF u
<1> QED
  BY <1>2, <1>3, <1>4

(* An emission of session id, whose text is that of run p, fits the story. *)
Fits(st, m, id, p) ==
  /\ m.id = id /\ Sober(m.session) /\ m.session.final \in {0, p}
  /\ m.session.state = "running" => id \notin st.settled
  /\ Numbers(m) => m.frame.run = p
  /\ Numbers(m) /\ id \in st.textStarted => m.frame.n = End(st.log[id]).n + 1

(* What is left of the story when a running session was reported by m.     *)
Reported(st, u, m, id) ==
  /\ u.settled = st.settled
  /\ Numbers(m) => id \in u.textStarted /\ End(u.log[id]).n = m.frame.n
  /\ ~Numbers(m) => /\ u.textStarted = st.textStarted
                    /\ id \in st.textStarted => u.log[id] = st.log[id]

LEMMA ReceiveAllGoesOn ==
  ASSUME NEW st \in Handling, NEW ms \in Seq(Emission), Len(ms) <= 2, NEW seq \in Nat,
         NEW id \in Ids, NEW p, Chapter(st, id, p),
         \A i \in DOMAIN ms : Fits(st, ms[i], id, p),
         Len(ms) = 2 => ms[2].session.state # "running"
  PROVE  LET u == ReceiveAll(st, ms, seq)
         IN /\ GoesOn(st, u, id) /\ Chapter(u, id, p)
            /\ Len(ms) = 1 /\ ms[1].session.state = "running" => Reported(st, u, ms[1], id)
<1>1. /\ Len(ms) \in Nat /\ DOMAIN ms = 1 .. Len(ms)
      /\ \A i \in 1 .. Len(ms) : ms[i] \in Emission
  BY LenProperties
<1>2. CASE Len(ms) = 0
  <2>1. ReceiveAll(st, ms, seq) = st
    BY <1>2 DEF ReceiveAll
  <2> QED
    BY <1>2, <2>1, GoesOnSelf
<1> DEFINE u == Receive(st, ms[1], seq)
<1>3. ASSUME Len(ms) > 0
      PROVE  /\ GoesOn(st, u, id) /\ Chapter(u, id, p)
             /\ ms[1].session.state = "running" => Reported(st, u, ms[1], id)
  <2>1. ms[1] \in Emission /\ Fits(st, ms[1], id, p)
    BY <1>1, <1>3
  <2>2. /\ GoesOn(st, u, id) /\ Chapter(u, id, p)
        /\ ms[1].session.state = "running" => u.settled = st.settled
        /\ Numbers(ms[1]) => id \in u.textStarted /\ End(u.log[id]).n = ms[1].frame.n
        /\ ms[1].session.state = "running" /\ ~Numbers(ms[1]) =>
             /\ u.textStarted = st.textStarted
             /\ id \in st.textStarted => u.log[id] = st.log[id]
    BY <2>1, ReceiveGoesOn DEF Fits
  <2> HIDE DEF u
  <2> QED
    BY <2>2 DEF Reported
<1> HIDE DEF u
<1>4. CASE Len(ms) = 1
  <2>1. ReceiveAll(st, ms, seq) = u
    BY <1>4 DEF ReceiveAll, u
  <2> QED
    BY <1>3, <1>4, <2>1
<1>5. CASE Len(ms) = 2
  <2> DEFINE v == Receive(u, ms[2], seq)
  <2>1. ReceiveAll(st, ms, seq) = v
    BY <1>5 DEF ReceiveAll, u
  <2>2. GoesOn(st, u, id) /\ Chapter(u, id, p) /\ u \in Handling
    BY <1>3, <1>5 DEF GoesOn
  <2>3. ms[2] \in Emission /\ Fits(st, ms[2], id, p) /\ ms[2].session.state # "running"
    BY <1>1, <1>5
  <2>4. ~Numbers(ms[2])
    BY <2>3 DEF Numbers
  <2>5. GoesOn(u, v, id) /\ Chapter(v, id, p)
    BY <2>2, <2>3, <2>4, ReceiveGoesOn DEF Fits
  <2> HIDE DEF v
  <2>6. GoesOn(st, v, id)
    BY <2>2, <2>5, GoesOnTwice
  <2> QED
    BY <1>5, <2>1, <2>5, <2>6
<1> QED
  BY <1>1, <1>2, <1>4, <1>5, AtMostTwo

(* emit() calls the listeners of the open connections.                     *)
LEMMA DeliverReceives ==
  ASSUME LogInv, Handler, Deliver, NEW id \in Ids, \A i \in DOMAIN wire' : wire'[i].id = id,
         NEW c \in Clients
  PROVE  \/ streams[c].open /\ \E seq \in Nat : streams'[c] = ReceiveAll(streams[c], wire', seq)
         \/ ~streams[c].open /\ streams'[c] = streams[c]
<1>1. /\ sequence \in [Ids -> Nat] /\ wire' \in Seq(Emission)
      /\ c \in Listening <=> streams[c].open
  BY HandlerWire DEF LogInv, Listening
<1>2. CASE Numbered(wire')
  <2>1. wire'[1].id = id
    <3>1. Len(wire') \in Nat /\ DOMAIN wire' = 1 .. Len(wire') /\ DOMAIN wire' # {}
      BY <1>1, <1>2, LenProperties DEF Numbered
    <3>2. 1 \in DOMAIN wire'
      BY <3>1
    <3> QED
      BY <3>2
  <2>2. PICK order \in Orders :
          streams' = [d \in Clients |->
                        IF d \in Listening
                        THEN ReceiveAll(streams[d], wire', sequence[id] + order[d])
                        ELSE streams[d]]
    BY <1>2, <2>1 DEF Deliver, Publish
  <2>3. CASE c \in Listening
    <3>1. order[c] \in 1 .. Cardinality(Listening)
      BY <2>3 DEF Orders
    <3>2. sequence[id] + order[c] \in Nat
      BY <1>1, <3>1, ListeningIsFinite
    <3> QED
      BY <1>1, <2>2, <2>3, <3>2
  <2> QED
    BY <1>1, <2>2, <2>3
<1>3. CASE ~Numbered(wire')
  <2>1. streams' = [d \in Clients |-> IF d \in Listening THEN ReceiveAll(streams[d], wire', 0)
                                      ELSE streams[d]]
    BY <1>3 DEF Deliver, Publish
  <2> QED
    BY <1>1, <2>1
<1> QED
  BY <1>2, <1>3

-----------------------------------------------------------------------------
(* The child of a session that is prompted once leaves the record, and     *)
(* emits it, with the text of its result or with none.                     *)
Kept(r, p) == Sober(r) /\ r.final \in {0, p}

LEMMA DispatchKeeps ==
  ASSUME NEW ss \in [Ids -> Session], NEW id \in Ids, NEW f \in Frame, f.kind # "garbage",
         NEW p, f.run = p, Sober(ss[id]), ss[id].final = 0
  PROVE  LET e == Dispatch(ss, id, f)
         IN /\ Kept(e.sessions[id], p)
            /\ e.sessions[id].final # 0 => f.kind \in ResultKinds
            /\ e.sessions[id].state = "running" =>
                 ss[id].state = "running" /\ e.wire = Emit(id, e.sessions[id], f)
            /\ e.wire \in {<<>>, Emit(id, e.sessions[id], f)}
<1> DEFINE e == Dispatch(ss, id, f)
<1>1. ss[id] \in Session
  OBVIOUS
<1>2. e = ApplyFrame(ss, id, f)
  BY DEF Dispatch
<1>3. CASE id \notin Known(ss)
  <2>1. e.sessions = ss /\ e.wire = <<>> /\ ss[id].state = "absent"
    BY <1>2, <1>3 DEF ApplyFrame, NoEffect, Known
  <2> HIDE DEF e
  <2>2. e.sessions[id].state # "running"
    BY <2>1
  <2> QED
    BY <2>1, <2>2 DEF Kept, e
<1>4. CASE id \in Known(ss)
  <2> DEFINE after == After(ss[id], f)
  <2>1. e.sessions[id] = after /\ e.wire = Emit(id, after, f)
    BY <1>2, <1>4 DEF ApplyFrame
  <2>2. /\ Sober(after) /\ after.final \in {0, p}
        /\ after.final # 0 => f.kind \in ResultKinds
        /\ after.state = "running" => ss[id].state = "running"
    BY <1>1 DEF After, Session, Sober, ResultKinds
  <2> HIDE DEF e, after
  <2>3. Kept(e.sessions[id], p)
    BY <2>1, <2>2 DEF Kept
  <2> QED
    BY <2>1, <2>2, <2>3 DEF e
<1> QED
  BY <1>3, <1>4

LEMMA FinishKeeps ==
  ASSUME NEW ss \in [Ids -> Session], NEW id \in Ids, NEW clean \in BOOLEAN, NEW detail \in BOOLEAN,
         NEW p, Kept(ss[id], p)
  PROVE  LET e == Finish(ss, id, clean, detail)
         IN /\ Kept(e.sessions[id], p) /\ e.sessions[id].final = ss[id].final
            /\ e.sessions[id].state # "running"
            /\ e.wire \in {<<>>, Emit(id, e.sessions[id], Synthetic)}
<1> DEFINE e         == Finish(ss, id, clean, detail)
           s         == ss[id]
           ended     == [s EXCEPT !.state = IF clean THEN "done" ELSE "error",
                                  !.error = IF ~clean /\ s.error = "none" THEN "detail" ELSE @]
           explained == [s EXCEPT !.error = "detail"]
<1>1. s \in Session
  OBVIOUS
<1>2. CASE s.state = "running"
  <2>1. e = [sessions |-> [ss EXCEPT ![id] = ended], wire |-> Emit(id, ended, Synthetic)]
    BY <1>2 DEF Finish
  <2>2. ended.final = s.final /\ ended.state # "running" /\ Kept(ended, p)
    BY <1>1, <1>2 DEF Session, Kept, Sober
  <2> HIDE DEF ended
  <2> QED
    BY <2>1, <2>2
<1>3. CASE s.state = "error" /\ s.error # "detail" /\ detail
  <2>1. e = [sessions |-> [ss EXCEPT ![id] = explained], wire |-> Emit(id, explained, Synthetic)]
    BY <1>3 DEF Finish
  <2>2. explained.final = s.final /\ explained.state # "running" /\ Kept(explained, p)
    BY <1>1, <1>3 DEF Session, Kept, Sober
  <2> HIDE DEF explained
  <2> QED
    BY <2>1, <2>2
<1>4. CASE s.state # "running" /\ ~(s.state = "error" /\ s.error # "detail" /\ detail)
  BY <1>4 DEF Finish, NoEffect
<1> QED
  BY <1>2, <1>3, <1>4

LEMMA FailKeeps ==
  ASSUME NEW ss \in [Ids -> Session], NEW id \in Ids, NEW p, Kept(ss[id], p)
  PROVE  LET e == Fail(ss, id)
         IN /\ Kept(e.sessions[id], p) /\ e.sessions[id].final = ss[id].final
            /\ e.sessions[id].state # "running"
            /\ e.wire \in {<<>>, Emit(id, e.sessions[id], Synthetic)}
<1> DEFINE e      == Fail(ss, id)
           failed == [ss[id] EXCEPT !.state = "error", !.error = "detail"]
<1>1. ss[id] \in Session
  OBVIOUS
<1>2. CASE id \in Known(ss)
  <2>1. e = [sessions |-> [ss EXCEPT ![id] = failed], wire |-> Emit(id, failed, Synthetic)]
    BY <1>2 DEF Fail
  <2>2. failed.final = ss[id].final /\ failed.state # "running" /\ Kept(failed, p)
    BY <1>1 DEF Session, Kept, Sober
  <2> HIDE DEF failed
  <2> QED
    BY <2>1, <2>2
<1>3. CASE id \notin Known(ss)
  BY <1>3 DEF Fail, NoEffect, Known
<1> QED
  BY <1>2, <1>3

(* What a step of child p emits of its session.                            *)
Printing(p, m) ==
  /\ m.id = runs[p].id /\ Kept(m.session, p)
  /\ m.session.state = "running" => sessions[m.id].state = "running"
  /\ Numbers(m) => m.frame.run = p /\ m.frame.n = runs[p].deltas + 1

ChildKeeps(p) ==
  LET id == runs[p].id
  IN /\ Kept(sessions'[id], p)
     /\ sessions'[id].final # 0 => sessions[id].final # 0 \/ HadItsSay(p)'
     /\ \A i \in DOMAIN wire' : Printing(p, wire'[i])
     /\ Len(wire') = 2 => wire'[2].session.state # "running"
     /\ sessions'[id].state = "running" =>
          /\ sessions[id].state = "running" /\ Len(wire') = 1
          /\ wire'[1].session.state = "running"
          /\ runs'[p].deltas = IF Numbers(wire'[1]) THEN wire'[1].frame.n ELSE runs[p].deltas

(* A callback that settles the record.                                     *)
LEMMA SettlingKeeps ==
  ASSUME NEW p \in Run, NEW e,
         Kept(e.sessions[runs[p].id], p), e.sessions[runs[p].id].state # "running",
         e.sessions[runs[p].id].final = sessions[runs[p].id].final,
         e.wire \in {<<>>, Emit(runs[p].id, e.sessions[runs[p].id], Synthetic)},
         sessions' = e.sessions, wire' = e.wire
  PROVE  ChildKeeps(p)
<1>1. CASE e.wire = <<>>
  <2>1. Len(wire') = 0 /\ DOMAIN wire' = {}
    BY <1>1
  <2> QED
    BY <2>1 DEF ChildKeeps
<1>2. CASE e.wire = Emit(runs[p].id, e.sessions[runs[p].id], Synthetic)
  <2>1. /\ Len(wire') = 1 /\ DOMAIN wire' = {1}
        /\ wire'[1].id = runs[p].id /\ wire'[1].session = e.sessions[runs[p].id]
    BY <1>2, EmitIs
  <2>2. ~Numbers(wire'[1])
    BY <2>1 DEF Numbers
  <2>3. Printing(p, wire'[1])
    BY <2>1, <2>2 DEF Printing
  <2> QED
    BY <2>1, <2>3 DEF ChildKeeps
<1> QED
  BY <1>1, <1>2

LEMMA ChildKeepsStory ==
  ASSUME TidyCli, RunnerTypeOK, RunsHaveIds, NEW p \in Run, ChildSteps(p),
         Kept(sessions[runs[p].id], p), sessions[runs[p].id].final # 0 => HadItsSay(p)
  PROVE  ChildKeeps(p)
<1> DEFINE id == runs[p].id
<1>1. /\ id \in Ids /\ sessions \in [Ids -> Session] /\ runs \in [Run -> Process]
      /\ runs[p] \in Process /\ runs[p].deltas \in Nat /\ p \in Nat
      /\ wire' \in Seq(Emission)
  <2>1. runs \in [Run -> Process] /\ MaxRuns \in Nat /\ MaxDeltas \in Nat
    BY RunnerAssumption DEF RunnerTypeOK
  <2> QED
    BY <2>1, ChildContract DEF RunnerTypeOK, Process, StepContract, Run
<1>2. ASSUME NEW kind \in LineKinds, MayPrint(p, kind), runs[p].phase \in {"spawning", "live"}
      PROVE  LET f == FrameOf(p, kind)
             IN /\ f.kind = kind /\ f.kind # "garbage" /\ f.run = p
                /\ f.n = IF kind = "delta" THEN runs[p].deltas + 1 ELSE runs[p].deltas
                /\ sessions[id].final = 0 /\ Sober(sessions[id])
  BY <1>2 DEF MayPrint, FrameOf, Kept, HadItsSay
<1>3. ASSUME NEW kind \in LineKinds, NEW phase
      PROVE  /\ Printed(p, kind, phase).deltas =
                  IF kind = "delta" THEN runs[p].deltas + 1 ELSE runs[p].deltas
             /\ kind \in ResultKinds => Printed(p, kind, phase).verdict # "none"
  BY <1>1 DEF Printed, Process, VerdictOf, ResultKinds, EventKinds
<1>4. ASSUME NEW kind \in LineKinds, Stdout(p, kind) PROVE ChildKeeps(p)
  <2> DEFINE f == FrameOf(p, kind)
             e == Dispatch(sessions, id, f)
  <2>1. /\ MayPrint(p, kind) /\ sessions' = e.sessions /\ wire' = e.wire
        /\ runs'[p] = Printed(p, kind, "live") /\ runs[p].phase \in {"spawning", "live"}
    BY <1>1, <1>4 DEF Stdout
  <2>2. f \in Frame
    BY <1>4, FrameOfType DEF Stdout
  <2>3. /\ f.kind = kind /\ f.kind # "garbage" /\ f.run = p
        /\ f.n = IF kind = "delta" THEN runs[p].deltas + 1 ELSE runs[p].deltas
        /\ sessions[id].final = 0 /\ Sober(sessions[id])
    BY <1>2, <2>1
  <2> HIDE DEF f
  <2>4. /\ Kept(e.sessions[id], p)
        /\ e.sessions[id].final # 0 => f.kind \in ResultKinds
        /\ e.sessions[id].state = "running" =>
             sessions[id].state = "running" /\ e.wire = Emit(id, e.sessions[id], f)
        /\ e.wire \in {<<>>, Emit(id, e.sessions[id], f)}
    BY <1>1, <2>2, <2>3, DispatchKeeps
  <2> HIDE DEF e
  <2>5. /\ runs'[p].deltas = f.n
        /\ sessions'[id].final # 0 => HadItsSay(p)'
    BY <1>3, <2>1, <2>3, <2>4 DEF HadItsSay
  <2>6. CASE e.wire = <<>>
    <3>1. Len(wire') = 0 /\ DOMAIN wire' = {} /\ \A s : Emit(id, s, f) # <<>>
      BY <2>1, <2>6, EmitIs
    <3> QED
      BY <2>1, <2>4, <2>5, <2>6, <3>1 DEF ChildKeeps
  <2>7. CASE e.wire = Emit(id, e.sessions[id], f)
    <3>1. /\ Len(wire') = 1 /\ DOMAIN wire' = {1}
          /\ wire'[1].id = id /\ wire'[1].session = e.sessions[id] /\ wire'[1].frame = f
      BY <2>1, <2>7, EmitIs
    <3>2. Numbers(wire'[1]) <=> e.sessions[id].state = "running" /\ kind = "delta"
      BY <2>3, <3>1 DEF Numbers
    <3>3. Printing(p, wire'[1])
      BY <2>3, <2>4, <3>1, <3>2 DEF Printing
    <3> QED
      BY <2>1, <2>3, <2>4, <2>5, <3>1, <3>2, <3>3 DEF ChildKeeps
  <2> QED
    BY <2>4, <2>6, <2>7
<1>5. ASSUME SpawnError(p) PROVE ChildKeeps(p)
  <2> DEFINE e == Fail(sessions, id)
  <2>1. sessions' = e.sessions /\ wire' = e.wire
    BY <1>5 DEF SpawnError
  <2>2. /\ Kept(e.sessions[id], p) /\ e.sessions[id].final = sessions[id].final
        /\ e.sessions[id].state # "running"
        /\ e.wire \in {<<>>, Emit(id, e.sessions[id], Synthetic)}
    BY <1>1, FailKeeps
  <2> HIDE DEF e
  <2> QED
    BY <2>1, <2>2, SettlingKeeps
<1>6. ASSUME NEW clean \in BOOLEAN, NEW detail \in BOOLEAN, Close(p, clean, detail)
      PROVE  ChildKeeps(p)
  <2> DEFINE e == Finish(sessions, id, clean, detail)
  <2>1. sessions' = e.sessions /\ wire' = e.wire
    BY <1>6 DEF Close
  <2>2. /\ Kept(e.sessions[id], p) /\ e.sessions[id].final = sessions[id].final
        /\ e.sessions[id].state # "running"
        /\ e.wire \in {<<>>, Emit(id, e.sessions[id], Synthetic)}
    <3>1. Kept(sessions[id], p) /\ id \in Ids
      BY <1>1
    <3> HIDE DEF id
    <3> QED
      BY <1>1, <3>1, FinishKeeps
  <2> HIDE DEF e
  <2> QED
    BY <2>1, <2>2, SettlingKeeps
<1>7. ASSUME NEW clean \in BOOLEAN, NEW detail \in BOOLEAN, NEW kind \in LineKinds,
             CloseTrailing(p, kind, clean, detail)
      PROVE  ChildKeeps(p)
  <2> DEFINE f     == FrameOf(p, kind)
             first == Dispatch(sessions, id, f)
             last  == Finish(first.sessions, id, clean, detail)
  <2>1. /\ MayPrint(p, kind) /\ sessions' = last.sessions /\ wire' = first.wire \o last.wire
        /\ runs'[p] = Printed(p, kind, Exit(clean)) /\ runs[p].phase \in {"spawning", "live"}
    BY <1>1, <1>7 DEF CloseTrailing
  <2>2. f \in Frame
    BY <2>1, FrameOfType
  <2>3. /\ f.kind = kind /\ f.kind # "garbage" /\ f.run = p
        /\ f.n = IF kind = "delta" THEN runs[p].deltas + 1 ELSE runs[p].deltas
        /\ sessions[id].final = 0 /\ Sober(sessions[id])
    BY <1>2, <2>1
  <2> HIDE DEF f
  <2>4. /\ Kept(first.sessions[id], p)
        /\ first.sessions[id].final # 0 => f.kind \in ResultKinds
        /\ first.sessions[id].state = "running" => sessions[id].state = "running"
        /\ first.wire \in {<<>>, Emit(id, first.sessions[id], f)}
    BY <1>1, <2>2, <2>3, DispatchKeeps
  <2>5. CallbackContract(sessions, id, first)
    BY <1>1, <2>2, DispatchContract
  <2>6. first.sessions \in [Ids -> Session]
    BY <2>5 DEF CallbackContract
  <2> HIDE DEF first
  <2>7. /\ Kept(last.sessions[id], p) /\ last.sessions[id].final = first.sessions[id].final
        /\ last.sessions[id].state # "running"
        /\ last.wire \in {<<>>, Emit(id, last.sessions[id], Synthetic)}
    <3>1. Kept(first.sessions[id], p) /\ id \in Ids
      BY <1>1, <2>4
    <3> HIDE DEF id
    <3> QED
      BY <2>6, <3>1, FinishKeeps
  <2>8. Joined(first.wire, last.wire, wire')
    <3>1. CallbackContract(first.sessions, id, last)
      BY <1>1, <2>6, FinishContract
    <3>2. Len(first.wire) \in {0, 1} /\ Len(last.wire) \in {0, 1}
      BY <2>5, <3>1, OneEmission
    <3> QED
      BY <2>1, <2>5, <3>1, <3>2, ShortConcat DEF CallbackContract
  <2> HIDE DEF last
  <2>9. ASSUME first.wire # <<>>
        PROVE  Len(first.wire) = 1 /\ DOMAIN first.wire = {1} /\ Printing(p, first.wire[1])
    <3>1. /\ Len(first.wire) = 1 /\ DOMAIN first.wire = {1}
          /\ first.wire[1].id = id /\ first.wire[1].session = first.sessions[id]
          /\ first.wire[1].frame = f
      BY <2>4, <2>9, EmitIs
    <3>2. Numbers(first.wire[1]) => kind = "delta"
      BY <2>3, <3>1 DEF Numbers
    <3> QED
      BY <2>3, <2>4, <3>1, <3>2 DEF Printing
  <2>10. ASSUME last.wire # <<>>
         PROVE  /\ Len(last.wire) = 1 /\ DOMAIN last.wire = {1} /\ Printing(p, last.wire[1])
                /\ last.wire[1].session.state # "running"
    <3>1. /\ Len(last.wire) = 1 /\ DOMAIN last.wire = {1}
          /\ last.wire[1].id = id /\ last.wire[1].session = last.sessions[id]
      BY <2>7, <2>10, EmitIs
    <3>2. ~Numbers(last.wire[1])
      BY <2>7, <3>1 DEF Numbers
    <3> QED
      BY <2>7, <3>1, <3>2 DEF Printing
  <2>11. /\ \A i \in DOMAIN wire' : Printing(p, wire'[i])
         /\ Len(wire') = 2 => wire'[2].session.state # "running"
    <3>1. Len(<<>>) = 0 /\ DOMAIN <<>> = {}
      OBVIOUS
    <3>2. CASE first.wire = <<>> /\ wire' = last.wire
      BY <2>10, <3>1, <3>2
    <3>3. CASE last.wire = <<>> /\ wire' = first.wire
      BY <2>9, <3>1, <3>3
    <3>4. CASE /\ Len(first.wire) = 1 /\ Len(last.wire) = 1
               /\ wire' \in Seq(Emission) /\ Len(wire') = 2
               /\ wire'[1] = first.wire[1] /\ wire'[2] = last.wire[1]
      <4>1. DOMAIN wire' = {1, 2}
        BY <3>4, LenProperties
      <4>2. first.wire # <<>> /\ last.wire # <<>>
        BY <3>1, <3>4
      <4> QED
        BY <2>9, <2>10, <3>4, <4>1, <4>2
    <3> QED
      BY <2>8, <3>2, <3>3, <3>4 DEF Joined
  <2>12. sessions'[id].final # 0 => HadItsSay(p)'
    BY <1>3, <2>1, <2>3, <2>4, <2>7 DEF HadItsSay
  <2> QED
    BY <2>1, <2>7, <2>11, <2>12 DEF ChildKeeps
<1> QED
  BY <1>4, <1>5, <1>6, <1>7 DEF ChildSteps, Closes

-----------------------------------------------------------------------------
(* The invariant: a record has the text of a run of the session; a text    *)
(* part that is open is where that run, if the session runs, has got to.   *)
Texted(s) ==
  LET q == sessions[s].final
  IN /\ Sober(sessions[s])
     /\ q # 0 => /\ q \in Run /\ runs[q].phase # "unused" /\ runs[q].id = s
                 /\ HadItsSay(q)

Written(st, s) ==
  LET x == End(st.log[s])
  IN s \in st.textStarted \ st.settled =>
       /\ x.run \in Run /\ runs[x.run].phase # "unused" /\ runs[x.run].id = s
       /\ sessions[s].state = "running" => x.n = runs[x.run].deltas

Placed(st, s) ==
  /\ Chapter(st, s, End(st.log[s]).run)
  /\ s \in st.started => prompts[s] > 0
  /\ s \in st.settled => sessions[s].state # "running"
  /\ Written(st, s)

FeedInv ==
  /\ AgreeInv
  /\ \A s \in Ids : Texted(s)
  /\ \A c \in Clients : ~streams[c].open => streams[c] = Closed
  /\ \A c \in Clients, s \in Ids : Placed(streams[c], s)

(* A step adds to a story, or drops it.                                    *)
Told ==
  \A c \in Clients, s \in Ids :
    streams'[c].log[s] = <<>> \/ Grows(streams[c].log[s], streams'[c].log[s])

LEMMA AnyChapter ==
  ASSUME NEW st, NEW s, NEW p, Chapter(st, s, p) PROVE Chapter(st, s, End(st.log[s]).run)
BY DEF Chapter

(* The only child of a session is the one its text is from.                *)
LEMMA OwnChapter ==
  ASSUME FeedInv, NEW p \in Run, runs[p].phase # "unused", runs[p].id \in Ids
  PROVE  LET id == runs[p].id
         IN /\ Kept(sessions[id], p)
            /\ sessions[id].final # 0 => HadItsSay(p)
            /\ \A c \in Clients : /\ Chapter(streams[c], id, p)
                                  /\ id \in streams[c].textStarted \ streams[c].settled =>
                                       End(streams[c].log[id]).run = p
<1> DEFINE id == runs[p].id
<1>1. \A q \in Run : runs[q].phase # "unused" /\ runs[q].id = id => q = p
  BY DEF FeedInv, AgreeInv, OneChild
<1>2. Texted(id) /\ \A c \in Clients : Placed(streams[c], id)
  BY DEF FeedInv
<1>3. Kept(sessions[id], p) /\ (sessions[id].final # 0 => HadItsSay(p))
  BY <1>1, <1>2 DEF Texted, Kept
<1>4. ASSUME NEW c \in Clients
      PROVE  /\ Chapter(streams[c], id, p)
             /\ id \in streams[c].textStarted \ streams[c].settled =>
                  End(streams[c].log[id]).run = p
  <2>1. id \in streams[c].textStarted \ streams[c].settled => End(streams[c].log[id]).run = p
    BY <1>1, <1>2 DEF Placed, Written
  <2> QED
    BY <1>2, <2>1 DEF Placed, Chapter
<1> QED
  BY <1>3, <1>4

(* Other sessions are told of as before.                                   *)
LEMMA OthersPlaced ==
  ASSUME FeedInv, NEW c \in Clients, NEW id \in Ids, NEW s \in Ids \ {id},
         GoesOn(streams[c], streams'[c], id),
         sessions'[s] = sessions[s] \/ sessions'[s].state = "absent",
         prompts'[s] = prompts[s],
         \A q \in Run : runs[q].phase # "unused" /\ runs[q].id = s => runs'[q] = runs[q]
  PROVE  Placed(streams[c], s)' /\ Grows(streams[c].log[s], streams'[c].log[s])
<1> DEFINE st == streams[c]
           u  == streams'[c]
<1>1. /\ u.log[s] = st.log[s]
      /\ s \in u.started <=> s \in st.started
      /\ s \in u.textStarted <=> s \in st.textStarted
      /\ s \in u.settled <=> s \in st.settled
      /\ st \in Handling
  BY DEF GoesOn
<1>2. Placed(st, s)
  BY DEF FeedInv
<1>3. sessions'[s].state = "running" => sessions[s].state = "running"
  OBVIOUS
<1>4. Chapter(u, s, End(u.log[s]).run)
  BY <1>1, <1>2 DEF Placed, Chapter
<1>5. Written(streams[c], s)'
  BY <1>1, <1>2, <1>3 DEF Placed, Written
<1>6. Placed(streams[c], s)'
  BY <1>1, <1>2, <1>3, <1>4, <1>5 DEF Placed
<1>7. Grows(st.log[s], u.log[s])
  BY <1>1, LogType, GrowsSelf
<1> QED
  BY <1>6, <1>7

-----------------------------------------------------------------------------
(* The child tells its session's story.                                    *)
LEMMA ChildTells ==
  ASSUME PromptedOnce, FeedInv, AgreeInv', NEW p \in Run, ChildSteps(p), Deliver
  PROVE  FeedInv' /\ Told
<1>1. /\ LogInv /\ RunnerTypeOK /\ RunsHaveIds /\ TidyCli /\ Handler
      /\ streams \in [Clients -> Handling] /\ runs \in [Run -> Process]
  BY DEF FeedInv, AgreeInv, LogInv, PromptedOnce, Handler, ChildSteps, RunnerTypeOK
<1>2. runs[p].id \in Ids
  BY <1>1, ChildContract
<1>3. PICK id \in Ids : id = runs[p].id
  BY <1>2
<1>4. /\ id \in Ids /\ runs[p].phase # "unused"
      /\ wire' \in Seq(Emission) /\ Len(wire') <= 2
      /\ \A s \in Ids : s # id => sessions'[s] = sessions[s]
  BY <1>1, <1>3, ChildContract DEF StepContract
<1>5. /\ \A q \in Run : q # p => runs'[q] = runs[q]
      /\ runs'[p].id = id /\ runs'[p].phase # "unused"
      /\ prompts' = prompts
  BY <1>1, <1>3, ChildRuns
<1>6. /\ Kept(sessions[id], p)
      /\ sessions[id].final # 0 => HadItsSay(p)
      /\ \A c \in Clients : /\ Chapter(streams[c], id, p)
                            /\ id \in streams[c].textStarted \ streams[c].settled =>
                                 End(streams[c].log[id]).run = p
  BY <1>4, <1>3, OwnChapter
<1>7. ChildKeeps(p)
  BY <1>1, <1>6, <1>3, ChildKeepsStory
<1>8. HadItsSay(p) => HadItsSay(p)'
  BY <1>1, ChildLatest
<1>9. prompts[id] > 0
  BY <1>4, <1>3 DEF FeedInv, AgreeInv, OneChild
<1>10. /\ Kept(sessions'[id], p)
       /\ sessions'[id].final # 0 => sessions[id].final # 0 \/ HadItsSay(p)'
       /\ \A i \in DOMAIN wire' : /\ wire'[i].id = id /\ Kept(wire'[i].session, p)
                                  /\ wire'[i].session.state = "running" =>
                                       sessions[id].state = "running"
                                  /\ Numbers(wire'[i]) => /\ wire'[i].frame.run = p
                                                          /\ wire'[i].frame.n = runs[p].deltas + 1
       /\ Len(wire') = 2 => wire'[2].session.state # "running"
       /\ sessions'[id].state = "running" =>
            /\ sessions[id].state = "running" /\ Len(wire') = 1
            /\ wire'[1].session.state = "running"
            /\ runs'[p].deltas = IF Numbers(wire'[1]) THEN wire'[1].frame.n ELSE runs[p].deltas
  <2>1. /\ Kept(sessions'[id], p)
        /\ sessions'[id].final # 0 => sessions[id].final # 0 \/ HadItsSay(p)'
        /\ \A i \in DOMAIN wire' : Printing(p, wire'[i])
        /\ Len(wire') = 2 => wire'[2].session.state # "running"
        /\ sessions'[id].state = "running" =>
             /\ sessions[id].state = "running" /\ Len(wire') = 1
             /\ wire'[1].session.state = "running"
             /\ runs'[p].deltas = IF Numbers(wire'[1]) THEN wire'[1].frame.n ELSE runs[p].deltas
    BY <1>7, <1>3 DEF ChildKeeps
  <2>2. ASSUME NEW i \in DOMAIN wire'
        PROVE  /\ wire'[i].id = id /\ Kept(wire'[i].session, p)
               /\ wire'[i].session.state = "running" => sessions[id].state = "running"
               /\ Numbers(wire'[i]) => /\ wire'[i].frame.run = p
                                       /\ wire'[i].frame.n = runs[p].deltas + 1
    <3>1. Printing(p, wire'[i])
      BY <2>1
    <3> QED
      BY <1>3, <3>1 DEF Printing
  <2> QED
    BY <2>1, <2>2
<1>11. ASSUME NEW s \in Ids PROVE Texted(s)'
  <2>1. CASE s = id
    <3>1. sessions'[id].final \in {0, p} /\ Sober(sessions'[id])
      BY <1>10 DEF Kept
    <3>2. sessions'[id].final # 0 => HadItsSay(p)'
      BY <1>6, <1>8, <1>10
    <3> QED
      BY <1>5, <2>1, <3>1, <3>2 DEF Texted
  <2>2. CASE s # id
    <3>1. Texted(s) /\ sessions'[s] = sessions[s]
      BY <1>4, <2>2 DEF FeedInv
    <3>2. \A q \in Run : runs[q].id = s => runs'[q] = runs[q]
      BY <1>5, <1>3, <2>2
    <3> QED
      BY <3>1, <3>2 DEF Texted, HadItsSay
  <2> QED
    BY <2>1, <2>2
<1>12. ASSUME NEW c \in Clients
       PROVE  /\ GoesOn(streams[c], streams'[c], id)
              /\ ~streams'[c].open => streams'[c] = Closed
              /\ Placed(streams[c], id)'
  <2> DEFINE st == streams[c]
             u  == streams'[c]
  <2>1. /\ st \in Handling /\ Placed(st, id) /\ Chapter(st, id, p)
        /\ id \in st.textStarted \ st.settled => End(st.log[id]).run = p
        /\ ~st.open => st = Closed
    BY <1>1, <1>4, <1>6 DEF FeedInv
  <2>2. id \in st.textStarted \ st.settled /\ sessions[id].state = "running" =>
          End(st.log[id]).n = runs[p].deltas
    BY <2>1 DEF Placed, Written
  <2>3. CASE st.open
    <3>1. PICK seq \in Nat : u = ReceiveAll(st, wire', seq)
      BY <1>1, <1>4, <1>10, <2>3, DeliverReceives
    <3>2. \A i \in DOMAIN wire' : Fits(st, wire'[i], id, p)
      BY <1>10, <2>1, <2>2 DEF Fits, Kept, Placed, Numbers
    <3>3. /\ GoesOn(st, u, id) /\ Chapter(u, id, p)
          /\ Len(wire') = 1 /\ wire'[1].session.state = "running" => Reported(st, u, wire'[1], id)
      BY <1>4, <1>10, <2>1, <3>1, <3>2, ReceiveAllGoesOn
    <3> HIDE DEF st, u
    <3>4. sessions'[id].state = "running" =>
            /\ u.settled = st.settled /\ id \notin st.settled
            /\ id \in u.textStarted => End(u.log[id]).n = runs'[p].deltas
      <4> SUFFICES ASSUME sessions'[id].state = "running"
                   PROVE  /\ u.settled = st.settled /\ id \notin st.settled
                          /\ id \in u.textStarted => End(u.log[id]).n = runs'[p].deltas
        OBVIOUS
      <4>1. Reported(st, u, wire'[1], id) /\ sessions[id].state = "running"
            /\ runs'[p].deltas = IF Numbers(wire'[1]) THEN wire'[1].frame.n ELSE runs[p].deltas
        BY <1>10, <3>3
      <4>2. id \notin st.settled
        BY <2>1, <4>1 DEF Placed
      <4> QED
        BY <2>2, <4>1, <4>2 DEF Reported
    <3>5. id \in u.textStarted \ u.settled =>
            /\ End(u.log[id]).run = p
            /\ sessions'[id].state = "running" => End(u.log[id]).n = runs'[p].deltas
      BY <3>3, <3>4 DEF Chapter
    <3>6. Chapter(u, id, End(u.log[id]).run)
      BY <3>3, AnyChapter
    <3>7. id \in u.settled => sessions'[id].state # "running"
      BY <3>4
    <3>8. u.open
      BY <2>3, <3>3 DEF GoesOn
    <3>9. Placed(streams[c], id)'
      BY <1>5, <1>9, <3>5, <3>6, <3>7 DEF Placed, Written, u
    <3> QED
      BY <3>3, <3>8, <3>9 DEF st, u
  <2>4. CASE ~st.open
    <3>1. u = st /\ st = Closed
      BY <1>1, <1>4, <1>10, <2>1, <2>4, DeliverReceives
    <3>2. GoesOn(st, u, id)
      BY <1>4, <2>1, <3>1, GoesOnSelf
    <3>3. /\ u.started = {} /\ u.textStarted = {} /\ u.settled = {}
      BY <3>1 DEF Closed
    <3>4. Placed(streams[c], id)'
      BY <2>1, <3>1, <3>3 DEF Placed, Written
    <3> QED
      BY <3>1, <3>2, <3>4
  <2> QED
    BY <2>3, <2>4
<1>13. ASSUME NEW c \in Clients, NEW s \in Ids
       PROVE  Placed(streams[c], s)' /\ Grows(streams[c].log[s], streams'[c].log[s])
  <2>1. CASE s = id
    BY <1>12, <2>1 DEF GoesOn
  <2>2. CASE s # id
    <3>1. \A q \in Run : runs[q].phase # "unused" /\ runs[q].id = s => runs'[q] = runs[q]
      BY <1>5, <1>3, <2>2
    <3> QED
      BY <1>4, <1>5, <1>12, <2>2, <3>1, OthersPlaced
  <2> QED
    BY <2>1, <2>2
<1>14. Told
  BY <1>13 DEF Told
<1> QED
  BY <1>11, <1>12, <1>13, <1>14 DEF FeedInv

-----------------------------------------------------------------------------
(* A request tells at most that a session, prompted for the first time,    *)
(* runs.                                                                   *)
RequestKeeps(id) ==
  /\ sessions'[id].final = 0
  /\ \/ wire' = <<>>
     \/ /\ Len(wire') = 1 /\ DOMAIN wire' = {1} /\ wire'[1].id = id
        /\ wire'[1].session.state = "running" /\ wire'[1].session.final = 0
        /\ ~Numbers(wire'[1])
        /\ prompts[id] = 0 /\ prompts'[id] > 0

LEMMA RequestKeepsStory ==
  ASSUME MaxPrompts <= 1, RunnerTypeOK, NEW id \in Ids, RequestSteps(id)
  PROVE  RequestKeeps(id)
<1>1. /\ sessions \in [Ids -> Session] /\ prompts \in [Ids -> 0 .. MaxPrompts] /\ MaxPrompts \in Nat
      /\ prompts[id] \in Nat
  BY RunnerAssumption DEF RunnerTypeOK
<1>2. Absent.final = 0 /\ NewSession.final = 0 /\ Absent.state = "absent"
  BY DEF Absent, NewSession
<1>3. CASE Create(id) \/ Ensure(id)
  <2>1. births < MaxBirths /\ sessions' = Register(id) /\ wire' = <<>>
    BY <1>3 DEF Create, Ensure
  <2> QED
    BY <1>2, <2>1, RegisterType DEF RequestKeeps
<1>4. CASE Start(id)
  <2>1. births < MaxBirths /\ wire' = <<>>
        /\ sessions' \in {Register(id), [Register(id) EXCEPT ![id].state = "running"]}
    BY <1>4 DEF Start
  <2>2. Register(id) \in [Ids -> Session] /\ Register(id)[id] \in {NewSession, Absent}
    BY <2>1, RegisterType
  <2>3. Register(id)[id] \in Session /\ Register(id)[id].final = 0
    BY <1>2, <2>2
  <2>4. [Register(id) EXCEPT ![id].state = "running"][id].final = 0
    BY <2>2, <2>3 DEF Session
  <2> QED
    BY <2>1, <2>3, <2>4 DEF RequestKeeps
<1>5. CASE Prompt(id)
  <2>1. prompts[id] < MaxPrompts /\ prompts' = [prompts EXCEPT ![id] = prompts[id] + 1]
    BY <1>5 DEF Prompt
  <2>2. prompts[id] = 0 /\ prompts'[id] > 0
    BY <1>1, <2>1
  <2>3. /\ PromptBase(id) \in [Ids -> Session]
        /\ PromptObject(id) \in Session /\ PromptObject(id).state = "running"
        /\ wire' = Emit(id, PromptObject(id), Synthetic)
        /\ \/ sessions' = [PromptBase(id) EXCEPT ![id] = PromptObject(id)]
           \/ sessions' = PromptBase(id) /\ id \notin Known(PromptBase(id))
    BY <1>5, PromptType
  <2>4. PromptObject(id).final = 0
    <3>1. sessions[id] \in Session
      BY <1>1
    <3>2. CASE id \in Known(sessions)
      BY <3>1, <3>2 DEF PromptObject, Prompted, Session
    <3>3. CASE id \notin Known(sessions)
      BY <3>3 DEF PromptObject, Prompted, NewSession
    <3> QED
      BY <3>2, <3>3
  <2>5. /\ Len(wire') = 1 /\ DOMAIN wire' = {1} /\ wire'[1].id = id
        /\ wire'[1].session = PromptObject(id) /\ wire'[1].frame = Synthetic
    BY <2>3, EmitIs
  <2>6. ~Numbers(wire'[1])
    BY <2>5 DEF Numbers, Synthetic
  <2>7. sessions'[id].final = 0
    <3>1. CASE sessions' = [PromptBase(id) EXCEPT ![id] = PromptObject(id)]
      BY <2>3, <2>4, <3>1
    <3>2. CASE sessions' = PromptBase(id) /\ id \notin Known(PromptBase(id))
      <4>1. CASE id \in Known(sessions)
        BY <3>2, <4>1 DEF PromptBase
      <4>2. CASE id \notin Known(sessions)
        <5>1. births < MaxBirths /\ sessions' = Register(id)
          BY <1>5, <3>2, <4>2 DEF Prompt, PromptBase
        <5> QED
          BY <1>2, <5>1, RegisterType
      <4> QED
        BY <4>1, <4>2
    <3> QED
      BY <2>3, <3>1, <3>2
  <2> QED
    BY <2>2, <2>3, <2>4, <2>5, <2>6, <2>7 DEF RequestKeeps
<1> QED
  BY <1>3, <1>4, <1>5 DEF RequestSteps

(* emit() was not called.                                                  *)
LEMMA DeliverNothing ==
  ASSUME LogInv, Deliver, wire' = <<>>, NEW c \in Clients
  PROVE  streams'[c] = streams[c]
<1>1. Len(wire') = 0 /\ DOMAIN wire' = {}
  OBVIOUS
<1>2. streams' = [d \in Clients |-> IF d \in Listening THEN ReceiveAll(streams[d], wire', 0)
                                    ELSE streams[d]]
  BY <1>1 DEF Deliver, Publish, Numbered
<1> QED
  BY <1>1, <1>2 DEF ReceiveAll

LEMMA TextedStays ==
  ASSUME RunnerTypeOK, NEW s \in Ids, Texted(s),
         sessions'[s] = sessions[s] \/ sessions'[s] = Absent,
         \A q \in Run : runs[q].phase # "unused" => runs'[q] = runs[q]
  PROVE  Texted(s)'
<1>1. CASE sessions'[s] = Absent
  BY <1>1 DEF Texted, Sober, Absent
<1>2. CASE sessions'[s] = sessions[s]
  BY <1>2 DEF Texted, HadItsSay
<1> QED
  BY <1>1, <1>2

LEMMA RequestTells ==
  ASSUME PromptedOnce, FeedInv, AgreeInv', NEW id \in Ids, RequestSteps(id), Deliver
  PROVE  FeedInv' /\ Told
<1>1. /\ LogInv /\ RunnerTypeOK /\ OncePrompted /\ Handler /\ MaxPrompts <= 1
      /\ streams \in [Clients -> Handling]
      /\ prompts \in [Ids -> Nat]
      /\ Absent.state = "absent" /\ Settled = {"done", "error"}
  BY RunnerAssumption
     DEF FeedInv, AgreeInv, LogInv, PromptedOnce, Handler, RequestSteps, RunnerTypeOK, Absent, Settled
<1>2. RequestFacts(id) /\ RequestKeeps(id)
  BY <1>1, RequestOnce, RequestKeepsStory
<1>3. \A q \in Run : runs[q].phase # "unused" => runs'[q] = runs[q]
  BY <1>1, <1>2, RequestRuns DEF RequestFacts
<1>4. /\ \A s \in Ids \ {id} : prompts'[s] = prompts[s] /\ sessions'[s] \in {sessions[s], Absent}
      /\ prompts[id] > 0 => /\ sessions'[id].state \in {"absent", "idle"} /\ prompts'[id] = prompts[id]
                            /\ wire' = <<>>
  BY <1>1, <1>2 DEF RequestFacts, RequestKeeps
<1>5. ASSUME NEW s \in Ids PROVE Texted(s)'
  <2>1. CASE s = id
    BY <1>2, <2>1 DEF RequestKeeps, Texted, Sober
  <2>2. CASE s # id
    <3>1. Texted(s) /\ (sessions'[s] = sessions[s] \/ sessions'[s] = Absent)
      BY <1>4, <2>2 DEF FeedInv
    <3> QED
      BY <1>1, <1>3, <3>1, TextedStays
  <2> QED
    BY <2>1, <2>2
<1>6. ASSUME NEW c \in Clients
      PROVE  /\ GoesOn(streams[c], streams'[c], id)
             /\ ~streams'[c].open => streams'[c] = Closed
             /\ Placed(streams[c], id)'
  <2> DEFINE st == streams[c]
             u  == streams'[c]
             p  == End(st.log[id]).run
  <2>1. /\ st \in Handling /\ Placed(st, id) /\ Chapter(st, id, p)
        /\ ~st.open => st = Closed
    BY <1>1 DEF FeedInv, Placed
  <2>2. CASE u = st
    <3>1. GoesOn(st, u, id)
      BY <2>1, <2>2, GoesOnSelf
    <3>2. id \in st.started => prompts'[id] > 0 /\ sessions'[id].state # "running"
      BY <1>4, <2>1 DEF Placed
    <3>3. id \notin st.started => id \notin st.settled /\ id \notin st.textStarted
      BY <2>1 DEF Chapter
    <3>4. Written(streams[c], id)'
      BY <1>3, <2>1, <2>2, <3>2, <3>3 DEF Placed, Written
    <3>5. Placed(streams[c], id)'
      BY <2>1, <2>2, <3>2, <3>3, <3>4 DEF Placed
    <3> QED
      BY <2>1, <2>2, <3>1, <3>5
  <2>3. CASE u # st
    <3>1. wire' # <<>>
      BY <1>1, <2>3, DeliverNothing
    <3>2. /\ Len(wire') = 1 /\ DOMAIN wire' = {1} /\ wire'[1].id = id
          /\ wire'[1].session.state = "running" /\ wire'[1].session.final = 0
          /\ ~Numbers(wire'[1])
          /\ prompts[id] = 0 /\ prompts'[id] > 0
      BY <1>2, <3>1 DEF RequestKeeps
    <3>3. id \notin st.started /\ id \notin st.settled /\ id \notin st.textStarted
      BY <2>1, <3>2 DEF Placed, Chapter
    <3>4. Fits(st, wire'[1], id, p)
      BY <3>2, <3>3 DEF Fits, Sober
    <3>5. wire' \in Seq(Emission) /\ Len(wire') <= 2
      BY <1>1, HandlerWire DEF LogInv
    <3>6. st.open /\ \E seq \in Nat : u = ReceiveAll(st, wire', seq)
      BY <1>1, <2>3, <3>2, DeliverReceives
    <3>12. PICK seq \in Nat : u = ReceiveAll(st, wire', seq)
      BY <3>6
    <3>13. \A i \in DOMAIN wire' : Fits(st, wire'[i], id, p)
      BY <3>2, <3>4
    <3> HIDE DEF p
    <3>7. GoesOn(st, u, id) /\ Chapter(u, id, p) /\ Reported(st, u, wire'[1], id)
      <4>1. st \in Handling /\ Chapter(st, id, p) /\ Len(wire') # 2
        BY <2>1, <3>2
      <4>2. LET v == ReceiveAll(st, wire', seq)
            IN /\ GoesOn(st, v, id) /\ Chapter(v, id, p)
               /\ Len(wire') = 1 /\ wire'[1].session.state = "running" =>
                    Reported(st, v, wire'[1], id)
        BY <3>5, <3>13, <4>1, ReceiveAllGoesOn
      <4> QED
        BY <3>2, <3>12, <4>2
    <3>8. Chapter(u, id, End(u.log[id]).run)
      BY <3>7, AnyChapter
    <3>9. id \notin u.settled /\ id \notin u.textStarted
      BY <3>2, <3>3, <3>7 DEF Reported
    <3>10. Placed(streams[c], id)'
      BY <3>2, <3>8, <3>9 DEF Placed, Written
    <3>11. u.open
      BY <3>6, <3>7 DEF GoesOn
    <3> QED
      BY <3>7, <3>10, <3>11
  <2> QED
    BY <2>2, <2>3
<1>7. ASSUME NEW c \in Clients, NEW s \in Ids
      PROVE  Placed(streams[c], s)' /\ Grows(streams[c].log[s], streams'[c].log[s])
  <2>1. CASE s = id
    BY <1>6, <2>1 DEF GoesOn
  <2>2. CASE s # id
    <3>1. sessions'[s] = sessions[s] \/ sessions'[s].state = "absent"
      BY <1>1, <1>4, <2>2
    <3> QED
      BY <1>3, <1>4, <1>6, <2>2, <3>1, OthersPlaced
  <2> QED
    BY <2>1, <2>2
<1>8. Told
  BY <1>7 DEF Told
<1> QED
  BY <1>5, <1>6, <1>7, <1>8 DEF FeedInv

-----------------------------------------------------------------------------
(* A connection that is made or closed, and the daemon's death.            *)
LEMMA ReplayGrows ==
  ASSUME NEW r \in Session, Sober(r)
  PROVE  /\ Grows(<<>>, ReplayLog(r))
         /\ r.state = "running" => End(ReplayLog(r)).type = "start"
         /\ r.state \notin Settled \cup {"running"} => ReplayLog(r) = <<>>
<1> DEFINE b == Plain("start")
           e == ToEvents(r)
<1>1. b \in Entry /\ b.type = "start" /\ <<>> \in Seq(Entry) /\ End(<<>>) = Nothing
  BY PlainEntry, NoEntry, EndType DEF EventTypes
<1>2. Path(Nothing, <<b>>, b)
  <2>1. Follows(Nothing, b)
    BY <1>1 DEF Follows, Nothing, Plain
  <2> QED
    BY <1>1, <2>1, OnePath
<1>3. Path(b, e, Plain("updated"))
  BY <1>1, EventsPath
<1>4. ReplayLog(r) = CASE r.state = "running" -> <<b>>
                       [] r.state \in Settled -> <<b>> \o e
                       [] OTHER -> <<>>
  BY DEF ReplayLog
<1> HIDE DEF b, e
<1>5. Path(Nothing, <<b>> \o e, Plain("updated"))
  BY <1>2, <1>3, JoinPaths
<1>6. ASSUME NEW a, NEW y, Path(Nothing, a, y) PROVE Grows(<<>>, a) /\ End(a) = y
  <2>1. a \in Seq(Entry) /\ Grows(<<>>, <<>> \o a) /\ End(<<>> \o a) = y
    BY <1>1, <1>6 DEF Path
  <2>2. <<>> \o a = a
    BY <2>1, ConcatEmptySeq
  <2> QED
    BY <2>1, <2>2
<1>7. CASE r.state = "running"
  BY <1>1, <1>2, <1>4, <1>6, <1>7 DEF Settled
<1>8. CASE r.state \in Settled
  BY <1>4, <1>5, <1>6, <1>8 DEF Settled
<1>9. CASE r.state \notin Settled \cup {"running"}
  BY <1>1, <1>4, <1>9, GrowsSelf
<1> QED
  BY <1>7, <1>8, <1>9

LEMMA ClosedPlaced ==
  ASSUME NEW s \in Ids PROVE Closed.log[s] = <<>> /\ Placed(Closed, s)
<1>1. /\ Closed.log[s] = <<>> /\ Closed.started = {} /\ Closed.textStarted = {}
      /\ Closed.settled = {}
  BY DEF Closed
<1> QED
  BY <1>1 DEF Placed, Chapter, Written

LEMMA SubscribedPlaced ==
  ASSUME FeedInv, NEW s \in Ids
  PROVE  Placed(Subscribed, s) /\ Grows(<<>>, Subscribed.log[s])
<1> DEFINE st == Subscribed
           r  == sessions[s]
<1>1. /\ st.log[s] = ReplayLog(r) /\ st.textStarted = {}
      /\ s \in st.started <=> r.state \in Settled \cup {"running"}
      /\ s \in st.settled <=> r.state \in Settled
  BY DEF Subscribed
<1>2. r \in Session /\ Sober(r) /\ (r.state \in Settled \cup {"running"} => prompts[s] > 0)
  BY DEF FeedInv, Texted, AgreeInv, OncePrompted, LogInv, RunnerTypeOK
<1>3. /\ Grows(<<>>, ReplayLog(r))
      /\ r.state = "running" => End(ReplayLog(r)).type = "start"
      /\ r.state \notin Settled \cup {"running"} => ReplayLog(r) = <<>>
  BY <1>2, ReplayGrows
<1>4. r.state \in Settled => r.state # "running"
  BY DEF Settled
<1> HIDE DEF st, r
<1>5. Chapter(st, s, End(st.log[s]).run)
  BY <1>1, <1>3 DEF Chapter
<1>6. Written(st, s)
  BY <1>1 DEF Written
<1> QED
  BY <1>1, <1>2, <1>3, <1>4, <1>5, <1>6 DEF Placed, st, r

LEMMA ConnectionKeeps ==
  ASSUME FeedInv, AgreeInv', NEW c \in Clients, Connect(c) \/ Disconnect(c)
  PROVE  FeedInv' /\ Told
<1>1. /\ UNCHANGED <<sessions, runs, prompts>>
      /\ streams \in [Clients -> Handling]
  BY DEF Connect, Disconnect, FeedInv, AgreeInv, LogInv
<1>2. /\ \A d \in Clients : d # c => streams'[d] = streams[d]
      /\ \/ streams'[c] = Subscribed /\ streams[c] = Closed
         \/ streams'[c] = Closed
  BY <1>1 DEF Connect, Disconnect, FeedInv
<1>3. ASSUME NEW s \in Ids PROVE Texted(s)'
  BY <1>1, <1>3 DEF FeedInv, Texted, HadItsSay
<1>4. ASSUME NEW d \in Clients, NEW s \in Ids
      PROVE  /\ Placed(streams[d], s)'
             /\ streams'[d].log[s] = <<>> \/ Grows(streams[d].log[s], streams'[d].log[s])
  <2>2. CASE streams'[d] = streams[d]
    <3>1. Placed(streams[d], s) /\ streams[d].log[s] \in Seq(Entry)
      BY <1>1, LogType DEF FeedInv
    <3>2. Placed(streams[d], s)'
      BY <1>1, <2>2, <3>1 DEF Placed, Written
    <3> QED
      BY <2>2, <3>1, <3>2, GrowsSelf
  <2>3. CASE streams'[d] = Closed
    <3>1. Closed.log[s] = <<>> /\ Placed(Closed, s)
      BY ClosedPlaced
    <3>2. Placed(streams[d], s)'
      BY <1>1, <2>3, <3>1 DEF Placed, Written
    <3> QED
      BY <2>3, <3>1, <3>2
  <2>4. CASE streams'[d] = Subscribed /\ streams[d] = Closed
    <3>1. Placed(Subscribed, s) /\ Grows(<<>>, Subscribed.log[s]) /\ Closed.log[s] = <<>>
      BY SubscribedPlaced, ClosedPlaced
    <3>2. Placed(streams[d], s)'
      BY <1>1, <2>4, <3>1 DEF Placed, Written
    <3> QED
      BY <2>4, <3>1, <3>2
  <2> QED
    BY <1>2, <2>2, <2>3, <2>4
<1>5. ASSUME NEW d \in Clients PROVE ~streams'[d].open => streams'[d] = Closed
  <2>1. Subscribed.open
    BY DEF Subscribed
  <2> QED
    BY <1>2, <2>1 DEF FeedInv
<1>6. Told
  BY <1>4 DEF Told
<1> QED
  BY <1>3, <1>4, <1>5, <1>6 DEF FeedInv

LEMMA InitFeedInv == ASSUME Init PROVE FeedInv
<1>1. AgreeInv
  BY InitAgreeInv
<1>2. \A s \in Ids : Texted(s)
  BY DEF Init, RunnerInit, Absent, Texted, Sober
<1>3. \A c \in Clients : streams[c] = Closed
  BY DEF Init
<1> QED
  BY <1>1, <1>2, <1>3, ClosedPlaced DEF FeedInv

LEMMA NextFeedInv == ASSUME PromptedOnce, FeedInv, [Next]_vars PROVE FeedInv' /\ Told
<1>1. AgreeInv' /\ LogInv /\ streams \in [Clients -> Handling]
  BY NextAgreeInv DEF FeedInv, AgreeInv, LogInv
<1>2. ASSUME NEW id \in Ids, RequestSteps(id), Deliver PROVE FeedInv' /\ Told
  BY <1>1, <1>2, RequestTells
<1>3. ASSUME NEW p \in Run, ChildSteps(p), Deliver PROVE FeedInv' /\ Told
  BY <1>1, <1>3, ChildTells
<1>4. ASSUME UNCHANGED <<sessions, runs, prompts>>, \A c \in Clients : streams'[c] = streams[c]
      PROVE  FeedInv' /\ Told
  <2>1. \A s \in Ids : Texted(s)'
    BY <1>4 DEF FeedInv, Texted, HadItsSay
  <2>2. ASSUME NEW c \in Clients, NEW s \in Ids
        PROVE  Placed(streams[c], s)' /\ Grows(streams[c].log[s], streams'[c].log[s])
    <3>1. Placed(streams[c], s) /\ streams[c].log[s] \in Seq(Entry)
      BY <1>1, LogType DEF FeedInv
    <3>2. Placed(streams[c], s)'
      BY <1>4, <3>1 DEF Placed, Written
    <3> QED
      BY <1>4, <3>1, <3>2, GrowsSelf
  <2>3. Told
    BY <2>2 DEF Told
  <2> QED
    BY <1>1, <1>4, <2>1, <2>2, <2>3 DEF FeedInv
<1>5. CASE ClockMoves /\ Deliver
  <2>1. UNCHANGED <<sessions, runs, prompts>> /\ wire' = <<>>
    BY <1>5 DEF ClockMoves
  <2>2. \A c \in Clients : streams'[c] = streams[c]
    BY <1>1, <1>5, <2>1, DeliverNothing
  <2> QED
    BY <1>4, <2>1, <2>2
<1>6. ASSUME NEW c \in Clients, Connect(c) \/ Disconnect(c) PROVE FeedInv' /\ Told
  BY <1>1, <1>6, ConnectionKeeps
<1>7. CASE DaemonRestart
  <2>1. /\ \A s \in Ids : sessions'[s] = Absent
        /\ \A c \in Clients : streams'[c] = Closed
    BY <1>7 DEF DaemonRestart, Restart
  <2>2. \A s \in Ids : Texted(s)'
    BY <2>1 DEF Texted, Sober, Absent
  <2>3. ASSUME NEW c \in Clients, NEW s \in Ids
        PROVE  Placed(streams[c], s)' /\ streams'[c].log[s] = <<>>
    <3>1. /\ Closed.log[s] = <<>> /\ Closed.started = {} /\ Closed.textStarted = {}
          /\ Closed.settled = {}
      BY DEF Closed
    <3> QED
      BY <2>1, <3>1 DEF Placed, Chapter, Written
  <2>4. Told
    BY <2>3 DEF Told
  <2> QED
    BY <1>1, <2>1, <2>2, <2>3, <2>4 DEF FeedInv
<1>8. CASE UNCHANGED vars
  BY <1>4, <1>8 DEF vars, runnerVars, streamVars
<1> QED
  BY <1>2, <1>3, <1>5, <1>6, <1>7, <1>8 DEF Next, Handler, RequestSteps, ChildSteps

(* Whatever is connected when, every connection tells a well-formed story  *)
(* about every session, if it is prompted once and the CLI prints only     *)
(* frames and none after its result: the event stream (server.ts:405-500)  *)
(* implements SessionFeed.                                                 *)
THEOREM StreamsTellStories == PromptedOnce => (Spec => WellFormedStories)
<1> SUFFICES ASSUME PromptedOnce PROVE Spec => WellFormedStories
  OBVIOUS
<1>1. Init => FeedInv /\ Feed!FeedInit
  <2> SUFFICES ASSUME Init PROVE FeedInv /\ Feed!FeedInit
    OBVIOUS
  <2>1. streams = [c \in Clients |-> Closed] /\ Closed.log = [s \in Ids |-> <<>>]
    BY DEF Init, Closed
  <2>2. [c \in Clients |-> streams[c].log] = [c \in Clients |-> [s \in Ids |-> <<>>]]
    BY <2>1
  <2> QED
    BY <2>2, InitFeedInv DEF Feed!FeedInit
<1>2. FeedInv /\ [Next]_vars => FeedInv' /\ [Feed!FeedNext]_([c \in Clients |-> streams[c].log])
  <2> SUFFICES ASSUME FeedInv, [Next]_vars
               PROVE  FeedInv' /\ [Feed!FeedNext]_([c \in Clients |-> streams[c].log])
    OBVIOUS
  <2>1. FeedInv' /\ Told /\ streams \in [Clients -> Handling]
    BY NextFeedInv DEF FeedInv, AgreeInv, LogInv
  <2>2. ASSUME NEW c \in Clients, NEW s \in Ids
        PROVE  \/ streams'[c].log[s] = <<>>
               \/ Feed!Continues(streams[c].log[s], streams'[c].log[s])
    <3>1. streams[c].log[s] \in Seq(Entry)
      BY <2>1, LogType
    <3> QED
      BY <2>1, <3>1, GrowsContinues DEF Told
  <2>3. Feed!FeedNext
    BY <2>2 DEF Feed!FeedNext
  <2> QED
    BY <2>1, <2>3
<1> QED
  BY <1>1, <1>2, PTL DEF Spec, WellFormedStories, Feed!FeedSpec

=============================================================================
