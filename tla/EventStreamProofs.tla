-------------------------- MODULE EventStreamProofs --------------------------
(***************************************************************************)
(* What the sets of a connection's handler say of the sessions and of what *)
(* the connection was written, for any number of connections, sessions,    *)
(* runs and prompts.                                                       *)
(*                                                                         *)
(* A session settles in a callback, which emits the settled record in the  *)
(* same step (StepContract of CmdRunnerProofs); every listener that is     *)
(* given a record that is not running notes its session as settled, and    *)
(* none ever forgets it; and a connection that is made later replays all   *)
(* the settled sessions.  What it then tells of them is the theorem        *)
(* FirstOutcomeTold of EventStreamFeedProofs.                              *)
(***************************************************************************)
EXTENDS EventStream, CmdRunnerProofs

(* A value with the five fields of a connection's handler.                 *)
Connection(st) ==
  st \in [open : {st.open}, started : {st.started}, textStarted : {st.textStarted},
          settled : {st.settled}, log : {st.log}]

(* An open connection has noted a settlement of every settled session: of  *)
(* the latest run or, if the session was prompted again, of a former one.  *)
SettledIsNoted ==
  \A c \in Clients, s \in Ids :
    streams[c].open /\ sessions[s].state \in Settled => s \in streams[c].settled

ToldInv ==
  /\ RunnerTypeOK
  /\ RunsHaveIds
  /\ DOMAIN streams = Clients
  /\ \A c \in Clients : Connection(streams[c])
  /\ SettledIsNoted

-----------------------------------------------------------------------------
(* Writing events and the bookkeeping of starts leave the rest alone.      *)
LEMMA SendKeeps ==
  ASSUME NEW st, Connection(st), NEW id, NEW events
  PROVE  /\ Connection(Send(st, id, events))
         /\ Send(st, id, events).open = st.open
         /\ Send(st, id, events).settled = st.settled
<1> DEFINE log == [st.log EXCEPT ![id] = @ \o events]
<1>1. Send(st, id, events) = [st EXCEPT !.log = log]
  BY DEF Send
<1> HIDE DEF log
<1> QED
  BY <1>1 DEF Connection

LEMMA SettledGrows ==
  ASSUME NEW st, Connection(st), NEW value
  PROVE  /\ Connection([st EXCEPT !.settled = value])
         /\ [st EXCEPT !.settled = value].open = st.open
         /\ [st EXCEPT !.settled = value].settled = value
BY DEF Connection

LEMMA NoteKeeps ==
  ASSUME NEW st, Connection(st), NEW value
  PROVE  /\ Connection([st EXCEPT !.started = value])
         /\ [st EXCEPT !.started = value].open = st.open
         /\ [st EXCEPT !.started = value].settled = st.settled
         /\ Connection([st EXCEPT !.textStarted = value])
         /\ [st EXCEPT !.textStarted = value].open = st.open
         /\ [st EXCEPT !.textStarted = value].settled = st.settled
BY DEF Connection

LEMMA EmitStartKeeps ==
  ASSUME NEW st, Connection(st), NEW id
  PROVE  /\ Connection(EmitStart(st, id))
         /\ EmitStart(st, id).open = st.open
         /\ EmitStart(st, id).settled = st.settled
<1> DEFINE noted == [st EXCEPT !.started = st.started \cup {id}]
<1>1. EmitStart(st, id) = IF id \in st.started THEN st ELSE Send(noted, id, <<Plain("start")>>)
  BY DEF EmitStart
<1>2. Connection(noted) /\ noted.open = st.open /\ noted.settled = st.settled
  BY NoteKeeps
<1> HIDE DEF noted
<1> QED
  BY <1>1, <1>2, SendKeeps

LEMMA StreamDeltaKeeps ==
  ASSUME NEW st, Connection(st), NEW id, NEW frame, NEW seq
  PROVE  /\ Connection(StreamDelta(st, id, frame, seq))
         /\ StreamDelta(st, id, frame, seq).open = st.open
         /\ StreamDelta(st, id, frame, seq).settled = st.settled
<1> DEFINE delta == [type |-> "delta", run |-> frame.run, n |-> frame.n, seq |-> seq]
           noted == [st EXCEPT !.textStarted = st.textStarted \cup {id}]
<1>1. StreamDelta(st, id, frame, seq) =
        IF id \in st.textStarted THEN Send(st, id, <<delta>>)
        ELSE Send(noted, id, <<Plain("textStarted"), delta>>)
  BY DEF StreamDelta
<1>2. Connection(noted) /\ noted.open = st.open /\ noted.settled = st.settled
  BY NoteKeeps
<1> HIDE DEF noted, delta
<1> QED
  BY <1>1, <1>2, SendKeeps

LEMMA SettleNotes ==
  ASSUME NEW st, Connection(st), NEW id, NEW events
  PROVE  /\ Connection(Settle(st, id, events))
         /\ Settle(st, id, events).open = st.open
         /\ Settle(st, id, events).settled = st.settled \cup {id}
<1> DEFINE before == EmitStart(st, id)
           noted  == [before EXCEPT !.settled = before.settled \cup {id}]
<1>1. Settle(st, id, events) = Send(noted, id, events)
  BY DEF Settle
<1>2. Connection(before) /\ before.open = st.open /\ before.settled = st.settled
  BY EmitStartKeeps
<1> HIDE DEF before
<1>3. Connection(noted) /\ noted.open = before.open /\ noted.settled = before.settled \cup {id}
  BY <1>2, SettledGrows
<1> HIDE DEF noted
<1> QED
  BY <1>1, <1>2, <1>3, SendKeeps

(* A listener forgets no settled session, and notes the one it is told of. *)
LEMMA ReceiveNotes ==
  ASSUME NEW st, Connection(st), NEW m, NEW seq
  PROVE  /\ Connection(Receive(st, m, seq))
         /\ Receive(st, m, seq).open = st.open
         /\ st.settled \subseteq Receive(st, m, seq).settled
         /\ m.session.state # "running" => m.id \in Receive(st, m, seq).settled
<1>1. CASE m.session.state = "running"
  BY <1>1, EmitStartKeeps, StreamDeltaKeeps DEF Receive
<1>2. CASE m.session.state # "running" /\ m.id \in st.settled
  BY <1>2 DEF Receive
<1>3. CASE m.session.state # "running" /\ m.id \notin st.settled
  BY <1>3, SettleNotes DEF Receive
<1> QED
  BY <1>1, <1>2, <1>3

LEMMA ReceiveAllNotes ==
  ASSUME NEW st, Connection(st), NEW ms \in Seq(Emission), Len(ms) <= 2, NEW seq
  PROVE  /\ Connection(ReceiveAll(st, ms, seq))
         /\ ReceiveAll(st, ms, seq).open = st.open
         /\ st.settled \subseteq ReceiveAll(st, ms, seq).settled
         /\ \A i \in DOMAIN ms :
              ms[i].session.state # "running" => ms[i].id \in ReceiveAll(st, ms, seq).settled
<1>1. Len(ms) \in Nat /\ DOMAIN ms = 1 .. Len(ms)
  BY LenProperties
<1>2. CASE Len(ms) = 0
  BY <1>1, <1>2 DEF ReceiveAll
<1>3. CASE Len(ms) = 1
  BY <1>1, <1>3, ReceiveNotes DEF ReceiveAll
<1>4. CASE Len(ms) = 2
  <2>1. ReceiveAll(st, ms, seq) = Receive(Receive(st, ms[1], seq), ms[2], seq)
    BY <1>4 DEF ReceiveAll
  <2>2. \A i \in DOMAIN ms : i = 1 \/ i = 2
    BY <1>1, <1>4
  <2>3. /\ Connection(Receive(st, ms[1], seq))
        /\ Receive(st, ms[1], seq).open = st.open
        /\ st.settled \subseteq Receive(st, ms[1], seq).settled
        /\ ms[1].session.state # "running" => ms[1].id \in Receive(st, ms[1], seq).settled
    BY ReceiveNotes
  <2> QED
    BY <2>1, <2>2, <2>3, ReceiveNotes
<1> QED
  BY <1>1, <1>2, <1>3, <1>4

(* emit() reaches every open connection, in whatever order.                *)
LEMMA DeliverNotes ==
  ASSUME ToldInv, Deliver, wire' \in Seq(Emission), Len(wire') <= 2
  PROVE  /\ DOMAIN streams' = Clients
         /\ \A c \in Clients :
              /\ Connection(streams'[c])
              /\ streams'[c].open = streams[c].open
              /\ streams[c].open =>
                   /\ streams[c].settled \subseteq streams'[c].settled
                   /\ \A i \in DOMAIN wire' :
                        wire'[i].session.state # "running" => wire'[i].id \in streams'[c].settled
<1>1. \A c \in Clients :
        /\ c \in Listening => \E seq : streams'[c] = ReceiveAll(streams[c], wire', seq)
        /\ c \notin Listening => streams'[c] = streams[c]
  BY DEF Deliver, Publish
<1>2. DOMAIN streams' = Clients
  BY DEF Deliver, Publish
<1>3. ASSUME NEW c \in Clients
      PROVE  /\ Connection(streams'[c])
             /\ streams'[c].open = streams[c].open
             /\ streams[c].open =>
                  /\ streams[c].settled \subseteq streams'[c].settled
                  /\ \A i \in DOMAIN wire' :
                       wire'[i].session.state # "running" => wire'[i].id \in streams'[c].settled
  <2>1. Connection(streams[c])
    BY DEF ToldInv
  <2>2. CASE streams[c].open
    <3>1. PICK seq : streams'[c] = ReceiveAll(streams[c], wire', seq)
      BY <1>1, <2>2 DEF Listening
    <3> QED
      BY <2>1, <3>1, ReceiveAllNotes
  <2>3. CASE ~streams[c].open
    <3>1. streams'[c] = streams[c]
      BY <1>1, <2>3 DEF Listening
    <3> QED
      BY <2>1, <2>3, <3>1
  <2> QED
    BY <2>2, <2>3
<1> QED
  BY <1>2, <1>3

-----------------------------------------------------------------------------
(* A connection that is not made or just made.                             *)
LEMMA ClosedIsConnection == Connection(Closed) /\ ~Closed.open
BY DEF Connection, Closed

LEMMA SubscribedIsTold ==
  /\ Connection(Subscribed)
  /\ \A s \in Ids : sessions[s].state \in Settled => s \in Subscribed.settled
BY DEF Connection, Subscribed

(* The steps of the session store, each with its publication.              *)
LEMMA HandlerTells ==
  ASSUME ToldInv, Handler, Deliver PROVE ToldInv'
<1>1. [RunnerNext]_runnerVars
  BY DEF RunnerNext
<1>2. RunnerTypeOK' /\ RunsHaveIds'
  BY <1>1, NextRunnerTypeOK DEF ToldInv
<1>3. wire' \in Seq(Emission) /\ Len(wire') <= 2
  BY <1>2 DEF RunnerTypeOK
<1>4. DOMAIN streams' = Clients /\ \A c \in Clients : Connection(streams'[c])
  BY <1>3, DeliverNotes
<1>5. ASSUME NEW c \in Clients, NEW s \in Ids, streams'[c].open, sessions'[s].state \in Settled
      PROVE  s \in streams'[c].settled
  <2>1. /\ streams[c].open
        /\ streams[c].settled \subseteq streams'[c].settled
        /\ \A i \in DOMAIN wire' :
             wire'[i].session.state # "running" => wire'[i].id \in streams'[c].settled
    BY <1>3, <1>5, DeliverNotes
  <2>2. CASE sessions[s].state \in Settled
    BY <2>1, <2>2 DEF ToldInv, SettledIsNoted
  <2>3. CASE sessions[s].state \notin Settled
    <3>1. PICK i \in DOMAIN wire' : wire'[i].id = s /\ wire'[i].session = sessions'[s]
      BY <1>1, <1>5, <2>3, SettlingStep DEF ToldInv
    <3> QED
      BY <1>5, <2>1, <3>1 DEF Settled
  <2> QED
    BY <2>2, <2>3
<1>6. SettledIsNoted'
  BY <1>5 DEF SettledIsNoted
<1> QED
  BY <1>2, <1>4, <1>6 DEF ToldInv

(* The steps of the connections leave the store as it is.                  *)
LEMMA ConnectionTells ==
  ASSUME ToldInv, NEW c \in Clients, Connect(c) \/ Disconnect(c) PROVE ToldInv'
<1>1. /\ UNCHANGED <<sessions, runs, used, clock, births, prompts, stranded>>
      /\ wire' = <<>>
  BY DEF Connect, Disconnect
<1>2. RunnerTypeOK' /\ RunsHaveIds'
  BY <1>1, EmptyWire DEF ToldInv, RunnerTypeOK, RunsHaveIds
<1>3. /\ \A d \in Clients : d # c => streams'[d] = streams[d]
      /\ streams'[c] = Subscribed \/ streams'[c] = Closed
      /\ DOMAIN streams' = Clients
  BY DEF ToldInv, Connect, Disconnect
<1>4. \A d \in Clients : Connection(streams'[d])
  BY <1>3, ClosedIsConnection, SubscribedIsTold DEF ToldInv
<1>5. SettledIsNoted'
  BY <1>1, <1>3, ClosedIsConnection, SubscribedIsTold DEF ToldInv, SettledIsNoted
<1> QED
  BY <1>2, <1>3, <1>4, <1>5 DEF ToldInv

LEMMA InitToldInv == Init => ToldInv
<1> SUFFICES ASSUME Init PROVE ToldInv
  OBVIOUS
<1>1. \A c \in Clients : streams[c] = Closed
  BY DEF Init
<1> QED
  BY <1>1, InitRunnerTypeOK, ClosedIsConnection DEF Init, ToldInv, SettledIsNoted

LEMMA NextToldInv == ASSUME ToldInv, [Next]_vars PROVE ToldInv'
<1>1. CASE Handler /\ Deliver
  BY <1>1, HandlerTells
<1>2. CASE \E c \in Clients : Connect(c) \/ Disconnect(c)
  BY <1>2, ConnectionTells
<1>3. CASE DaemonRestart
  <2>1. RunnerTypeOK' /\ RunsHaveIds'
    BY <1>3, NextRunnerTypeOK DEF ToldInv, DaemonRestart, RunnerNext
  <2>2. DOMAIN streams' = Clients /\ \A c \in Clients : streams'[c] = Closed
    BY <1>3 DEF DaemonRestart
  <2> QED
    BY <2>1, <2>2, ClosedIsConnection DEF ToldInv, SettledIsNoted
<1>4. CASE UNCHANGED vars
  BY <1>4 DEF vars, runnerVars, streamVars, ToldInv, RunnerTypeOK, RunsHaveIds, SettledIsNoted
<1> QED
  BY <1>1, <1>2, <1>3, <1>4 DEF Next

-----------------------------------------------------------------------------
(***************************************************************************)
(* What the log of a connection can hold, whatever the CLI prints: nothing *)
(* that opens or ends a session's turn twice, and growing delta numbers.   *)
(*                                                                         *)
(* The sets of the handler are the argument: a session that is not in      *)
(* `started' has no start in its log, one that is not in `settled' has     *)
(* neither the end of the text nor the update; so each is written once.    *)
(* No number in a log exceeds the counter of its session, and a listener   *)
(* is given numbers above the counter's old value.                         *)
(***************************************************************************)
(* An event, with any number in its id.                                    *)
Entry == [type : EventTypes, run : 0 .. MaxRuns, n : 0 .. MaxDeltas, seq : Nat]

Has(l, type) == \E i \in DOMAIN l : l[i].type = type

Once(l, type) == \A i, j \in DOMAIN l : l[i].type = type /\ l[j].type = type => i = j

(* Events without a number in their id.                                    *)
Quiet(l) == \A i \in DOMAIN l : l[i].seq = 0

Growing(l, bound) ==
  /\ \A i \in DOMAIN l : l[i].seq <= bound
  /\ \A i, j \in DOMAIN l : i < j /\ l[i].type = "delta" /\ l[j].seq > 0 => l[i].seq < l[j].seq

Marks == {"start", "textEnded", "updated"}

(* The log of session s on a connection whose counter stands at bound.     *)
Story(st, s, bound) ==
  /\ s \notin st.started => ~Has(st.log[s], "start")
  /\ s \notin st.settled => ~Has(st.log[s], "textEnded") /\ ~Has(st.log[s], "updated")
  /\ s \in st.settled => Has(st.log[s], "updated")
  /\ \A type \in Marks : Once(st.log[s], type)
  /\ Growing(st.log[s], bound)

Handling ==
  [open : BOOLEAN, started : SUBSET Ids, textStarted : SUBSET Ids, settled : SUBSET Ids,
   log : [Ids -> Seq(Entry)]]

LogInv ==
  /\ RunnerTypeOK
  /\ RunsHaveIds
  /\ sequence \in [Ids -> Nat]
  /\ streams \in [Clients -> Handling]
  /\ \A c \in Clients, s \in Ids : Story(streams[c], s, sequence[s])

-----------------------------------------------------------------------------
(* Lists of events.                                                        *)
LEMMA ConcatEntries ==
  ASSUME NEW l \in Seq(Entry), NEW e \in Seq(Entry)
  PROVE  /\ l \o e \in Seq(Entry)
         /\ DOMAIN (l \o e) = 1 .. (Len(l) + Len(e))
         /\ DOMAIN l = 1 .. Len(l) /\ DOMAIN e = 1 .. Len(e)
         /\ Len(l) \in Nat /\ Len(e) \in Nat
         /\ \A i \in 1 .. Len(l) : (l \o e)[i] = l[i]
         /\ \A i \in 1 .. Len(e) : (l \o e)[Len(l) + i] = e[i]
         /\ \A i \in 1 .. (Len(l) + Len(e)) :
              \/ i \in 1 .. Len(l) /\ (l \o e)[i] = l[i]
              \/ i - Len(l) \in 1 .. Len(e) /\ (l \o e)[i] = e[i - Len(l)]
BY ConcatProperties, LenProperties

LEMMA EntryAt ==
  ASSUME NEW l \in Seq(Entry), NEW i \in DOMAIN l
  PROVE  l[i] \in Entry /\ l[i].seq \in Nat /\ i \in 1 .. Len(l)
<1>1. l[i] \in Entry /\ i \in 1 .. Len(l)
  BY LenProperties
<1> QED
  BY <1>1 DEF Entry

LEMMA ConcatHas ==
  ASSUME NEW l \in Seq(Entry), NEW e \in Seq(Entry), NEW type
  PROVE  Has(l \o e, type) <=> Has(l, type) \/ Has(e, type)
<1> DEFINE le == l \o e
<1>1. ASSUME NEW i \in DOMAIN le, le[i].type = type PROVE Has(l, type) \/ Has(e, type)
  BY <1>1, ConcatEntries DEF Has
<1>2. ASSUME NEW i \in DOMAIN l, l[i].type = type PROVE Has(le, type)
  BY <1>2, ConcatEntries DEF Has
<1>3. ASSUME NEW i \in DOMAIN e, e[i].type = type PROVE Has(le, type)
  <2>1. Len(l) + i \in DOMAIN le /\ le[Len(l) + i] = e[i]
    BY <1>3, ConcatEntries
  <2> QED
    BY <1>3, <2>1 DEF Has
<1> QED
  BY <1>1, <1>2, <1>3 DEF Has

LEMMA ConcatOnce ==
  ASSUME NEW l \in Seq(Entry), NEW e \in Seq(Entry), NEW type,
         Once(l, type), Once(e, type), ~Has(l, type) \/ ~Has(e, type)
  PROVE  Once(l \o e, type)
<1> DEFINE le == l \o e
<1> SUFFICES ASSUME NEW i \in DOMAIN le, NEW j \in DOMAIN le,
                    le[i].type = type, le[j].type = type
             PROVE  i = j
  BY DEF Once
<1>1. \A k \in DOMAIN le :
        \/ k \in DOMAIN l /\ le[k] = l[k]
        \/ k - Len(l) \in DOMAIN e /\ le[k] = e[k - Len(l)]
  BY ConcatEntries
<1>2. Len(l) \in Nat /\ i \in Int /\ j \in Int
  BY ConcatEntries
<1>3. CASE i \in DOMAIN l /\ le[i] = l[i] /\ j \in DOMAIN l /\ le[j] = l[j]
  BY <1>3 DEF Once
<1>4. CASE i - Len(l) \in DOMAIN e /\ le[i] = e[i - Len(l)]
           /\ j - Len(l) \in DOMAIN e /\ le[j] = e[j - Len(l)]
  <2>1. i - Len(l) = j - Len(l)
    BY <1>4 DEF Once
  <2> QED
    BY <1>2, <2>1
<1>5. CASE Has(l, type) /\ Has(e, type)
  BY <1>5
<1> QED
  BY <1>1, <1>3, <1>4, <1>5 DEF Has

LEMMA ConcatQuiet ==
  ASSUME NEW l \in Seq(Entry), NEW e \in Seq(Entry), Quiet(l), Quiet(e)
  PROVE  Quiet(l \o e)
BY ConcatEntries DEF Quiet

(* New numbers lie above the old ones.                                     *)
LEMMA ConcatGrowing ==
  ASSUME NEW l \in Seq(Entry), NEW e \in Seq(Entry), NEW low \in Nat, NEW high \in Nat,
         low <= high, Growing(l, low), Growing(e, high),
         \A i \in DOMAIN e : e[i].seq = 0 \/ e[i].seq > low
  PROVE  Growing(l \o e, high)
<1> DEFINE le == l \o e
<1>1. \A k \in DOMAIN le :
        \/ k \in DOMAIN l /\ le[k] = l[k]
        \/ k - Len(l) \in DOMAIN e /\ le[k] = e[k - Len(l)]
  BY ConcatEntries
<1>2. /\ Len(l) \in Nat /\ DOMAIN le = 1 .. (Len(l) + Len(e)) /\ Len(e) \in Nat
      /\ \A k \in DOMAIN l : l[k].seq \in Nat /\ k \in 1 .. Len(l)
      /\ \A k \in DOMAIN e : e[k].seq \in Nat /\ k \in 1 .. Len(e)
  BY ConcatEntries, EntryAt
<1>3. \A k \in DOMAIN le : le[k].seq <= high
  BY <1>1, <1>2 DEF Growing
<1>4. ASSUME NEW i \in DOMAIN le, NEW j \in DOMAIN le,
             i < j, le[i].type = "delta", le[j].seq > 0
      PROVE  le[i].seq < le[j].seq
  <2>1. CASE i \in DOMAIN l /\ le[i] = l[i] /\ j \in DOMAIN l /\ le[j] = l[j]
    BY <1>4, <2>1 DEF Growing
  <2>2. CASE i \in DOMAIN l /\ le[i] = l[i]
             /\ j - Len(l) \in DOMAIN e /\ le[j] = e[j - Len(l)]
    BY <1>2, <1>4, <2>2 DEF Growing
  <2>3. CASE i - Len(l) \in DOMAIN e /\ le[i] = e[i - Len(l)]
             /\ j - Len(l) \in DOMAIN e /\ le[j] = e[j - Len(l)]
    <3>1. i - Len(l) < j - Len(l)
      BY <1>2, <1>4
    <3> QED
      BY <1>4, <2>3, <3>1 DEF Growing
  <2>4. CASE i - Len(l) \in DOMAIN e /\ j \in DOMAIN l
    BY <1>2, <1>4, <2>4
  <2> QED
    BY <1>1, <2>1, <2>2, <2>3, <2>4
<1> QED
  BY <1>3, <1>4 DEF Growing

LEMMA QuietGrows ==
  ASSUME NEW e \in Seq(Entry), Quiet(e), NEW bound \in Nat
  PROVE  Growing(e, bound)
BY DEF Quiet, Growing

LEMMA GrowingRises ==
  ASSUME NEW l \in Seq(Entry), NEW low \in Nat, NEW high \in Nat, low <= high, Growing(l, low)
  PROVE  Growing(l, high)
<1>1. \A i \in DOMAIN l : l[i].seq \in Nat
  BY EntryAt
<1> QED
  BY <1>1 DEF Growing

-----------------------------------------------------------------------------
(* The event lists of compat.ts have no start and no number, and end the   *)
(* text and update the session at most once.                               *)
Turn(e) ==
  e \in Seq(Entry) /\ Quiet(e) /\ ~Has(e, "start") /\ ~Has(e, "updated") /\ Once(e, "textEnded")

Account(e) ==
  /\ e \in Seq(Entry) /\ Quiet(e) /\ ~Has(e, "start") /\ Has(e, "updated")
  /\ Once(e, "textEnded") /\ Once(e, "updated")

LEMMA PlainType ==
  ASSUME NEW type \in EventTypes
  PROVE  Plain(type) \in Entry /\ Plain(type).type = type /\ Plain(type).seq = 0
BY RunnerAssumption DEF Plain, Entry

LEMMA TextType ==
  ASSUME NEW type \in EventTypes, NEW run \in 0 .. MaxRuns
  PROVE  Text(type, run) \in Entry /\ Text(type, run).type = type /\ Text(type, run).seq = 0
BY RunnerAssumption DEF Text, Entry

LEMMA OneEntry ==
  ASSUME NEW x \in Entry
  PROVE  /\ <<x>> \in Seq(Entry)
         /\ \A type : (Has(<<x>>, type) <=> x.type = type) /\ Once(<<x>>, type)
         /\ x.seq = 0 => Quiet(<<x>>)
         /\ Growing(<<x>>, x.seq)
         /\ \A i \in DOMAIN <<x>> : <<x>>[i].seq = x.seq
<1>1. x.seq \in Nat
  BY DEF Entry
<1> QED
  BY <1>1 DEF Has, Once, Quiet, Growing

LEMMA NoEntry ==
  /\ <<>> \in Seq(Entry) /\ Quiet(<<>>)
  /\ \A type : ~Has(<<>>, type) /\ Once(<<>>, type)
BY DEF Has, Once, Quiet

LEMMA OnlyTurn ==
  ASSUME NEW condition \in BOOLEAN, NEW e, Turn(e)
  PROVE  Turn(Only(condition, e)) /\ (~Has(e, "textEnded") => ~Has(Only(condition, e), "textEnded"))
BY NoEntry DEF Only, Turn

LEMMA ConcatTurn ==
  ASSUME NEW a, NEW b, Turn(a), Turn(b), ~Has(a, "textEnded") \/ ~Has(b, "textEnded")
  PROVE  /\ Turn(a \o b)
         /\ Has(a \o b, "textEnded") <=> Has(a, "textEnded") \/ Has(b, "textEnded")
<1>1. a \in Seq(Entry) /\ b \in Seq(Entry)
  BY DEF Turn
<1> QED
  BY <1>1, ConcatEntries, ConcatHas, ConcatOnce, ConcatQuiet DEF Turn

LEMMA TurnUpdated ==
  ASSUME NEW e, Turn(e) PROVE Account(e \o <<Plain("updated")>>)
<1>1. /\ Plain("updated") \in Entry /\ Plain("updated").type = "updated"
      /\ Plain("updated").seq = 0
  BY PlainType DEF EventTypes
<1>2. e \in Seq(Entry) /\ <<Plain("updated")>> \in Seq(Entry)
  BY <1>1, OneEntry DEF Turn
<1> DEFINE last == <<Plain("updated")>>
<1>3. /\ ~Has(last, "start") /\ ~Has(last, "textEnded") /\ Quiet(last)
      /\ Once(last, "textEnded") /\ Once(last, "updated") /\ Has(last, "updated")
  BY <1>1, OneEntry
<1> HIDE DEF last
<1>4. Once(e, "updated")
  BY DEF Turn, Has, Once
<1>5. e \o last \in Seq(Entry) /\ Quiet(e \o last)
  BY <1>2, <1>3, ConcatEntries, ConcatQuiet DEF Turn, last
<1>6. ~Has(e \o last, "start") /\ Has(e \o last, "updated")
  BY <1>2, <1>3, ConcatHas DEF Turn, last
<1>7. Once(e \o last, "textEnded") /\ Once(e \o last, "updated")
  BY <1>2, <1>3, <1>4, ConcatOnce DEF Turn, last
<1> QED
  BY <1>5, <1>6, <1>7 DEF Account, last

LEMMA ListsAccount ==
  ASSUME NEW session \in Session, NEW streamed \in BOOLEAN
  PROVE  Account(ToEvents(session)) /\ Account(ToStreamEndEvents(session, streamed))
<1> DEFINE failed  == Only(Failed(session), <<Plain("stepFailed")>>)
           whole   == <<Plain("textStarted"), Text("delta", session.final),
                        Text("textEnded", session.final), Plain("stepEnded")>>
           ended   == <<Text("textEnded", session.final)>>
           stepped == <<Plain("stepEnded")>>
<1>1. session.final \in 0 .. MaxRuns
  BY RunnerAssumption DEF Session
<1>2. \A type \in EventTypes :
        /\ Plain(type) \in Entry /\ Plain(type).type = type /\ Plain(type).seq = 0
        /\ Text(type, session.final) \in Entry /\ Text(type, session.final).type = type
        /\ Text(type, session.final).seq = 0
  BY <1>1, PlainType, TextType
<1>3. /\ Turn(ended)
      /\ Turn(stepped) /\ ~Has(stepped, "textEnded")
      /\ Turn(<<Plain("stepFailed")>>) /\ ~Has(<<Plain("stepFailed")>>, "textEnded")
  BY <1>2, OneEntry DEF Turn, EventTypes
<1>4. Turn(whole)
  <2> DEFINE a == Plain("textStarted")
             b == Text("delta", session.final)
             c == Text("textEnded", session.final)
             d == Plain("stepEnded")
  <2>1. /\ a \in Entry /\ b \in Entry /\ c \in Entry /\ d \in Entry
        /\ a.type = "textStarted" /\ b.type = "delta" /\ c.type = "textEnded"
        /\ d.type = "stepEnded"
        /\ a.seq = 0 /\ b.seq = 0 /\ c.seq = 0 /\ d.seq = 0
    BY <1>2 DEF EventTypes
  <2> HIDE DEF a, b, c, d
  <2>2. <<a, b, c, d>> \in Seq(Entry) /\ DOMAIN <<a, b, c, d>> = 1 .. 4
    BY <2>1
  <2>3. Turn(<<a, b, c, d>>)
    BY <2>1, <2>2 DEF Turn, Quiet, Has, Once
  <2> QED
    BY <2>3 DEF a, b, c, d
<1> HIDE DEF whole, ended, stepped
<1>5. /\ Replied(session) \in BOOLEAN /\ Failed(session) \in BOOLEAN
      /\ (streamed /\ Replied(session)) \in BOOLEAN
  BY DEF Replied, Failed
<1>6. Turn(failed) /\ ~Has(failed, "textEnded")
  BY <1>3, <1>5, OnlyTurn
<1> HIDE DEF failed
<1>7. Account(ToEvents(session))
  <2>1. Turn(Only(Replied(session), whole))
    BY <1>4, <1>5, OnlyTurn
  <2>2. Turn(Only(Replied(session), whole) \o failed)
    BY <2>1, <1>6, ConcatTurn
  <2>3. ToEvents(session) = (Only(Replied(session), whole) \o failed) \o <<Plain("updated")>>
    BY DEF ToEvents, whole, failed
  <2> QED
    BY <2>2, <2>3, TurnUpdated
<1>8. Account(ToStreamEndEvents(session, streamed))
  <2>1. /\ Turn(Only(streamed /\ Replied(session), ended))
        /\ Turn(Only(Replied(session), stepped))
        /\ ~Has(Only(Replied(session), stepped), "textEnded")
    BY <1>3, <1>5, OnlyTurn
  <2>2. Turn(Only(streamed /\ Replied(session), ended) \o Only(Replied(session), stepped))
    BY <2>1, ConcatTurn
  <2>3. Turn((Only(streamed /\ Replied(session), ended) \o Only(Replied(session), stepped)) \o failed)
    BY <2>2, <1>6, ConcatTurn
  <2>4. ToStreamEndEvents(session, streamed) =
          ((Only(streamed /\ Replied(session), ended) \o Only(Replied(session), stepped)) \o failed)
          \o <<Plain("updated")>>
    BY DEF ToStreamEndEvents, ended, stepped, failed
  <2> QED
    BY <2>3, <2>4, TurnUpdated
<1> QED
  BY <1>7, <1>8

-----------------------------------------------------------------------------
(* The listener keeps every story: what it writes is not yet there.        *)
Stories(st, q) == st \in Handling /\ \A s \in Ids : Story(st, s, q[s])

LEMMA SendShape ==
  ASSUME NEW st \in Handling, NEW id \in Ids, NEW e \in Seq(Entry)
  PROVE  /\ Send(st, id, e) \in Handling
         /\ Send(st, id, e).started = st.started
         /\ Send(st, id, e).settled = st.settled
         /\ Send(st, id, e).log[id] = st.log[id] \o e
         /\ \A s \in Ids : s # id => Send(st, id, e).log[s] = st.log[s]
<1>1. st.log \in [Ids -> Seq(Entry)]
  BY DEF Handling
<1> DEFINE log == [st.log EXCEPT ![id] = st.log[id] \o e]
<1>2. /\ log \in [Ids -> Seq(Entry)] /\ log[id] = st.log[id] \o e
      /\ \A s \in Ids : s # id => log[s] = st.log[s]
  BY <1>1, ConcatEntries
<1>3. Send(st, id, e) = [st EXCEPT !.log = log]
  BY DEF Send
<1> HIDE DEF log
<1> QED
  BY <1>2, <1>3 DEF Handling

LEMMA NotingShape ==
  ASSUME NEW st \in Handling, NEW id \in Ids
  PROVE  /\ [st EXCEPT !.started = @ \cup {id}] \in Handling
         /\ [st EXCEPT !.started = @ \cup {id}].started = st.started \cup {id}
         /\ [st EXCEPT !.started = @ \cup {id}].settled = st.settled
         /\ [st EXCEPT !.started = @ \cup {id}].log = st.log
         /\ [st EXCEPT !.textStarted = @ \cup {id}] \in Handling
         /\ [st EXCEPT !.textStarted = @ \cup {id}].started = st.started
         /\ [st EXCEPT !.textStarted = @ \cup {id}].settled = st.settled
         /\ [st EXCEPT !.textStarted = @ \cup {id}].log = st.log
         /\ [st EXCEPT !.settled = @ \cup {id}] \in Handling
         /\ [st EXCEPT !.settled = @ \cup {id}].started = st.started
         /\ [st EXCEPT !.settled = @ \cup {id}].settled = st.settled \cup {id}
         /\ [st EXCEPT !.settled = @ \cup {id}].log = st.log
BY DEF Handling

LEMMA EmitStartStory ==
  ASSUME NEW q \in [Ids -> Nat], NEW st, Stories(st, q), NEW id \in Ids
  PROVE  /\ Stories(EmitStart(st, id), q)
         /\ id \in EmitStart(st, id).started
         /\ EmitStart(st, id).settled = st.settled
<1>1. CASE id \in st.started
  BY <1>1 DEF EmitStart
<1>2. CASE id \notin st.started
  <2> DEFINE noted == [st EXCEPT !.started = @ \cup {id}]
             start == <<Plain("start")>>
             u     == Send(noted, id, start)
  <2>1. EmitStart(st, id) = u
    BY <1>2 DEF EmitStart
  <2>2. st \in Handling
    BY DEF Stories
  <2>3. /\ noted \in Handling /\ noted.started = st.started \cup {id}
        /\ noted.settled = st.settled /\ noted.log = st.log
    BY <2>2, NotingShape
  <2>4. /\ start \in Seq(Entry) /\ Quiet(start)
        /\ \A type : Once(start, type)
        /\ ~Has(start, "textEnded") /\ ~Has(start, "updated")
    BY PlainType, OneEntry DEF EventTypes
  <2> HIDE DEF noted, start
  <2>5. /\ u \in Handling /\ u.started = st.started \cup {id} /\ u.settled = st.settled
        /\ u.log[id] = st.log[id] \o start
        /\ \A s \in Ids : s # id => u.log[s] = st.log[s]
    <3>1. /\ u \in Handling /\ u.started = noted.started /\ u.settled = noted.settled
          /\ u.log[id] = noted.log[id] \o start
          /\ \A s \in Ids : s # id => u.log[s] = noted.log[s]
      BY <2>3, <2>4, SendShape
    <3> QED
      BY <3>1, <2>3, <2>4
  <2> HIDE DEF u
  <2>6. st.log[id] \in Seq(Entry) /\ q[id] \in Nat /\ Story(st, id, q[id])
    BY <2>2 DEF Handling, Stories
  <2>7. Story(u, id, q[id])
    <3>1. ~Has(st.log[id], "start")
      BY <1>2, <2>6 DEF Story
    <3>2. \A type \in Marks : Once(u.log[id], type)
      BY <2>4, <2>5, <2>6, <3>1, ConcatOnce DEF Story, Marks
    <3>3. /\ id \notin u.settled => ~Has(u.log[id], "textEnded") /\ ~Has(u.log[id], "updated")
          /\ id \in u.settled => Has(u.log[id], "updated")
      BY <2>4, <2>5, <2>6, ConcatHas DEF Story
    <3>4. Growing(u.log[id], q[id])
      <4>1. Growing(start, q[id]) /\ \A i \in DOMAIN start : start[i].seq = 0
        BY <2>4, <2>6, QuietGrows DEF Quiet
      <4> QED
        BY <2>4, <2>5, <2>6, <4>1, ConcatGrowing DEF Story
    <3> QED
      BY <2>5, <3>2, <3>3, <3>4 DEF Story
  <2>8. \A s \in Ids : s # id => Story(u, s, q[s])
    BY <2>5 DEF Story, Stories
  <2> QED
    BY <2>1, <2>5, <2>7, <2>8 DEF Stories
<1> QED
  BY <1>1, <1>2

LEMMA SettleStory ==
  ASSUME NEW q \in [Ids -> Nat], NEW st, Stories(st, q), NEW id \in Ids, id \notin st.settled,
         NEW e, Account(e)
  PROVE  Stories(Settle(st, id, e), q)
<1> DEFINE before == EmitStart(st, id)
           noted  == [before EXCEPT !.settled = @ \cup {id}]
           u      == Send(noted, id, e)
<1>1. Settle(st, id, e) = u
  BY DEF Settle
<1>2. Stories(before, q) /\ id \in before.started /\ id \notin before.settled
  BY EmitStartStory
<1> HIDE DEF before
<1>3. before \in Handling
  BY <1>2 DEF Stories
<1>4. /\ noted \in Handling /\ noted.started = before.started
      /\ noted.settled = before.settled \cup {id} /\ noted.log = before.log
  BY <1>3, NotingShape
<1> HIDE DEF noted
<1>5. e \in Seq(Entry)
  BY DEF Account
<1>6. /\ u \in Handling /\ u.started = before.started /\ u.settled = before.settled \cup {id}
      /\ u.log[id] = before.log[id] \o e
      /\ \A s \in Ids : s # id => u.log[s] = before.log[s]
  <2>1. /\ u \in Handling /\ u.started = noted.started /\ u.settled = noted.settled
        /\ u.log[id] = noted.log[id] \o e
        /\ \A s \in Ids : s # id => u.log[s] = noted.log[s]
    BY <1>4, <1>5, SendShape
  <2> QED
    BY <2>1, <1>4, <1>5
<1> HIDE DEF u
<1>7. before.log[id] \in Seq(Entry) /\ q[id] \in Nat /\ Story(before, id, q[id])
  BY <1>2, <1>3 DEF Handling, Stories
<1>8. Story(u, id, q[id])
  <2>1. ~Has(before.log[id], "textEnded") /\ ~Has(before.log[id], "updated")
    BY <1>2, <1>7 DEF Story
  <2>2. Once(e, "start") /\ ~Has(e, "start")
    BY DEF Account, Has, Once
  <2>3. \A type \in Marks : Once(u.log[id], type)
    BY <1>5, <1>6, <1>7, <2>1, <2>2, ConcatOnce DEF Story, Marks, Account
  <2>4. Growing(u.log[id], q[id])
    <3>1. Growing(e, q[id]) /\ \A i \in DOMAIN e : e[i].seq = 0
      BY <1>5, <1>7, QuietGrows DEF Quiet, Account
    <3> QED
      BY <1>5, <1>6, <1>7, <3>1, ConcatGrowing DEF Story
  <2>5. Has(u.log[id], "updated")
    BY <1>5, <1>6, <1>7, ConcatHas DEF Account
  <2> QED
    BY <1>2, <1>6, <2>3, <2>4, <2>5 DEF Story
<1>9. \A s \in Ids : s # id => Story(u, s, q[s])
  BY <1>2, <1>6 DEF Story, Stories
<1> QED
  BY <1>1, <1>6, <1>8, <1>9 DEF Stories

LEMMA StoriesRise ==
  ASSUME NEW q \in [Ids -> Nat], NEW r \in [Ids -> Nat], \A s \in Ids : q[s] <= r[s],
         NEW st, Stories(st, q)
  PROVE  Stories(st, r)
<1>1. ASSUME NEW s \in Ids PROVE Story(st, s, r[s])
  <2>1. st.log[s] \in Seq(Entry) /\ q[s] \in Nat /\ r[s] \in Nat /\ Story(st, s, q[s])
    BY DEF Stories, Handling
  <2> QED
    BY <2>1, GrowingRises DEF Story
<1> QED
  BY <1>1 DEF Stories

LEMMA StreamDeltaStory ==
  ASSUME NEW q \in [Ids -> Nat], NEW r \in [Ids -> Nat], \A s \in Ids : q[s] <= r[s],
         NEW st, Stories(st, q), NEW id \in Ids, id \in st.started,
         NEW frame \in Frame, NEW seq \in Nat, q[id] < seq, seq <= r[id]
  PROVE  Stories(StreamDelta(st, id, frame, seq), r)
<1> DEFINE delta == [type |-> "delta", run |-> frame.run, n |-> frame.n, seq |-> seq]
           begun == Plain("textStarted")
           noted == [st EXCEPT !.textStarted = @ \cup {id}]
<1>1. delta \in Entry /\ delta.type = "delta" /\ delta.seq = seq
  <2>1. frame.run \in 0 .. MaxRuns /\ frame.n \in 0 .. MaxDeltas
    BY RunnerAssumption DEF Frame
  <2> QED
    BY <2>1 DEF Entry, EventTypes
<1>2. begun \in Entry /\ begun.type = "textStarted" /\ begun.seq = 0
  BY PlainType DEF EventTypes
<1>3. st \in Handling
  BY DEF Stories
<1>4. /\ noted \in Handling /\ noted.started = st.started
      /\ noted.settled = st.settled /\ noted.log = st.log
  BY <1>3, NotingShape
<1>5. StreamDelta(st, id, frame, seq) =
        IF id \in st.textStarted THEN Send(st, id, <<delta>>) ELSE Send(noted, id, <<begun, delta>>)
  BY DEF StreamDelta
<1> HIDE DEF delta, begun, noted
<1>6. q[id] \in Nat /\ r[id] \in Nat /\ q[id] <= r[id]
  OBVIOUS
<1> DEFINE Fresh(e) ==
             /\ e \in Seq(Entry) /\ Growing(e, r[id])
             /\ \A type \in Marks : ~Has(e, type)
             /\ \A i \in DOMAIN e : e[i].seq = 0 \/ e[i].seq > q[id]
<1>7. Fresh(<<delta>>)
  <2>1. Growing(<<delta>>, r[id])
    BY <1>1, <1>6, OneEntry, GrowingRises
  <2> QED
    BY <1>1, <2>1, OneEntry DEF Marks
<1>8. Fresh(<<begun, delta>>)
  <2>1. <<begun, delta>> \in Seq(Entry) /\ DOMAIN <<begun, delta>> = 1 .. 2
    BY <1>1, <1>2
  <2> QED
    BY <1>1, <1>2, <1>6, <2>1 DEF Growing, Has, Marks
<1>9. ASSUME NEW u \in Handling, u.started = st.started, u.settled = st.settled, u.log = st.log,
             NEW e, Fresh(e)
      PROVE  Stories(Send(u, id, e), r)
  <2> DEFINE v == Send(u, id, e)
  <2>1. /\ v \in Handling /\ v.started = u.started /\ v.settled = u.settled
        /\ v.log[id] = u.log[id] \o e
        /\ \A s \in Ids : s # id => v.log[s] = u.log[s]
    BY <1>9, SendShape
  <2> HIDE DEF v
  <2>2. st.log[id] \in Seq(Entry) /\ Story(st, id, q[id])
    BY <1>3 DEF Handling, Stories
  <2>3. Story(v, id, r[id])
    <3>1. \A type \in Marks : (Has(v.log[id], type) <=> Has(st.log[id], type))
      BY <1>9, <2>1, <2>2, ConcatHas
    <3>2. \A type \in Marks : Once(e, type)
      BY <1>9 DEF Has, Once
    <3>3. \A type \in Marks : Once(v.log[id], type)
      BY <1>9, <2>1, <2>2, <3>2, ConcatOnce DEF Story
    <3>4. Growing(v.log[id], r[id])
      <4>1. Growing(st.log[id], q[id])
        BY <2>2 DEF Story
      <4>2. /\ e \in Seq(Entry) /\ Growing(e, r[id])
            /\ \A i \in DOMAIN e : e[i].seq = 0 \/ e[i].seq > q[id]
        BY <1>9
      <4>3. Growing(st.log[id] \o e, r[id])
        BY <1>6, <2>2, <4>1, <4>2, ConcatGrowing
      <4> QED
        BY <1>9, <2>1, <4>3
    <3> QED
      BY <1>9, <2>1, <2>2, <3>1, <3>3, <3>4 DEF Story, Marks
  <2>4. ASSUME NEW s \in Ids, s # id PROVE Story(v, s, r[s])
    <3>1. Story(st, s, r[s])
      BY StoriesRise DEF Stories
    <3> QED
      BY <1>9, <2>1, <2>4, <3>1 DEF Story
  <2> QED
    BY <2>1, <2>3, <2>4 DEF Stories, v
<1> HIDE DEF Fresh
<1> QED
  BY <1>3, <1>4, <1>5, <1>7, <1>8, <1>9

LEMMA ReceiveStory ==
  ASSUME NEW q \in [Ids -> Nat], NEW r \in [Ids -> Nat], \A s \in Ids : q[s] <= r[s],
         NEW st, Stories(st, q), NEW m \in Emission, NEW seq \in Nat,
         Numbers(m) => q[m.id] < seq /\ seq <= r[m.id]
  PROVE  Stories(Receive(st, m, seq), r)
<1>1. m.id \in Ids /\ m.session \in Session /\ m.frame \in Frame
  BY DEF Emission
<1>2. CASE m.session.state = "running"
  <2>1. Stories(EmitStart(st, m.id), q) /\ m.id \in EmitStart(st, m.id).started
    BY <1>1, EmitStartStory
  <2>2. CASE m.frame.kind = "delta"
    <3>1. q[m.id] < seq /\ seq <= r[m.id]
      BY <1>2, <2>2 DEF Numbers
    <3>2. Receive(st, m, seq) = StreamDelta(EmitStart(st, m.id), m.id, m.frame, seq)
      BY <1>2, <2>2 DEF Receive
    <3> QED
      BY <1>1, <2>1, <3>1, <3>2, StreamDeltaStory
  <2>3. CASE m.frame.kind # "delta"
    <3>1. Receive(st, m, seq) = EmitStart(st, m.id)
      BY <1>2, <2>3 DEF Receive
    <3> QED
      BY <2>1, <3>1, StoriesRise
  <2> QED
    BY <2>2, <2>3
<1>3. CASE m.session.state # "running" /\ m.id \in st.settled
  <2>1. Receive(st, m, seq) = st
    BY <1>3 DEF Receive
  <2> QED
    BY <2>1, StoriesRise
<1>4. CASE m.session.state # "running" /\ m.id \notin st.settled
  <2> DEFINE e == ToStreamEndEvents(m.session, m.id \in st.textStarted)
  <2>1. Receive(st, m, seq) = Settle(st, m.id, e)
    BY <1>4 DEF Receive
  <2>2. Account(e)
    <3>1. (m.id \in st.textStarted) \in BOOLEAN
      OBVIOUS
    <3> QED
      BY <1>1, <3>1, ListsAccount
  <2> HIDE DEF e
  <2>3. Stories(Settle(st, m.id, e), q)
    BY <1>1, <1>4, <2>2, SettleStory
  <2> QED
    BY <2>1, <2>3, StoriesRise
<1> QED
  BY <1>2, <1>3, <1>4

LEMMA AtMostTwo == ASSUME NEW n \in Nat, n <= 2 PROVE n = 0 \/ n = 1 \/ n = 2
OBVIOUS

(* Only the first emission of a step can be a numbered delta.              *)
LEMMA ReceiveAllStory ==
  ASSUME NEW q \in [Ids -> Nat], NEW r \in [Ids -> Nat], \A s \in Ids : q[s] <= r[s],
         NEW st, Stories(st, q), NEW ms \in Seq(Emission), Len(ms) <= 2, NEW seq \in Nat,
         Len(ms) > 0 /\ Numbers(ms[1]) => q[ms[1].id] < seq /\ seq <= r[ms[1].id],
         Len(ms) = 2 => ~Numbers(ms[2])
  PROVE  Stories(ReceiveAll(st, ms, seq), r)
<1>1. Len(ms) \in Nat /\ (\A i \in 1 .. Len(ms) : ms[i] \in Emission)
  BY LenProperties
<1>2. CASE Len(ms) = 0
  <2>1. ReceiveAll(st, ms, seq) = st
    BY <1>2 DEF ReceiveAll
  <2> QED
    BY <2>1, StoriesRise
<1>3. ASSUME Len(ms) > 0 PROVE Stories(Receive(st, ms[1], seq), r)
  BY <1>1, <1>3, ReceiveStory
<1>4. CASE Len(ms) = 1
  BY <1>3, <1>4 DEF ReceiveAll
<1>5. CASE Len(ms) = 2
  <2>1. ReceiveAll(st, ms, seq) = Receive(Receive(st, ms[1], seq), ms[2], seq)
    BY <1>5 DEF ReceiveAll
  <2>2. Stories(Receive(st, ms[1], seq), r) /\ ms[2] \in Emission /\ ~Numbers(ms[2])
    BY <1>1, <1>3, <1>5
  <2>3. \A s \in Ids : r[s] <= r[s]
    OBVIOUS
  <2>4. Stories(Receive(Receive(st, ms[1], seq), ms[2], seq), r)
    BY <2>2, <2>3, ReceiveStory
  <2> QED
    BY <2>1, <2>4
<1>6. Len(ms) = 0 \/ Len(ms) = 1 \/ Len(ms) = 2
  BY <1>1, AtMostTwo
<1> QED
  BY <1>2, <1>4, <1>5, <1>6

-----------------------------------------------------------------------------
(* The second emission of a step is made by the close handler, which has   *)
(* no frame to pass on.                                                    *)
LEMMA FinishSynthetic ==
  ASSUME NEW ss, NEW id, NEW clean, NEW detail, Len(Finish(ss, id, clean, detail).wire) = 1
  PROVE  Finish(ss, id, clean, detail).wire[1].frame = Synthetic
<1> DEFINE last  == Finish(ss, id, clean, detail)
<1>1. \/ last.wire = <<>>
      \/ \E session : last.wire = Emit(id, session, Synthetic)
  BY DEF Finish, NoEffect
<1> HIDE DEF last
<1>2. last.wire # <<>>
  BY DEF last
<1>3. PICK session : last.wire = Emit(id, session, Synthetic)
  BY <1>1, <1>2
<1>4. last.wire[1].frame = Synthetic
  BY <1>3 DEF Emit
<1> QED
  BY <1>4 DEF last

LEMMA OneEmission ==
  ASSUME NEW ss, NEW id, NEW e, CallbackContract(ss, id, e)
  PROVE  Len(e.wire) \in {0, 1} /\ Len(e.wire) # 2
<1>1. e.wire = <<>> \/ Len(e.wire) = 1
  BY DEF CallbackContract
<1>2. CASE e.wire = <<>>
  BY <1>2
<1>3. CASE Len(e.wire) = 1
  BY <1>3
<1> QED
  BY <1>1, <1>2, <1>3

LEMMA HandlerWire ==
  ASSUME RunnerTypeOK, RunsHaveIds, Handler
  PROVE  /\ wire' \in Seq(Emission) /\ Len(wire') <= 2
         /\ Len(wire') = 2 => wire'[2].frame.kind = "synthetic"
<1>1. RunnerTypeOK'
  BY NextRunnerTypeOK DEF RunnerNext
<1>2. wire' \in Seq(Emission) /\ Len(wire') <= 2
  BY <1>1 DEF RunnerTypeOK
<1>3. Len(<<>>) = 0
  OBVIOUS
<1>4. \A id, session, frame : Len(Emit(id, session, frame)) = 1
  BY DEF Emit
<1>5. ASSUME NEW id \in Ids, Create(id) \/ Ensure(id) \/ Prompt(id) \/ Start(id)
      PROVE  Len(wire') # 2
  BY <1>3, <1>4, <1>5 DEF Create, Ensure, Prompt, Start
<1>6. CASE ClockMoves
  BY <1>2, <1>3, <1>6 DEF ClockMoves
<1>7. ASSUME NEW p \in Run PROVE sessions \in [Ids -> Session]
                                 /\ (ChildSteps(p) => runs[p].id \in Ids)
  BY ChildContract DEF RunnerTypeOK
<1>8. ASSUME NEW p \in Run, NEW kind \in LineKinds, Stdout(p, kind) PROVE Len(wire') # 2
  <2>1. FrameOf(p, kind) \in Frame /\ runs[p].id \in Ids
    BY <1>7, <1>8, FrameOfType DEF Stdout, ChildSteps
  <2>2. CallbackContract(sessions, runs[p].id, Dispatch(sessions, runs[p].id, FrameOf(p, kind)))
    BY <1>7, <2>1, DispatchContract
  <2> QED
    BY <1>8, <2>2, OneEmission DEF Stdout
<1>9. ASSUME NEW p \in Run, SpawnError(p) PROVE Len(wire') # 2
  <2>1. CallbackContract(sessions, runs[p].id, Fail(sessions, runs[p].id))
    BY <1>7, <1>9, FailContract DEF ChildSteps
  <2> QED
    BY <1>9, <2>1, OneEmission DEF SpawnError
<1>10. ASSUME NEW p \in Run, NEW clean \in BOOLEAN, NEW detail \in BOOLEAN, Close(p, clean, detail)
       PROVE  Len(wire') # 2
  <2>1. CallbackContract(sessions, runs[p].id, Finish(sessions, runs[p].id, clean, detail))
    BY <1>7, <1>10, FinishContract DEF ChildSteps, Closes
  <2> QED
    BY <1>10, <2>1, OneEmission DEF Close
<1>11. ASSUME NEW p \in Run, NEW clean \in BOOLEAN, NEW detail \in BOOLEAN, NEW kind \in LineKinds,
              CloseTrailing(p, kind, clean, detail), Len(wire') = 2
       PROVE  wire'[2].frame.kind = "synthetic"
  <2> DEFINE first == Dispatch(sessions, runs[p].id, FrameOf(p, kind))
             last  == Finish(first.sessions, runs[p].id, clean, detail)
  <2>1. FrameOf(p, kind) \in Frame /\ runs[p].id \in Ids
    BY <1>7, <1>11, FrameOfType DEF CloseTrailing, ChildSteps, Closes
  <2>2. CallbackContract(sessions, runs[p].id, first)
    BY <1>7, <2>1, DispatchContract
  <2>3. first.sessions \in [Ids -> Session]
    BY <2>2 DEF CallbackContract
  <2>4. CallbackContract(first.sessions, runs[p].id, last)
    BY <2>1, <2>3, FinishContract
  <2>5. wire' = first.wire \o last.wire
    BY <1>11 DEF CloseTrailing
  <2>6. Len(last.wire) = 1 => last.wire[1].frame = Synthetic
    BY FinishSynthetic
  <2> HIDE DEF first, last
  <2>7. /\ Joined(first.wire, last.wire, wire')
        /\ Len(first.wire) \in {0, 1} /\ Len(last.wire) \in {0, 1}
    BY <1>3, <2>2, <2>4, <2>5, ShortConcat DEF CallbackContract
  <2>8. Len(last.wire) = 1 /\ wire'[2] = last.wire[1]
    BY <1>3, <1>11, <2>7 DEF Joined
  <2> QED
    BY <2>6, <2>8 DEF Synthetic
<1>12. ASSUME Len(wire') = 2 PROVE wire'[2].frame.kind = "synthetic"
  BY <1>5, <1>6, <1>8, <1>9, <1>10, <1>11, <1>12 DEF Handler, Closes, ClockMoves
<1> QED
  BY <1>2, <1>12

(* emit() to every open connection, in whatever order.                     *)
LEMMA ListeningIsFinite == Cardinality(Listening) \in Nat
BY ClientsAssumption, FS_Subset, FS_CardinalityType DEF Listening

LEMMA DeliverStory ==
  ASSUME LogInv, Handler, Deliver
  PROVE  /\ sequence' \in [Ids -> Nat]
         /\ streams' \in [Clients -> Handling]
         /\ \A c \in Clients : Stories(streams'[c], sequence')
<1>1. /\ sequence \in [Ids -> Nat] /\ streams \in [Clients -> Handling]
      /\ \A c \in Clients : Stories(streams[c], sequence)
  BY DEF LogInv, Stories
<1>2. /\ wire' \in Seq(Emission) /\ Len(wire') <= 2
      /\ Len(wire') = 2 => ~Numbers(wire'[2])
  BY HandlerWire DEF LogInv, Numbers
<1>3. Len(wire') \in Nat /\ DOMAIN wire' = 1 .. Len(wire')
  BY <1>2, LenProperties
<1>4. \A i \in DOMAIN wire' : i = 1 \/ (i = 2 /\ Len(wire') = 2)
  BY <1>2, <1>3
<1>5. CASE Numbered(wire')
  <2> DEFINE id == wire'[1].id
  <2>1. Len(wire') > 0 /\ Numbers(wire'[1])
    BY <1>2, <1>3, <1>4, <1>5 DEF Numbered
  <2>2. wire'[1] \in Emission
    BY <1>2, <1>3, <2>1, LenProperties
  <2>3. id \in Ids
    BY <2>2 DEF Emission
  <2> HIDE DEF id
  <2>4. PICK order \in Orders :
          streams' = [c \in Clients |->
                        IF c \in Listening
                        THEN ReceiveAll(streams[c], wire', sequence[id] + order[c])
                        ELSE streams[c]]
    BY <1>5 DEF Deliver, Publish, id
  <2>5. sequence' = [sequence EXCEPT ![id] = sequence[id] + Cardinality(Listening)]
    BY <1>5 DEF Deliver, Publish, Taken, id
  <2>6. /\ sequence' \in [Ids -> Nat] /\ \A s \in Ids : sequence[s] <= sequence'[s]
        /\ sequence'[id] = sequence[id] + Cardinality(Listening)
    BY <1>1, <2>3, <2>5, ListeningIsFinite
  <2>7. ASSUME NEW c \in Clients PROVE Stories(streams'[c], sequence')
    <3>1. CASE c \in Listening
      <4> DEFINE seq == sequence[id] + order[c]
      <4>1. order[c] \in 1 .. Cardinality(Listening)
        BY <3>1 DEF Orders
      <4>2. seq \in Nat /\ sequence[id] < seq /\ seq <= sequence'[id]
        BY <1>1, <2>3, <2>6, <4>1, ListeningIsFinite
      <4>3. streams'[c] = ReceiveAll(streams[c], wire', seq)
        BY <2>4, <3>1
      <4> HIDE DEF seq
      <4>4. Stories(streams[c], sequence)
        BY <1>1
      <4>5. Stories(ReceiveAll(streams[c], wire', seq), sequence')
        BY <1>1, <1>2, <2>6, <4>2, <4>4, ReceiveAllStory DEF id
      <4> QED
        BY <4>3, <4>5
    <3>2. CASE c \notin Listening
      <4>1. streams'[c] = streams[c]
        BY <2>4, <3>2
      <4> QED
        BY <1>1, <2>6, <4>1, StoriesRise
    <3> QED
      BY <3>1, <3>2
  <2>8. streams' \in [Clients -> Handling]
    BY <2>4, <2>7 DEF Stories
  <2> QED
    BY <2>6, <2>7, <2>8
<1>6. CASE ~Numbered(wire')
  <2>1. sequence' = sequence
        /\ streams' = [c \in Clients |-> IF c \in Listening
                                         THEN ReceiveAll(streams[c], wire', 0)
                                         ELSE streams[c]]
    BY <1>6 DEF Deliver, Publish
  <2>2. Len(wire') > 0 => ~Numbers(wire'[1])
    BY <1>3, <1>6 DEF Numbered
  <2>3. \A s \in Ids : sequence[s] <= sequence[s]
    BY <1>1
  <2>4. ASSUME NEW c \in Clients PROVE Stories(streams'[c], sequence)
    <3>1. Stories(streams[c], sequence)
      BY <1>1
    <3>2. Stories(ReceiveAll(streams[c], wire', 0), sequence)
      BY <1>1, <1>2, <2>2, <2>3, <3>1, ReceiveAllStory
    <3> QED
      BY <2>1, <3>1, <3>2
  <2>5. streams' \in [Clients -> Handling]
    BY <2>1, <2>4 DEF Stories
  <2> QED
    BY <1>1, <2>1, <2>4, <2>5
<1> QED
  BY <1>5, <1>6

(* The replay to a new connection has every mark once.                     *)
LEMMA ReplayStory ==
  ASSUME NEW session \in Session
  PROVE  LET l == ReplayLog(session)
         IN /\ l \in Seq(Entry) /\ Quiet(l)
            /\ \A type \in Marks : Once(l, type)
            /\ session.state \notin Settled => ~Has(l, "textEnded") /\ ~Has(l, "updated")
            /\ session.state \in Settled => Has(l, "updated")
            /\ session.state \notin Settled \cup {"running"} => ~Has(l, "start")
<1> DEFINE start == <<Plain("start")>>
           e     == ToEvents(session)
<1>1. /\ start \in Seq(Entry) /\ Quiet(start)
      /\ \A type : Once(start, type)
      /\ ~Has(start, "textEnded") /\ ~Has(start, "updated")
  BY PlainType, OneEntry DEF EventTypes
<1>2. Account(e)
  BY ListsAccount
<1>3. ReplayLog(session) = CASE session.state = "running" -> start
                             [] session.state \in Settled -> start \o e
                             [] OTHER -> <<>>
  BY DEF ReplayLog
<1> HIDE DEF start, e
<1>4. CASE session.state = "running"
  BY <1>1, <1>3, <1>4 DEF Settled
<1>5. CASE session.state \in Settled
  <2>1. e \in Seq(Entry) /\ Quiet(e) /\ ~Has(e, "start")
    BY <1>2 DEF Account
  <2>2. \A type \in Marks : Once(e, type)
    BY <1>2 DEF Account, Marks, Has, Once
  <2>3. start \o e \in Seq(Entry) /\ Quiet(start \o e)
    BY <1>1, <2>1, ConcatEntries, ConcatQuiet
  <2>4. \A type \in Marks : ~Has(start, type) \/ ~Has(e, type)
    BY <1>1, <2>1 DEF Marks
  <2>5. \A type \in Marks : Once(start \o e, type)
    BY <1>1, <2>1, <2>2, <2>4, ConcatOnce
  <2>6. ReplayLog(session) = start \o e
    BY <1>3, <1>5 DEF Settled
  <2>7. Has(start \o e, "updated")
    BY <1>1, <1>2, <2>1, ConcatHas DEF Account
  <2> QED
    BY <1>5, <2>3, <2>5, <2>6, <2>7
<1>6. CASE session.state \notin Settled \cup {"running"}
  BY <1>3, <1>6, NoEntry
<1> QED
  BY <1>4, <1>5, <1>6

LEMMA SubscribedStory ==
  ASSUME LogInv PROVE Stories(Subscribed, sequence)
<1>1. sessions \in [Ids -> Session]
  BY DEF LogInv, RunnerTypeOK
<1>2. \A s \in Ids : ReplayLog(sessions[s]) \in Seq(Entry)
  BY <1>1, ReplayStory
<1>3. Subscribed \in Handling
  BY <1>2 DEF Subscribed, Handling
<1>4. ASSUME NEW s \in Ids PROVE Story(Subscribed, s, sequence[s])
  <2> DEFINE l == ReplayLog(sessions[s])
  <2>1. Subscribed.log[s] = l
    BY DEF Subscribed
  <2>2. /\ s \in Subscribed.started <=> sessions[s].state \in Settled \cup {"running"}
        /\ s \in Subscribed.settled <=> sessions[s].state \in Settled
    BY DEF Subscribed
  <2>3. sequence[s] \in Nat /\ sessions[s] \in Session
    BY <1>1 DEF LogInv
  <2>4. /\ l \in Seq(Entry) /\ Quiet(l)
        /\ \A type \in Marks : Once(l, type)
        /\ sessions[s].state \notin Settled => ~Has(l, "textEnded") /\ ~Has(l, "updated")
        /\ sessions[s].state \in Settled => Has(l, "updated")
        /\ sessions[s].state \notin Settled \cup {"running"} => ~Has(l, "start")
    BY <2>3, ReplayStory
  <2> HIDE DEF l
  <2>5. Growing(l, sequence[s])
    BY <2>3, <2>4, QuietGrows
  <2> QED
    BY <2>1, <2>2, <2>4, <2>5 DEF Story
<1> QED
  BY <1>3, <1>4 DEF Stories

LEMMA ClosedStory ==
  ASSUME NEW q \in [Ids -> Nat] PROVE Stories(Closed, q)
<1>1. Closed \in Handling
  BY NoEntry DEF Closed, Handling
<1>2. ASSUME NEW s \in Ids PROVE Story(Closed, s, q[s])
  <2>1. Closed.log[s] = <<>> /\ s \notin Closed.settled /\ q[s] \in Nat
    BY DEF Closed
  <2>2. Growing(<<>>, q[s])
    BY <2>1, NoEntry, QuietGrows
  <2> QED
    BY <2>1, <2>2, NoEntry DEF Story
<1> QED
  BY <1>1, <1>2 DEF Stories

-----------------------------------------------------------------------------
LEMMA InitLogInv == Init => LogInv
<1> SUFFICES ASSUME Init PROVE LogInv
  OBVIOUS
<1>1. RunnerTypeOK /\ RunsHaveIds
  BY InitRunnerTypeOK DEF Init
<1>2. sequence \in [Ids -> Nat]
  BY DEF Init
<1>3. Stories(Closed, sequence) /\ streams = [c \in Clients |-> Closed]
  BY <1>2, ClosedStory DEF Init
<1> QED
  BY <1>1, <1>2, <1>3 DEF LogInv, Stories

LEMMA NextLogInv == ASSUME LogInv, [Next]_vars PROVE LogInv'
<1>1. CASE Handler /\ Deliver
  <2>1. RunnerTypeOK' /\ RunsHaveIds'
    BY <1>1, NextRunnerTypeOK DEF LogInv, RunnerNext
  <2> QED
    BY <1>1, <2>1, DeliverStory DEF LogInv, Stories
<1>2. ASSUME NEW c \in Clients, Connect(c) \/ Disconnect(c) PROVE LogInv'
  <2>1. /\ UNCHANGED <<sessions, runs, used, clock, births, prompts, stranded, sequence>>
        /\ wire' = <<>>
    BY <1>2 DEF Connect, Disconnect
  <2>2. RunnerTypeOK' /\ RunsHaveIds'
    BY <2>1, EmptyWire DEF LogInv, RunnerTypeOK, RunsHaveIds
  <2>3. PICK st \in {Subscribed, Closed} : streams' = [streams EXCEPT ![c] = st]
    BY <1>2 DEF Connect, Disconnect
  <2>4. Stories(st, sequence)
    BY <2>3, SubscribedStory, ClosedStory DEF LogInv
  <2>5. /\ streams' \in [Clients -> Handling]
        /\ \A d \in Clients : Stories(streams'[d], sequence)
    BY <2>3, <2>4 DEF LogInv, Stories
  <2> QED
    BY <2>1, <2>2, <2>5 DEF LogInv, Stories
<1>3. CASE DaemonRestart
  <2>1. RunnerTypeOK' /\ RunsHaveIds'
    BY <1>3, NextRunnerTypeOK DEF LogInv, DaemonRestart, RunnerNext
  <2>2. sequence' \in [Ids -> Nat] /\ streams' = [d \in Clients |-> Closed]
    BY <1>3 DEF DaemonRestart
  <2> QED
    BY <2>1, <2>2, ClosedStory DEF LogInv, Stories
<1>4. CASE UNCHANGED vars
  BY <1>4 DEF vars, runnerVars, streamVars, LogInv, RunnerTypeOK, RunsHaveIds, Story
<1> QED
  BY <1>1, <1>2, <1>3, <1>4 DEF Next

LEMMA LogsAlways == Spec => []LogInv
<1>1. LogInv /\ [Next]_vars => LogInv'
  BY NextLogInv
<1> QED
  BY <1>1, InitLogInv, PTL DEF Spec

(* "late subscribers don't get duplicate start events, and live streams    *)
(* aren't replayed a second time" (server.ts:421-422): on one connection a *)
(* session starts once and is finalized once, whatever is prompted again.  *)
THEOREM WrittenOnce == Spec => []NothingTwice
<1>1. ASSUME LogInv PROVE NothingTwice
  <2> SUFFICES ASSUME NEW c \in Clients, NEW s \in Ids, NEW type \in Marks
               PROVE  Occurrences(streams[c].log[s], type) <= 1
    BY DEF NothingTwice, Marks
  <2> DEFINE l  == streams[c].log[s]
             at == {i \in DOMAIN l : l[i].type = type}
  <2>1. \A i, j \in at : i = j
    BY <1>1 DEF LogInv, Story, Once
  <2>2. Occurrences(l, type) = Cardinality(at)
    BY DEF Occurrences
  <2> HIDE DEF at
  <2>3. CASE at = {}
    BY <2>2, <2>3, FS_EmptySet
  <2>4. CASE at # {}
    <3>1. PICK i : at = {i}
      BY <2>1, <2>4
    <3> QED
      BY <2>2, <3>1, FS_Singleton
  <2> QED
    BY <2>3, <2>4
<1>2. LogInv => NothingTwice
  BY <1>1
<1> QED
  BY <1>2, LogsAlways, PTL

(* The number in a delta's event id grows along every connection, although *)
(* all connections draw from one counter (compat.ts:209-216).              *)
THEOREM NumbersGrow == Spec => []DeltaNumbersGrow
<1>1. LogInv => DeltaNumbersGrow
  BY DEF LogInv, Story, Growing, DeltaNumbersGrow
<1> QED
  BY <1>1, LogsAlways, PTL

-----------------------------------------------------------------------------
(* The counter of a session counts, at most once for every connection, the *)
(* deltas its children have printed.                                       *)
Spoken(s) ==
  {d \in Run \X (1 .. MaxDeltas) :
     runs[d[1]].phase # "unused" /\ runs[d[1]].id = s /\ d[2] <= runs[d[1]].deltas}

CountInv ==
  /\ LogInv
  /\ revived \subseteq Ids
  /\ \A s \in Ids : sequence[s] <= Cardinality(Spoken(s)) * Cardinality(Clients)

LEMMA EmitIs ==
  ASSUME NEW id, NEW session, NEW f
  PROVE  LET w == Emit(id, session, f)
         IN /\ Len(w) = 1 /\ DOMAIN w = {1} /\ w # <<>>
            /\ w[1].id = id /\ w[1].session = session /\ w[1].frame = f
BY DEF Emit

(* Children are not touched by a request.                                  *)
LEMMA RequestRuns ==
  ASSUME RunnerTypeOK, NEW id \in Ids, SpawnRun(id) \/ UNCHANGED runs,
         NEW q \in Run, runs[q].phase # "unused"
  PROVE  runs'[q] = runs[q]
<1>1. CASE UNCHANGED runs
  BY <1>1
<1>2. CASE ~UNCHANGED runs
  <2>1. PICK p \in Run :
          /\ runs[p].phase = "unused"
          /\ runs' = [runs EXCEPT ![p] = [id |-> id, phase |-> "spawning",
                                          verdict |-> "none", deltas |-> 0,
                                          rivals |-> {r \in Run : /\ runs[r].id = id
                                                                  /\ runs[r].phase \in Open}]]
    BY <1>2 DEF SpawnRun
  <2> QED
    BY <2>1 DEF RunnerTypeOK
<1> QED
  BY <1>1, <1>2

LEMMA FrameKinds ==
  ASSUME NEW ss, NEW id, NEW f
  PROVE  LET w == Dispatch(ss, id, f).wire
         IN w = <<>> \/ (DOMAIN w = {1} /\ Len(w) = 1 /\ w[1].frame.kind \in {f.kind, "synthetic"})
<1>1. \/ Dispatch(ss, id, f).wire = <<>>
      \/ \E session : Dispatch(ss, id, f).wire = Emit(id, session, f)
      \/ \E session : Dispatch(ss, id, f).wire = Emit(id, session, Synthetic)
  BY DEF Dispatch, Fail, ApplyFrame, NoEffect
<1> QED
  BY <1>1, EmitIs DEF Synthetic

LEMMA NoNumber ==
  ASSUME NEW w, w = <<>> \/ \E id, session : w = Emit(id, session, Synthetic)
  PROVE  ~Numbered(w)
<1>1. CASE w = <<>>
  BY <1>1 DEF Numbered
<1>2. ASSUME NEW id, NEW session, w = Emit(id, session, Synthetic) PROVE ~Numbered(w)
  <2>1. DOMAIN w = {1} /\ w[1].frame = Synthetic
    BY <1>2, EmitIs
  <2> QED
    BY <2>1 DEF Numbered, Numbers, Synthetic
<1> QED
  BY <1>1, <1>2

(* A numbered frame is a delta of the child that prints.                   *)
LEMMA ChildDeltas ==
  ASSUME RunnerTypeOK, RunsHaveIds, NEW p \in Run, ChildSteps(p)
  PROVE  /\ runs'[p].deltas \in {runs[p].deltas, runs[p].deltas + 1}
         /\ Numbered(wire') => runs'[p].deltas = runs[p].deltas + 1
<1> DEFINE id == runs[p].id
<1>1. /\ runs[p] \in Process /\ runs \in [Run -> Process] /\ runs[p].deltas \in Nat
      /\ sessions \in [Ids -> Session] /\ id \in Ids
  <2>1. runs \in [Run -> Process] /\ MaxDeltas \in Nat
    BY RunnerAssumption DEF RunnerTypeOK
  <2> QED
    BY <2>1, ChildContract DEF RunnerTypeOK, Process
<1>2. ASSUME NEW kind \in LineKinds, NEW phase
      PROVE  Printed(p, kind, phase).deltas =
               IF kind = "delta" THEN runs[p].deltas + 1 ELSE runs[p].deltas
  BY <1>1 DEF Printed, Process
<1>3. ASSUME NEW kind \in LineKinds, Stdout(p, kind)
      PROVE  /\ runs'[p].deltas \in {runs[p].deltas, runs[p].deltas + 1}
             /\ Numbered(wire') => runs'[p].deltas = runs[p].deltas + 1
  <2>1. /\ runs'[p] = Printed(p, kind, "live")
        /\ wire' = Dispatch(sessions, id, FrameOf(p, kind)).wire
    BY <1>1, <1>3 DEF Stdout
  <2>2. FrameOf(p, kind).kind = kind
    BY DEF FrameOf
  <2>3. wire' = <<>> \/ (DOMAIN wire' = {1} /\ wire'[1].frame.kind \in {kind, "synthetic"})
    BY <2>1, <2>2, FrameKinds
  <2>4. Numbered(wire') => kind = "delta"
    BY <2>3 DEF Numbered, Numbers
  <2> QED
    BY <1>2, <2>1, <2>4
<1>4. CASE SpawnError(p)
  <2>1. runs'[p].deltas = runs[p].deltas
    BY <1>1, <1>4 DEF SpawnError, Process
  <2>2. wire' = <<>> \/ \E session : wire' = Emit(id, session, Synthetic)
    BY <1>4 DEF SpawnError, Fail, NoEffect
  <2> QED
    BY <2>1, <2>2, NoNumber
<1>5. ASSUME NEW clean \in BOOLEAN, NEW detail \in BOOLEAN, Close(p, clean, detail)
      PROVE  runs'[p].deltas = runs[p].deltas /\ ~Numbered(wire')
  <2>1. runs'[p].deltas = runs[p].deltas
    BY <1>1, <1>5 DEF Close, Process
  <2>2. wire' = <<>> \/ \E session : wire' = Emit(id, session, Synthetic)
    BY <1>5 DEF Close, Finish, NoEffect
  <2> QED
    BY <2>1, <2>2, NoNumber
<1>6. ASSUME NEW clean \in BOOLEAN, NEW detail \in BOOLEAN, NEW kind \in LineKinds,
             CloseTrailing(p, kind, clean, detail)
      PROVE  /\ runs'[p].deltas \in {runs[p].deltas, runs[p].deltas + 1}
             /\ Numbered(wire') => runs'[p].deltas = runs[p].deltas + 1
  <2> DEFINE first == Dispatch(sessions, id, FrameOf(p, kind))
             last  == Finish(first.sessions, id, clean, detail)
  <2>1. runs'[p] = Printed(p, kind, Exit(clean)) /\ wire' = first.wire \o last.wire
    BY <1>1, <1>6 DEF CloseTrailing
  <2>2. FrameOf(p, kind) \in Frame /\ FrameOf(p, kind).kind = kind
    BY <1>6, FrameOfType DEF CloseTrailing, FrameOf
  <2>3. first.wire = <<>> \/ (DOMAIN first.wire = {1} /\ first.wire[1].frame.kind \in {kind, "synthetic"})
    BY <2>2, FrameKinds
  <2>4. last.wire = <<>> \/ \E session : last.wire = Emit(id, session, Synthetic)
    BY DEF Finish, NoEffect
  <2>5. CallbackContract(sessions, id, first) /\ first.sessions \in [Ids -> Session]
    BY <1>1, <2>2, DispatchContract DEF CallbackContract
  <2> HIDE DEF first
  <2>6. CallbackContract(first.sessions, id, last)
    BY <1>1, <2>5, FinishContract
  <2> HIDE DEF last
  <2>7. Joined(first.wire, last.wire, wire')
    <3>1. Len(first.wire) \in {0, 1} /\ Len(last.wire) \in {0, 1}
      BY <2>5, <2>6, OneEmission
    <3> QED
      BY <2>1, <2>5, <2>6, <3>1, ShortConcat DEF CallbackContract
  <2>8. Numbered(wire') => kind = "delta"
    <3>1. ~Numbered(last.wire)
      BY <2>4, NoNumber
    <3>2. Numbered(first.wire) => kind = "delta"
      BY <2>3 DEF Numbered, Numbers
    <3>3. CASE /\ Len(first.wire) = 1 /\ Len(last.wire) = 1
               /\ wire' \in Seq(Emission) /\ Len(wire') = 2
               /\ wire'[1] = first.wire[1] /\ wire'[2] = last.wire[1]
      <4>1. DOMAIN wire' = {1, 2}
        BY <3>3, LenProperties
      <4>2. 1 \in DOMAIN first.wire /\ 1 \in DOMAIN last.wire
        BY <2>5, <2>6, <3>3, LenProperties DEF CallbackContract
      <4> QED
        BY <3>1, <3>2, <3>3, <4>1, <4>2 DEF Numbered
    <3> QED
      BY <2>7, <3>1, <3>2, <3>3 DEF Joined
  <2> QED
    BY <1>2, <2>1, <2>8
<1> QED
  BY <1>3, <1>4, <1>5, <1>6 DEF ChildSteps, Closes

(* No child forgets a delta it printed, or whose child it is.              *)
Remembered ==
  \A q \in Run :
    runs[q].phase # "unused" =>
      /\ runs'[q].phase # "unused"
      /\ runs'[q].id = runs[q].id
      /\ runs'[q].deltas >= runs[q].deltas

(* Only a child's step publishes a numbered frame, and it prints a delta.  *)
LEMMA HandlerRemembers ==
  ASSUME RunnerTypeOK, RunsHaveIds, Handler
  PROVE  /\ Remembered
         /\ Numbered(wire') =>
              \E p \in Run : /\ runs[p].phase # "unused" /\ runs[p].id = wire'[1].id
                             /\ runs'[p].deltas = runs[p].deltas + 1
<1>1. runs \in [Run -> Process] /\ \A q \in Run : runs[q].deltas \in Nat
  <2>1. runs \in [Run -> Process] /\ MaxDeltas \in Nat
    BY RunnerAssumption DEF RunnerTypeOK
  <2> QED
    BY <2>1 DEF Process
<1>2. ASSUME NEW id \in Ids, RequestSteps(id) PROVE Remembered /\ ~Numbered(wire')
  <2>1. SpawnRun(id) \/ UNCHANGED runs
    BY <1>2, RequestContract
  <2>2. wire' = <<>> \/ \E i, session : wire' = Emit(i, session, Synthetic)
    BY <1>2, PromptType DEF RequestSteps, Create, Ensure, Start
  <2> QED
    BY <1>1, <2>1, <2>2, RequestRuns, NoNumber DEF Remembered
<1>3. ASSUME NEW p \in Run, ChildSteps(p)
      PROVE  /\ Remembered
             /\ Numbered(wire') => /\ runs[p].phase # "unused" /\ runs[p].id = wire'[1].id
                                   /\ runs'[p].deltas = runs[p].deltas + 1
  <2>1. runs[p].phase # "unused" /\ StepContract(runs[p].id)
    BY <1>3, ChildContract
  <2>2. /\ runs'[p].deltas \in {runs[p].deltas, runs[p].deltas + 1}
        /\ Numbered(wire') => runs'[p].deltas = runs[p].deltas + 1
    BY <1>3, ChildDeltas
  <2>3. runs'[p].deltas >= runs[p].deltas
    BY <1>1, <2>2
  <2>4. Remembered
    BY <1>1, <1>3, <2>3, ChildRuns DEF Remembered
  <2>5. Numbered(wire') => runs[p].id = wire'[1].id
    BY <2>1, LenProperties DEF StepContract, Numbered
  <2> QED
    BY <2>1, <2>2, <2>4, <2>5
<1>4. CASE ClockMoves
  BY <1>1, <1>4, NoNumber DEF ClockMoves, Remembered
<1> QED
  BY <1>2, <1>3, <1>4 DEF Handler, RequestSteps, ChildSteps

LEMMA SomeSpoken ==
  ASSUME NEW some \in SUBSET (Run \X (1 .. MaxDeltas))
  PROVE  /\ IsFiniteSet(some) /\ Cardinality(some) \in Nat
         /\ Cardinality(some) <= MaxRuns * MaxDeltas
<1>1. MaxRuns \in Nat /\ MaxDeltas \in Nat
  BY RunnerAssumption
<1>2. /\ IsFiniteSet(Run) /\ Cardinality(Run) = MaxRuns
      /\ IsFiniteSet(1 .. MaxDeltas) /\ Cardinality(1 .. MaxDeltas) = MaxDeltas
  <2>1. \A n \in Nat : IsFiniteSet(1 .. n) /\ Cardinality(1 .. n) = IF 1 > n THEN 0 ELSE n - 1 + 1
    BY FS_Interval
  <2>2. \A n \in Nat : IsFiniteSet(1 .. n) /\ Cardinality(1 .. n) = n
    BY <2>1
  <2> QED
    BY <1>1, <2>2 DEF Run
<1> DEFINE all == Run \X (1 .. MaxDeltas)
<1>3. IsFiniteSet(all) /\ Cardinality(all) = MaxRuns * MaxDeltas
  BY <1>2, FS_Product
<1> HIDE DEF all
<1>4. some \in SUBSET all
  BY DEF all
<1> QED
  BY <1>3, <1>4, FS_Subset, FS_CardinalityType

LEMMA SpokenGrows ==
  ASSUME RunnerTypeOK, RunnerTypeOK', Remembered, NEW s
  PROVE  /\ Cardinality(Spoken(s)) <= Cardinality(Spoken(s)')
         /\ \A p \in Run :
              runs[p].phase # "unused" /\ runs[p].id = s /\ runs'[p].deltas = runs[p].deltas + 1
                => Cardinality(Spoken(s)) + 1 <= Cardinality(Spoken(s)')
<1>1. MaxDeltas \in Nat
  BY RunnerAssumption
<1>2. \A q \in Run : runs[q].deltas \in 0 .. MaxDeltas /\ runs'[q].deltas \in 0 .. MaxDeltas
  BY DEF RunnerTypeOK, Process
<1>3. Spoken(s) \subseteq Spoken(s)'
  <2> SUFFICES ASSUME NEW d \in Spoken(s) PROVE d \in Spoken(s)'
    OBVIOUS
  <2>1. /\ d \in Run \X (1 .. MaxDeltas) /\ d[1] \in Run /\ d[2] \in 1 .. MaxDeltas
        /\ runs[d[1]].phase # "unused" /\ runs[d[1]].id = s /\ d[2] <= runs[d[1]].deltas
    BY DEF Spoken
  <2>2. d[2] <= runs'[d[1]].deltas
    BY <1>1, <1>2, <2>1 DEF Remembered
  <2> QED
    BY <2>1, <2>2 DEF Remembered, Spoken
<1>4. /\ IsFiniteSet(Spoken(s)) /\ IsFiniteSet(Spoken(s)')
      /\ Cardinality(Spoken(s)) \in Nat /\ Cardinality(Spoken(s)') \in Nat
  <2>1. Spoken(s) \in SUBSET (Run \X (1 .. MaxDeltas))
        /\ Spoken(s)' \in SUBSET (Run \X (1 .. MaxDeltas))
    BY DEF Spoken
  <2> QED
    BY <2>1, SomeSpoken
<1>5. ASSUME NEW p \in Run, runs[p].phase # "unused", runs[p].id = s,
             runs'[p].deltas = runs[p].deltas + 1
      PROVE  Cardinality(Spoken(s)) + 1 <= Cardinality(Spoken(s)')
  <2> DEFINE d == <<p, runs[p].deltas + 1>>
  <2>1. d \notin Spoken(s)
    BY <1>1, <1>2 DEF Spoken
  <2>2. d \in Spoken(s)'
    <3>1. runs[p].deltas + 1 \in 1 .. MaxDeltas /\ runs[p].deltas + 1 <= runs'[p].deltas
      BY <1>1, <1>2, <1>5
    <3> QED
      BY <1>5, <3>1 DEF Remembered, Spoken
  <2> HIDE DEF d
  <2>3. Cardinality(Spoken(s) \cup {d}) = Cardinality(Spoken(s)) + 1
    BY <1>4, <2>1, FS_AddElement
  <2>4. Spoken(s) \cup {d} \in SUBSET (Spoken(s)')
    BY <1>3, <2>2
  <2> QED
    BY <1>4, <2>3, <2>4, FS_Subset
<1> QED
  BY <1>3, <1>4, <1>5, FS_Subset

-----------------------------------------------------------------------------
LEMMA RoomFor ==
  ASSUME NEW a \in Nat, NEW b \in Nat, NEW c \in Nat, a <= b
  PROVE  /\ a * c <= b * c
         /\ (a + 1) * c = a * c + c
         /\ a * c \in Nat
<1>1. PICK d \in Nat : b = a + d
  <2>1. b - a \in Nat /\ b = a + (b - a)
    OBVIOUS
  <2> QED
    BY <2>1
<1>2. (a + d) * c = a * c + d * c /\ a * c \in Nat /\ d * c \in Nat
  OBVIOUS
<1> QED
  BY <1>1, <1>2

LEMMA InitCountInv == Init => CountInv
<1> SUFFICES ASSUME Init PROVE CountInv
  OBVIOUS
<1>1. revived \subseteq Ids /\ \A s \in Ids : sequence[s] = 0
  BY DEF Init
<1>2. \A s \in Ids : Cardinality(Spoken(s)) \in Nat
  BY SomeSpoken DEF Spoken
<1>3. Cardinality(Clients) \in Nat
  BY ClientsAssumption, FS_CardinalityType
<1> QED
  BY <1>1, <1>2, <1>3, RoomFor, InitLogInv DEF CountInv

LEMMA NextCountInv == ASSUME CountInv, [Next]_vars PROVE CountInv'
<1> DEFINE K == Cardinality(Clients)
<1>1. LogInv /\ LogInv' /\ RunnerTypeOK /\ RunsHaveIds /\ RunnerTypeOK'
  BY NextLogInv DEF CountInv, LogInv
<1>2. K \in Nat
  BY ClientsAssumption, FS_CardinalityType
<1>3. \A s \in Ids : Cardinality(Spoken(s)) \in Nat /\ Cardinality(Spoken(s)') \in Nat
  BY SomeSpoken DEF Spoken
<1>4. sequence \in [Ids -> Nat] /\ \A s \in Ids : sequence[s] \in Nat
  BY <1>1 DEF LogInv
<1> DEFINE Room(s) == sequence'[s] <= Cardinality(Spoken(s)') * K
<1>5. CASE Handler /\ Deliver
  <2>1. Remembered
    BY <1>1, <1>5, HandlerRemembers
  <2>2. ASSUME NEW s \in Ids, sequence'[s] = sequence[s] PROVE Room(s)
    <3>1. Cardinality(Spoken(s)) <= Cardinality(Spoken(s)')
      BY <1>1, <2>1, SpokenGrows
    <3>2. Cardinality(Spoken(s)) * K <= Cardinality(Spoken(s)') * K
      BY <1>2, <1>3, <3>1, RoomFor
    <3>3. Cardinality(Spoken(s)) * K \in Nat /\ Cardinality(Spoken(s)') * K \in Nat
      BY <1>2, <1>3, RoomFor
    <3>4. sequence[s] <= Cardinality(Spoken(s)) * K
      BY DEF CountInv
    <3> HIDE DEF K
    <3> QED
      BY <1>4, <2>2, <3>2, <3>3, <3>4
  <2>3. ASSUME Numbered(wire') PROVE \A s \in Ids : Room(s)
    <3>1. PICK p \in Run : /\ runs[p].phase # "unused" /\ runs[p].id = wire'[1].id
                           /\ runs'[p].deltas = runs[p].deltas + 1
      BY <1>1, <1>5, <2>3, HandlerRemembers
    <3>2. PICK id \in Ids : id = wire'[1].id
      BY <1>1, <3>1 DEF RunsHaveIds
    <3>3. sequence' = [sequence EXCEPT ![id] = sequence[id] + Cardinality(Listening)]
      BY <1>5, <2>3, <3>2 DEF Deliver, Publish, Taken
    <3>4. Cardinality(Spoken(id)) + 1 <= Cardinality(Spoken(id)')
      BY <1>1, <2>1, <3>1, <3>2, SpokenGrows
    <3>5. Cardinality(Listening) \in Nat /\ Cardinality(Listening) <= K
      BY ClientsAssumption, ListeningIsFinite, FS_Subset DEF Listening
    <3>6. Room(id)
      <4> DEFINE before == Cardinality(Spoken(id))
                 after  == Cardinality(Spoken(id)')
      <4>1. before \in Nat /\ after \in Nat /\ before + 1 <= after /\ before + 1 \in Nat
        BY <1>3, <3>4
      <4>2. sequence[id] <= before * K
        BY DEF CountInv
      <4>3. sequence'[id] = sequence[id] + Cardinality(Listening) /\ sequence[id] \in Nat
        BY <1>4, <3>3
      <4> HIDE DEF before, after, K
      <4>4. (before + 1) * K = before * K + K /\ before * K \in Nat
        BY <1>2, <4>1, RoomFor
      <4>5. (before + 1) * K <= after * K /\ after * K \in Nat
        BY <1>2, <4>1, RoomFor
      <4>6. sequence'[id] <= after * K
        BY <1>2, <3>5, <4>2, <4>3, <4>4, <4>5
      <4> QED
        BY <4>6 DEF after
    <3>7. \A s \in Ids : s # id => sequence'[s] = sequence[s]
      BY <1>4, <3>3
    <3> QED
      BY <2>2, <3>6, <3>7
  <2>4. ~Numbered(wire') => sequence' = sequence
    BY <1>5 DEF Deliver, Publish
  <2>5. \A s \in Ids : Room(s)
    BY <2>2, <2>3, <2>4
  <2>6. revived' \subseteq Ids
    BY <1>5 DEF Deliver, Revived
  <2> QED
    BY <1>1, <2>5, <2>6 DEF CountInv
<1>6. CASE \E c \in Clients : Connect(c) \/ Disconnect(c)
  <2>1. UNCHANGED <<runs, sequence, revived>>
    BY <1>6 DEF Connect, Disconnect
  <2> QED
    BY <1>1, <2>1 DEF CountInv, Spoken
<1>7. CASE DaemonRestart
  <2>1. revived' \subseteq Ids /\ \A s \in Ids : sequence'[s] = 0
    BY <1>7 DEF DaemonRestart
  <2>2. \A s \in Ids : Room(s)
    BY <1>2, <1>3, <2>1, RoomFor
  <2> QED
    BY <1>1, <2>1, <2>2 DEF CountInv
<1>8. CASE UNCHANGED vars
  <2>1. UNCHANGED <<runs, sequence, revived>>
    BY <1>8 DEF vars, runnerVars, streamVars
  <2> QED
    BY <1>1, <2>1 DEF CountInv, Spoken
<1> QED
  BY <1>5, <1>6, <1>7, <1>8 DEF Next

LEMMA CountGivesTypes == CountInv => StreamTypeOK
<1> SUFFICES ASSUME CountInv PROVE StreamTypeOK
  OBVIOUS
<1>1. /\ streams \in [Clients -> Handling] /\ sequence \in [Ids -> Nat]
      /\ \A c \in Clients, s \in Ids : Story(streams[c], s, sequence[s])
  BY DEF CountInv, LogInv
<1>2. ASSUME NEW s \in Ids PROVE MaxSequence \in Nat /\ sequence[s] \in 0 .. MaxSequence
  <2> DEFINE K == Cardinality(Clients)
             k == Cardinality(Spoken(s))
  <2>1. K \in Nat
    BY ClientsAssumption, FS_CardinalityType
  <2>2. k \in Nat /\ k <= MaxRuns * MaxDeltas
    BY SomeSpoken DEF Spoken
  <2>3. MaxRuns * MaxDeltas \in Nat
    BY RunnerAssumption, RoomFor
  <2>4. sequence[s] <= k * K /\ sequence[s] \in Nat
    BY <1>1 DEF CountInv
  <2>5. MaxSequence = (MaxRuns * MaxDeltas) * K
    BY DEF MaxSequence
  <2> HIDE DEF K, k
  <2>6. k * K <= MaxSequence /\ MaxSequence \in Nat /\ k * K \in Nat
    BY <2>1, <2>2, <2>3, <2>5, RoomFor
  <2> QED
    BY <2>4, <2>6
<1>3. ASSUME NEW c \in Clients, NEW s \in Ids PROVE streams[c].log[s] \in Seq(Event)
  <2> DEFINE l == streams[c].log[s]
  <2>1. l \in Seq(Entry)
    BY <1>1 DEF Handling
  <2>2. Growing(l, sequence[s])
    BY <1>1 DEF Story
  <2> HIDE DEF l
  <2>3. ASSUME NEW i \in 1 .. Len(l) PROVE l[i] \in Event
    <3>1. i \in DOMAIN l /\ l[i] \in Entry
      BY <2>1, <2>3, LenProperties
    <3>2. l[i].seq <= sequence[s] /\ l[i].seq \in Nat
      BY <2>1, <2>2, <3>1, EntryAt DEF Growing
    <3>3. l[i].seq \in 0 .. MaxSequence
      BY <1>2, <3>2
    <3> QED
      BY <3>1, <3>3 DEF Entry, Event
  <2>4. l \in Seq(Event)
    BY <2>1, <2>3, SeqDef, LenProperties
  <2> QED
    BY <2>4 DEF l
<1>4. streams \in [Clients -> Stream]
  BY <1>1, <1>3 DEF Handling, Stream
<1>5. sequence \in [Ids -> 0 .. MaxSequence]
  BY <1>1, <1>2
<1> QED
  BY <1>4, <1>5 DEF StreamTypeOK, CountInv

(* The states of the connections and of the module-level counter           *)
(* textDeltaSequence (compat.ts:48) have their types: the counter of a     *)
(* session passes no more than one number for every delta its children     *)
(* printed and every connection.                                           *)
THEOREM StreamTypesHold == Spec => []StreamTypeOK
<1>1. CountInv /\ [Next]_vars => CountInv'
  BY NextCountInv
<1> QED
  BY <1>1, InitCountInv, CountGivesTypes, PTL DEF Spec

-----------------------------------------------------------------------------
(***************************************************************************)
(* A connection that announced a session is never left waiting for it with *)
(* nobody to end it.                                                       *)
(*                                                                         *)
(* A session that is running has a child (RunningHasProcess), one that is  *)
(* settled has been noted (SettledIsNoted): what is left is a session that *)
(* is announced and idle.  A prompt never leaves one, no callback makes    *)
(* one, and the first frame that finds one settles it; so it can only be a *)
(* record that ensure() made anew.                                         *)
(***************************************************************************)
AnnouncedHasChild ==
  \A c \in Clients, s \in Ids :
    s \in streams[c].started =>
      \/ s \in streams[c].settled
      \/ ~streams[c].open
      \/ sessions[s].state = "absent" \/ s \in revived
      \/ s \in stranded
      \/ \E p \in Run : runs[p].id = s /\ runs[p].phase \in Open

(* No child and no outcome without a prompt, and no record under an id     *)
(* that was never handed out.                                              *)
PromptedFirst ==
  /\ \A p \in Run : runs[p].phase # "unused" => prompts[runs[p].id] > 0
  /\ \A s \in Ids : sessions[s].state \in Settled \cup {"running"} => prompts[s] > 0
  /\ Known(sessions) \subseteq used

(* What a connection may have announced.                                   *)
AnnouncedOf(st, s) ==
  st.open /\ s \in st.started =>
    /\ prompts[s] > 0
    /\ sessions[s].state = "idle" => s \in st.settled \/ s \in revived

Announced == \A c \in Clients, s \in Ids : AnnouncedOf(streams[c], s)

AnnouncedInv ==
  /\ ToldInv
  /\ OutcomeInv
  /\ PromptedFirst
  /\ Announced

-----------------------------------------------------------------------------
(* A listener notes as started the session it is told of, if any.          *)
LEMMA SendStarts ==
  ASSUME NEW st, Connection(st), NEW id, NEW events
  PROVE  Send(st, id, events).started = st.started
<1> DEFINE log == [st.log EXCEPT ![id] = @ \o events]
<1>1. Send(st, id, events) = [st EXCEPT !.log = log]
  BY DEF Send
<1> HIDE DEF log
<1> QED
  BY <1>1 DEF Connection

LEMMA NotedStarts ==
  ASSUME NEW st, Connection(st), NEW value
  PROVE  /\ [st EXCEPT !.started = value].started = value
         /\ [st EXCEPT !.textStarted = value].started = st.started
         /\ [st EXCEPT !.settled = value].started = st.started
BY DEF Connection

LEMMA EmitStartStarts ==
  ASSUME NEW st, Connection(st), NEW id
  PROVE  EmitStart(st, id).started = st.started \cup {id}
<1> DEFINE noted == [st EXCEPT !.started = st.started \cup {id}]
<1>1. EmitStart(st, id) = IF id \in st.started THEN st ELSE Send(noted, id, <<Plain("start")>>)
  BY DEF EmitStart
<1>2. Connection(noted) /\ noted.started = st.started \cup {id}
  BY NoteKeeps, NotedStarts
<1> HIDE DEF noted
<1>3. Send(noted, id, <<Plain("start")>>).started = st.started \cup {id}
  BY <1>2, SendStarts
<1> QED
  BY <1>1, <1>3

LEMMA StreamDeltaStarts ==
  ASSUME NEW st, Connection(st), NEW id, NEW frame, NEW seq
  PROVE  StreamDelta(st, id, frame, seq).started = st.started
<1> DEFINE delta == [type |-> "delta", run |-> frame.run, n |-> frame.n, seq |-> seq]
           noted == [st EXCEPT !.textStarted = st.textStarted \cup {id}]
<1>1. StreamDelta(st, id, frame, seq) =
        IF id \in st.textStarted THEN Send(st, id, <<delta>>)
        ELSE Send(noted, id, <<Plain("textStarted"), delta>>)
  BY DEF StreamDelta
<1>2. Connection(noted) /\ noted.started = st.started
  BY NoteKeeps, NotedStarts
<1> HIDE DEF noted, delta
<1>3. /\ Send(st, id, <<delta>>).started = st.started
      /\ Send(noted, id, <<Plain("textStarted"), delta>>).started = st.started
  BY <1>2, SendStarts
<1> QED
  BY <1>1, <1>3

LEMMA SettleStarts ==
  ASSUME NEW st, Connection(st), NEW id, NEW events
  PROVE  Settle(st, id, events).started = st.started \cup {id}
<1> DEFINE before == EmitStart(st, id)
           noted  == [before EXCEPT !.settled = before.settled \cup {id}]
<1>1. Settle(st, id, events) = Send(noted, id, events)
  BY DEF Settle
<1>2. Connection(before) /\ before.started = st.started \cup {id}
  BY EmitStartKeeps, EmitStartStarts
<1> HIDE DEF before
<1>3. Connection(noted) /\ noted.started = before.started
  BY <1>2, SettledGrows, NotedStarts
<1> HIDE DEF noted
<1> QED
  BY <1>1, <1>2, <1>3, SendStarts

LEMMA ReceiveStarts ==
  ASSUME NEW st, Connection(st), NEW m, NEW seq
  PROVE  Receive(st, m, seq).started \subseteq st.started \cup {m.id}
<1>1. CASE m.session.state = "running"
  <2>1. /\ Connection(EmitStart(st, m.id))
        /\ EmitStart(st, m.id).started = st.started \cup {m.id}
    BY EmitStartKeeps, EmitStartStarts
  <2>2. StreamDelta(EmitStart(st, m.id), m.id, m.frame, seq).started = st.started \cup {m.id}
    BY <2>1, StreamDeltaStarts
  <2> QED
    BY <1>1, <2>1, <2>2 DEF Receive
<1>2. CASE m.session.state # "running" /\ m.id \in st.settled
  BY <1>2 DEF Receive
<1>3. CASE m.session.state # "running" /\ m.id \notin st.settled
  BY <1>3, SettleStarts DEF Receive
<1> QED
  BY <1>1, <1>2, <1>3

LEMMA ReceiveAllStarts ==
  ASSUME NEW st, Connection(st), NEW ms \in Seq(Emission), Len(ms) <= 2, NEW seq,
         NEW s \in ReceiveAll(st, ms, seq).started, s \notin st.started
  PROVE  \E i \in DOMAIN ms : ms[i].id = s
<1>1. Len(ms) \in Nat /\ DOMAIN ms = 1 .. Len(ms)
  BY LenProperties
<1>2. Len(ms) # 0
  BY DEF ReceiveAll
<1>3. CASE Len(ms) = 1
  <2>1. ReceiveAll(st, ms, seq) = Receive(st, ms[1], seq)
    BY <1>3 DEF ReceiveAll
  <2>2. Receive(st, ms[1], seq).started \subseteq st.started \cup {ms[1].id}
    BY ReceiveStarts
  <2>3. 1 \in DOMAIN ms
    BY <1>1, <1>3
  <2> QED
    BY <2>1, <2>2, <2>3
<1>4. CASE Len(ms) = 2
  <2> DEFINE once == Receive(st, ms[1], seq)
  <2>1. ReceiveAll(st, ms, seq) = Receive(once, ms[2], seq)
    BY <1>4 DEF ReceiveAll
  <2>2. Connection(once) /\ once.started \subseteq st.started \cup {ms[1].id}
    BY ReceiveNotes, ReceiveStarts
  <2> HIDE DEF once
  <2>3. Receive(once, ms[2], seq).started \subseteq once.started \cup {ms[2].id}
    BY <2>2, ReceiveStarts
  <2>4. 1 \in DOMAIN ms /\ 2 \in DOMAIN ms
    BY <1>1, <1>4
  <2> QED
    BY <2>1, <2>2, <2>3, <2>4
<1> QED
  BY <1>1, <1>2, <1>3, <1>4, AtMostTwo

(* So no connection announces a session the step emitted nothing about.    *)
LEMMA DeliverStarts ==
  ASSUME ToldInv, Deliver, wire' \in Seq(Emission), Len(wire') <= 2,
         NEW c \in Clients, NEW s, streams'[c].open,
         s \in streams'[c].started, s \notin streams[c].started
  PROVE  \E i \in DOMAIN wire' : wire'[i].id = s
<1>1. streams'[c].open = streams[c].open /\ Connection(streams[c])
  BY DeliverNotes DEF ToldInv
<1>2. PICK seq : streams'[c] = ReceiveAll(streams[c], wire', seq)
  BY <1>1 DEF Deliver, Publish, Listening
<1> QED
  BY <1>1, <1>2, ReceiveAllStarts

-----------------------------------------------------------------------------
(* What a request leaves idle was idle or is new, and was not prompted;    *)
(* what it sets running, spawns or emits was.                              *)
AskedRecord(s) ==
  /\ prompts'[s] \in Nat /\ prompts'[s] >= prompts[s]
  /\ \/ sessions'[s] = sessions[s] /\ prompts'[s] = prompts[s]
     \/ sessions'[s].state = "absent"
     \/ sessions'[s].state = "idle" /\ sessions[s].state = "absent" /\ prompts'[s] = prompts[s]
     \/ sessions'[s].state = "running" /\ prompts'[s] > 0
  /\ sessions'[s].state # "absent" => s \in used'

Asked(id) ==
  /\ \A s \in Ids : AskedRecord(s)
  /\ UNCHANGED runs \/ (SpawnRun(id) /\ prompts'[id] > 0)
  /\ \/ wire' = <<>>
     \/ /\ \A i \in DOMAIN wire' : wire'[i].id = id
        /\ prompts'[id] > 0 /\ sessions'[id].state # "idle"

LEMMA AskedNaturals ==
  ASSUME RunnerTypeOK
  PROVE  /\ \A s \in Ids : prompts[s] \in Nat
         /\ DOMAIN prompts = Ids
BY RunnerAssumption DEF RunnerTypeOK

LEMMA MadeAsked ==
  ASSUME RunnerTypeOK, PromptedFirst, NEW id \in Ids, Create(id) \/ Ensure(id)
  PROVE  Asked(id)
<1>1. /\ births < MaxBirths /\ sessions' = Register(id) /\ used' = used \cup {id}
      /\ UNCHANGED <<runs, prompts>> /\ wire' = <<>>
  BY DEF Create, Ensure
<1>2. sessions[id].state = "absent"
  BY DEF Create, Ensure, PromptedFirst, Known
<1>3. /\ \A s \in Ids : s # id => sessions'[s] \in {sessions[s], Absent}
      /\ sessions'[id] \in {NewSession, Absent}
  BY <1>1, RegisterType
<1>4. NewSession.state = "idle" /\ Absent.state = "absent"
  BY DEF NewSession, Absent
<1>5. \A s \in Ids : prompts'[s] \in Nat /\ prompts'[s] >= prompts[s] /\ prompts'[s] = prompts[s]
  BY <1>1, AskedNaturals
<1>6. \A s \in Ids : sessions'[s].state # "absent" => s \in used'
  BY <1>1, <1>3, <1>4 DEF PromptedFirst, Known
<1>7. \A s \in Ids : AskedRecord(s)
  BY <1>2, <1>3, <1>4, <1>5, <1>6 DEF AskedRecord
<1>8. UNCHANGED runs /\ wire' = <<>>
  BY <1>1
<1> QED
  BY <1>7, <1>8 DEF Asked

(* The records of a prompt or a start: others as they were or dropped, its *)
(* own running or dropped.                                                 *)
LEMMA RunAsked ==
  ASSUME RunnerTypeOK, PromptedFirst, NEW id \in Ids,
         prompts' = [prompts EXCEPT ![id] = @ + 1], used' = used \cup {id},
         SpawnRun(id) \/ UNCHANGED runs,
         \A s \in Ids : s # id => sessions'[s] \in {sessions[s], Absent},
         sessions'[id].state \in {"running", "absent"},
         \A i \in DOMAIN wire' : wire'[i].id = id
  PROVE  Asked(id)
<1>1. \A s \in Ids : prompts[s] \in Nat
  BY AskedNaturals
<1>2. prompts'[id] = prompts[id] + 1 /\ \A s \in Ids : s # id => prompts'[s] = prompts[s]
  BY AskedNaturals
<1>3. Absent.state = "absent"
  BY DEF Absent
<1>4. \A s \in Ids : s # id => AskedRecord(s)
  BY <1>1, <1>2, <1>3 DEF AskedRecord, PromptedFirst, Known
<1>5. prompts'[id] \in Nat /\ prompts'[id] >= prompts[id] /\ prompts'[id] > 0
  BY <1>1, <1>2
<1>6. AskedRecord(id)
  BY <1>5 DEF AskedRecord
<1> QED
  BY <1>4, <1>5, <1>6 DEF Asked

LEMMA RequestAsked ==
  ASSUME RunnerTypeOK, PromptedFirst, NEW id \in Ids, RequestSteps(id)
  PROVE  Asked(id)
<1>1. Absent.state = "absent" /\ DOMAIN sessions = Ids
  BY DEF Absent, RunnerTypeOK
<1>2. CASE Prompt(id)
  <2>1. /\ prompts' = [prompts EXCEPT ![id] = @ + 1]
        /\ used' = used \cup {id}
    BY <1>2 DEF Prompt
  <2>2. \A i \in DOMAIN wire' : wire'[i].id = id
    BY <1>2, PromptType, EmitIs
  <2>3. SpawnRun(id) \/ UNCHANGED runs
    BY <1>2, PromptType
  <2>4. /\ PromptBase(id) \in [Ids -> Session]
        /\ \A s \in Ids : s # id => PromptBase(id)[s] \in {sessions[s], Absent}
        /\ PromptObject(id).state = "running"
    BY <1>2, PromptType
  <2>5. CASE sessions' = [PromptBase(id) EXCEPT ![id] = PromptObject(id)]
    BY <2>1, <2>2, <2>3, <2>4, <2>5, RunAsked
  <2>6. CASE sessions' = PromptBase(id) /\ id \notin Known(PromptBase(id))
    <3>1. sessions'[id].state = "absent"
      BY <2>6 DEF Known
    <3> QED
      BY <2>1, <2>2, <2>3, <2>4, <2>6, <3>1, RunAsked
  <2> QED
    BY <1>2, <2>5, <2>6, PromptType
<1>3. CASE Start(id)
  <2>1. /\ prompts' = [prompts EXCEPT ![id] = @ + 1]
        /\ used' = used \cup {id} /\ wire' = <<>> /\ births < MaxBirths
    BY <1>3 DEF Start
  <2>2. \A i \in DOMAIN wire' : wire'[i].id = id
    BY <2>1
  <2>3. SpawnRun(id) \/ UNCHANGED runs
    BY <1>3, StartType
  <2>4. /\ Register(id) \in [Ids -> Session]
        /\ \A s \in Ids : s # id => Register(id)[s] \in {sessions[s], Absent}
        /\ NewSession \in Session
    BY <2>1, RegisterType, NewSessionType DEF RunnerTypeOK
  <2>5. CASE id \in Known(Register(id))
    <3>1. Register(id)[id].state # "absent" /\ Register(id)[id] \in Session
      BY <2>4, <2>5 DEF Known
    <3>2. sessions' = [Register(id) EXCEPT ![id] = [Register(id)[id] EXCEPT !.state = "running"]]
      BY <1>3, <2>5 DEF Start
    <3>3. [Register(id)[id] EXCEPT !.state = "running"].state = "running"
      BY <3>1 DEF Session
    <3>4. /\ sessions'[id].state = "running"
          /\ \A s \in Ids : s # id => sessions'[s] \in {sessions[s], Absent}
      BY <2>4, <3>2, <3>3
    <3> QED
      BY <2>1, <2>2, <2>3, <3>4, RunAsked
  <2>6. CASE id \notin Known(Register(id))
    <3>1. sessions' = Register(id) /\ sessions'[id].state = "absent"
      BY <1>3, <2>6 DEF Start, Known
    <3> QED
      BY <2>1, <2>2, <2>3, <2>4, <3>1, RunAsked
  <2> QED
    BY <2>5, <2>6
<1> QED
  BY <1>2, <1>3, MadeAsked DEF RequestSteps

(* What the history notes of a record that is made anew.                   *)
LEMMA RevivedNotes ==
  ASSUME RunnerTypeOK, Deliver, NEW s \in Ids, prompts'[s] = prompts[s]
  PROVE  /\ s \in revived => s \in revived'
         /\ /\ sessions[s].state = "absent" /\ sessions'[s].state # "absent" /\ prompts[s] > 0
            => s \in revived'
BY DEF Deliver, Revived

(* A connection keeps what it announced under these terms in any step that *)
(* leaves a record idle only if it was idle or is new, or tells of it.     *)
LEMMA AnnouncedKept ==
  ASSUME AnnouncedInv, Deliver, wire' \in Seq(Emission), Len(wire') <= 2,
         NEW s \in Ids, prompts'[s] \in Nat, prompts'[s] >= prompts[s],
         prompts[s] \in Nat,
         \A i \in DOMAIN wire' : wire'[i].id = s => prompts'[s] > 0,
         sessions'[s].state = "idle" =>
           \/ \E i \in DOMAIN wire' : wire'[i].id = s /\ wire'[i].session.state # "running"
           \/ /\ prompts'[s] = prompts[s] /\ sessions[s].state \in {"idle", "absent"}
              /\ \A i \in DOMAIN wire' : wire'[i].id # s,
         NEW c \in Clients
  PROVE  AnnouncedOf(streams[c], s)'
<1> SUFFICES ASSUME streams'[c].open, s \in streams'[c].started
             PROVE  /\ prompts'[s] > 0
                    /\ sessions'[s].state = "idle" => s \in streams'[c].settled \/ s \in revived'
  BY DEF AnnouncedOf
<1>1. ToldInv /\ RunnerTypeOK
  BY DEF AnnouncedInv, ToldInv
<1>2. /\ streams[c].open
      /\ streams[c].settled \subseteq streams'[c].settled
      /\ \A i \in DOMAIN wire' :
           wire'[i].session.state # "running" => wire'[i].id \in streams'[c].settled
  BY <1>1, DeliverNotes
<1>3. s \in streams[c].started \/ \E i \in DOMAIN wire' : wire'[i].id = s
  BY <1>1, DeliverStarts
<1>4. s \in streams[c].started =>
        /\ prompts[s] > 0
        /\ sessions[s].state = "idle" => s \in streams[c].settled \/ s \in revived
  BY <1>2 DEF AnnouncedInv, Announced, AnnouncedOf
<1>5. prompts'[s] > 0
  BY <1>3, <1>4
<1>6. ASSUME sessions'[s].state = "idle" PROVE s \in streams'[c].settled \/ s \in revived'
  <2>1. CASE \E i \in DOMAIN wire' : wire'[i].id = s /\ wire'[i].session.state # "running"
    BY <1>2, <2>1
  <2>2. CASE /\ prompts'[s] = prompts[s] /\ sessions[s].state \in {"idle", "absent"}
             /\ \A i \in DOMAIN wire' : wire'[i].id # s
    <3>1. s \in streams[c].started /\ prompts[s] > 0
      BY <1>3, <1>4, <2>2
    <3>2. CASE sessions[s].state = "idle"
      BY <1>1, <1>2, <1>4, <2>2, <3>1, <3>2, RevivedNotes
    <3>3. CASE sessions[s].state = "absent"
      BY <1>1, <1>6, <2>2, <3>1, <3>3, RevivedNotes
    <3> QED
      BY <2>2, <3>2, <3>3
  <2> QED
    BY <1>6, <2>1, <2>2
<1> QED
  BY <1>5, <1>6

LEMMA RequestAnnounces ==
  ASSUME AnnouncedInv, NEW id \in Ids, RequestSteps(id), Deliver,
         wire' \in Seq(Emission), Len(wire') <= 2
  PROVE  PromptedFirst' /\ Announced'
<1>1. RunnerTypeOK /\ RunsHaveIds /\ PromptedFirst
  BY DEF AnnouncedInv, ToldInv
<1>2. Asked(id)
  BY <1>1, RequestAsked
<1>3. \A s \in Ids : prompts[s] \in Nat
  BY <1>1, AskedNaturals
<1>4. \A s \in Ids : AskedRecord(s)
  BY <1>2 DEF Asked
<1>5. ASSUME NEW p \in Run, runs'[p].phase # "unused" PROVE prompts'[runs'[p].id] > 0
  <2>1. CASE runs'[p] = runs[p]
    <3>1. runs[p].id \in Ids /\ prompts[runs[p].id] > 0
      BY <1>1, <1>5, <2>1 DEF RunsHaveIds, PromptedFirst
    <3> QED
      BY <1>3, <1>4, <2>1, <3>1 DEF AskedRecord
  <2>2. CASE runs'[p] # runs[p]
    <3>1. SpawnRun(id) /\ prompts'[id] > 0
      BY <1>2, <2>2 DEF Asked
    <3>2. runs'[p].id = id
      BY <1>1, <2>2, <3>1, SpawnRunType
    <3> QED
      BY <3>1, <3>2
  <2> QED
    BY <2>1, <2>2
<1>6. ASSUME NEW s \in Ids, sessions'[s].state \in Settled \cup {"running"} PROVE prompts'[s] > 0
  BY <1>1, <1>4, <1>6 DEF AskedRecord, PromptedFirst, Settled
<1>7. PromptedFirst'
  BY <1>4, <1>5, <1>6 DEF PromptedFirst, AskedRecord, Known
<1>8. ASSUME NEW c \in Clients, NEW s \in Ids PROVE AnnouncedOf(streams[c], s)'
  <2>1. \A i \in DOMAIN wire' : wire'[i].id = s => prompts'[s] > 0 /\ sessions'[s].state # "idle"
    <3>1. CASE wire' = <<>>
      BY <3>1, EmptySeq
    <3>2. CASE /\ \A i \in DOMAIN wire' : wire'[i].id = id
               /\ prompts'[id] > 0 /\ sessions'[id].state # "idle"
      BY <3>2
    <3> QED
      BY <1>2, <3>1, <3>2 DEF Asked
  <2>2. sessions'[s].state = "idle" =>
          /\ prompts'[s] = prompts[s] /\ sessions[s].state \in {"idle", "absent"}
          /\ \A i \in DOMAIN wire' : wire'[i].id # s
    BY <1>4, <2>1 DEF AskedRecord
  <2>3. prompts'[s] \in Nat /\ prompts'[s] >= prompts[s]
    BY <1>4 DEF AskedRecord
  <2> QED
    BY <1>3, <2>1, <2>2, <2>3, AnnouncedKept
<1> QED
  BY <1>7, <1>8 DEF Announced

(* A callback leaves the record it emits; if that is idle, the emission    *)
(* settles the session on every open connection (server.ts:447).           *)
LEMMA ChildAnnounces ==
  ASSUME AnnouncedInv, NEW p \in Run, ChildSteps(p), Deliver,
         wire' \in Seq(Emission), Len(wire') <= 2
  PROVE  PromptedFirst' /\ Announced'
<1> DEFINE id == runs[p].id
<1>1. RunnerTypeOK /\ RunsHaveIds /\ PromptedFirst
  BY DEF AnnouncedInv, ToldInv
<1>2. id \in Ids /\ runs[p].phase # "unused" /\ StepContract(id)
  BY <1>1, ChildContract
<1>3. /\ \A q \in Run : q # p => runs'[q] = runs[q]
      /\ runs'[p].id = id
      /\ UNCHANGED <<used, prompts>>
  BY <1>1, ChildRuns
<1>4. prompts[id] > 0
  BY <1>1, <1>2 DEF PromptedFirst
<1>5. \A s \in Ids : prompts'[s] = prompts[s] /\ prompts[s] \in Nat
  BY <1>1, <1>3, AskedNaturals
<1> HIDE DEF id
<1>6. /\ \A s \in Ids : s # id => sessions'[s] = sessions[s]
      /\ sessions'[id].state = "absent" <=> sessions[id].state = "absent"
      /\ \A i \in 1 .. Len(wire') : wire'[i].id = id
      /\ \/ sessions'[id] = sessions[id] /\ wire' = <<>>
         \/ Len(wire') > 0 /\ wire'[Len(wire')].session = sessions'[id]
  BY <1>2 DEF StepContract
<1>7. PromptedFirst'
  <2>1. \A q \in Run : runs'[q].phase # "unused" => prompts'[runs'[q].id] > 0
    BY <1>1, <1>3, <1>4 DEF PromptedFirst
  <2>2. \A s \in Ids : sessions'[s].state \in Settled \cup {"running"} => prompts'[s] > 0
    BY <1>1, <1>4, <1>5, <1>6 DEF PromptedFirst
  <2>3. Known(sessions)' \subseteq used'
    BY <1>1, <1>3, <1>6 DEF PromptedFirst, Known
  <2> QED
    BY <2>1, <2>2, <2>3 DEF PromptedFirst
<1>8. DOMAIN wire' = 1 .. Len(wire') /\ Len(wire') \in Nat
  BY LenProperties
<1>9. ASSUME NEW c \in Clients, NEW s \in Ids PROVE AnnouncedOf(streams[c], s)'
  <2>1. \A i \in DOMAIN wire' : wire'[i].id = s => prompts'[s] > 0
    BY <1>4, <1>5, <1>6, <1>8
  <2>2. ASSUME sessions'[s].state = "idle"
        PROVE  \/ \E i \in DOMAIN wire' : wire'[i].id = s /\ wire'[i].session.state # "running"
               \/ /\ prompts'[s] = prompts[s] /\ sessions[s].state \in {"idle", "absent"}
                  /\ \A i \in DOMAIN wire' : wire'[i].id # s
    <3>1. CASE s # id
      BY <1>5, <1>6, <1>8, <2>2, <3>1
    <3>2. CASE s = id /\ sessions'[id] = sessions[id] /\ wire' = <<>>
      BY <1>5, <2>2, <3>2, EmptySeq
    <3>3. CASE s = id /\ Len(wire') > 0 /\ wire'[Len(wire')].session = sessions'[id]
      <4>1. Len(wire') \in DOMAIN wire' /\ wire'[Len(wire')].id = s
        BY <1>6, <1>8, <3>3
      <4> QED
        BY <2>2, <3>3, <4>1
    <3> QED
      BY <1>6, <3>1, <3>2, <3>3
  <2> QED
    BY <1>5, <2>1, <2>2, AnnouncedKept
<1> QED
  BY <1>7, <1>9 DEF Announced

LEMMA HandlerAnnounces ==
  ASSUME AnnouncedInv, Handler, Deliver PROVE AnnouncedInv'
<1>1. ToldInv'
  BY HandlerTells DEF AnnouncedInv
<1>2. OutcomeInv'
  BY NextOutcomeInv DEF AnnouncedInv, RunnerNext
<1>3. wire' \in Seq(Emission) /\ Len(wire') <= 2
  BY <1>1 DEF ToldInv, RunnerTypeOK
<1>4. CASE \E id \in Ids : RequestSteps(id)
  BY <1>1, <1>2, <1>3, <1>4, RequestAnnounces DEF AnnouncedInv
<1>5. CASE \E p \in Run : ChildSteps(p)
  BY <1>1, <1>2, <1>3, <1>5, ChildAnnounces DEF AnnouncedInv
<1>6. CASE ClockMoves
  <2>1. wire' = <<>> /\ UNCHANGED <<sessions, runs, used, prompts>>
    BY <1>6 DEF ClockMoves
  <2>2. PromptedFirst'
    BY <2>1 DEF AnnouncedInv, PromptedFirst
  <2>3. \A s \in Ids : prompts[s] \in Nat
    BY AskedNaturals DEF AnnouncedInv, ToldInv
  <2>4. ASSUME NEW c \in Clients, NEW s \in Ids PROVE AnnouncedOf(streams[c], s)'
    <3>1. /\ prompts'[s] = prompts[s] /\ prompts'[s] \in Nat /\ prompts'[s] >= prompts[s]
          /\ sessions'[s] = sessions[s] /\ DOMAIN wire' = {}
      BY <2>1, <2>3, EmptySeq
    <3> QED
      BY <1>3, <2>3, <3>1, AnnouncedKept
  <2> QED
    BY <1>1, <1>2, <2>2, <2>4 DEF AnnouncedInv, Announced
<1> QED
  BY <1>4, <1>5, <1>6 DEF Handler, RequestSteps, ChildSteps

(* A new connection announces what is running or settled.                  *)
LEMMA ConnectionAnnounces ==
  ASSUME AnnouncedInv, NEW c \in Clients, Connect(c) \/ Disconnect(c)
  PROVE  AnnouncedInv'
<1>1. ToldInv'
  BY ConnectionTells DEF AnnouncedInv
<1>2. UNCHANGED <<sessions, runs, used, prompts, stranded, revived>>
  BY DEF Connect, Disconnect
<1>3. OutcomeInv' /\ PromptedFirst'
  BY <1>1, <1>2
  DEF AnnouncedInv, ToldInv, OutcomeInv, UnusedAreBlank, PromptedFirst, ErrorExplained,
      DoneHasEvidence, RunningHasProcess
<1>4. /\ \A d \in Clients : d # c => streams'[d] = streams[d]
      /\ streams'[c] = Subscribed \/ streams'[c] = Closed
  BY DEF AnnouncedInv, ToldInv, Connect, Disconnect
<1>5. /\ \A s \in Subscribed.started : sessions[s].state \in Settled \cup {"running"}
      /\ ~Closed.open
  BY DEF Subscribed, Closed
<1>6. ASSUME NEW d \in Clients, NEW s \in Ids PROVE AnnouncedOf(streams[d], s)'
  <2>1. CASE streams'[d] = streams[d]
    BY <1>2, <2>1 DEF AnnouncedInv, Announced, AnnouncedOf
  <2>2. CASE streams'[d] = Subscribed
    BY <1>2, <1>5, <2>2 DEF AnnouncedInv, PromptedFirst, AnnouncedOf, Settled
  <2>3. CASE streams'[d] = Closed
    BY <1>5, <2>3 DEF AnnouncedOf
  <2> QED
    BY <1>4, <2>1, <2>2, <2>3
<1> QED
  BY <1>1, <1>3, <1>6 DEF AnnouncedInv, Announced

LEMMA RestartAnnounces ==
  ASSUME AnnouncedInv, ToldInv', DaemonRestart PROVE AnnouncedInv'
<1>1. OutcomeInv'
  BY NextOutcomeInv DEF AnnouncedInv, DaemonRestart, RunnerNext
<1>2. /\ \A s \in Ids : sessions'[s].state = "absent"
      /\ UNCHANGED <<used, prompts>>
  BY DEF DaemonRestart, Restart, Absent
<1>3. \A p \in Run : runs'[p].id = runs[p].id /\ (runs[p].phase = "unused" => runs'[p].phase = "unused")
  BY DEF DaemonRestart, Restart, Open, AnnouncedInv, ToldInv, RunnerTypeOK, Process
<1>4. PromptedFirst'
  BY <1>2, <1>3 DEF AnnouncedInv, PromptedFirst, Known, Settled
<1>5. \A c \in Clients : ~streams'[c].open
  BY ClosedIsConnection DEF DaemonRestart
<1> QED
  BY <1>1, <1>4, <1>5 DEF AnnouncedInv, Announced, AnnouncedOf

LEMMA InitAnnouncedInv == Init => AnnouncedInv
<1> SUFFICES ASSUME Init PROVE AnnouncedInv
  OBVIOUS
<1>1. \A c \in Clients : streams[c] = Closed
  BY DEF Init
<1>2. ToldInv
  BY <1>1, InitRunnerTypeOK, ClosedIsConnection DEF Init, ToldInv, SettledIsNoted
<1>3. OutcomeInv
  BY InitOutcomeInv DEF Init
<1>4. PromptedFirst
  BY DEF Init, RunnerInit, NoProcess, Absent, PromptedFirst, Known, Settled
<1> QED
  BY <1>1, <1>2, <1>3, <1>4, ClosedIsConnection DEF AnnouncedInv, Announced, AnnouncedOf

LEMMA NextAnnouncedInv == ASSUME AnnouncedInv, [Next]_vars PROVE AnnouncedInv'
<1>1. CASE Handler /\ Deliver
  BY <1>1, HandlerAnnounces
<1>2. CASE \E c \in Clients : Connect(c) \/ Disconnect(c)
  BY <1>2, ConnectionAnnounces
<1>3. CASE DaemonRestart
  <2>1. RunnerTypeOK' /\ RunsHaveIds'
    BY <1>3, NextRunnerTypeOK DEF AnnouncedInv, ToldInv, DaemonRestart, RunnerNext
  <2>2. DOMAIN streams' = Clients /\ \A c \in Clients : streams'[c] = Closed
    BY <1>3 DEF DaemonRestart
  <2>3. ToldInv'
    BY <2>1, <2>2, ClosedIsConnection DEF ToldInv, SettledIsNoted
  <2> QED
    BY <1>3, <2>3, RestartAnnounces
<1>4. CASE UNCHANGED vars
  BY <1>4
  DEF vars, runnerVars, streamVars, AnnouncedInv, ToldInv, RunnerTypeOK, RunsHaveIds,
      SettledIsNoted, OutcomeInv, UnusedAreBlank, ErrorExplained, DoneHasEvidence,
      RunningHasProcess,
      PromptedFirst, Known, Announced, AnnouncedOf
<1> QED
  BY <1>1, <1>2, <1>3, <1>4 DEF Next

LEMMA AnnouncedInvSuffices == AnnouncedInv => AnnouncedHasChild
<1> SUFFICES ASSUME AnnouncedInv, NEW c \in Clients, NEW s \in Ids,
                    s \in streams[c].started, streams[c].open, s \notin streams[c].settled,
                    sessions[s].state # "absent", s \notin revived, s \notin stranded
             PROVE  \E p \in Run : runs[p].id = s /\ runs[p].phase \in Open
  BY DEF AnnouncedHasChild
<1>1. sessions[s].state \in {"absent", "idle", "running", "done", "error"}
  BY DEF AnnouncedInv, ToldInv, RunnerTypeOK, Session
<1>2. sessions[s].state \notin Settled
  BY DEF AnnouncedInv, ToldInv, SettledIsNoted
<1>3. sessions[s].state # "idle"
  BY DEF AnnouncedInv, Announced, AnnouncedOf
<1>4. sessions[s].state = "running"
  BY <1>1, <1>2, <1>3 DEF Settled
<1> QED
  BY <1>4 DEF AnnouncedInv, OutcomeInv, RunningHasProcess

(* The safety half of AnnouncedIsSettled: whatever a connection announced  *)
(* and has not settled has a child whose close event will settle it,       *)
(* unless the connection is closed, the record was dropped (and perhaps    *)
(* made anew), or its spawn() threw (server.ts:423-469, runner.ts:185-240).*)
THEOREM AnnouncedIsSupervised == Spec => []AnnouncedHasChild
<1>1. AnnouncedInv /\ [Next]_vars => AnnouncedInv'
  BY NextAnnouncedInv
<1> QED
  BY <1>1, InitAnnouncedInv, AnnouncedInvSuffices, PTL DEF Spec

=============================================================================
