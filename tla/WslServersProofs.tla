-------------------------- MODULE WslServersProofs --------------------------
(***************************************************************************)
(* Proofs about WslServers: what holds of every server whatever calls,     *)
(* exits and shutdowns interleave, and what holds of one whose calls come  *)
(* one after the other.                                                    *)
(*                                                                         *)
(* The argument: a call reserves the number of the process it will spawn,  *)
(* so no two calls and no handle ever share one; a handle is alive because *)
(* it is dropped in the step that kills its process; and the calls of an   *)
(* orderly server run on an empty Map, which they empty first.             *)
(***************************************************************************)
EXTENDS WslServers, TLAPS

-----------------------------------------------------------------------------
(* The inductive invariant, one server at a time.                          *)

(* A call has a number reserved for the process it will spawn, free until  *)
(* it spawns it; a removal has none.                                       *)
CallIsSound(s, c) ==
  LET call == calls[s][c]
  IN /\ call.at = "idle" => call.new = 0
     /\ call.at = "stopping" => call.old \in Proc
     /\ call.at \in {"installing", "checking"} => call.next = "install"
     /\ call.at = "spawning" => call.next # "remove" /\ call.new \in Proc /\ procs[s][call.new] = "booting"
     /\ call.at \in {"stopping", "installing", "checking"} =>
          IF call.next = "remove" THEN call.new = 0 ELSE call.new \in Proc /\ procs[s][call.new] = "gone"

NumbersApart(s) ==
  \A c, d \in Call : c # d /\ calls[s][c].new # 0 => calls[s][c].new # calls[s][d].new

HandleLives(s) ==
  sidecars[s] # 0 =>
    \/ procs[s][sidecars[s]] = "up"
    \/ procs[s][sidecars[s]] = "stopping" /\ sidecars[s] \in shutdown[s]

Served(s) ==
  s \notin forgotten /\ runtime[s] = "ready" =>
    \/ sidecars[s] # 0
    \/ \E c \in Call : calls[s][c].at = "stopping"

(* What a server is like while its calls come one after the other.         *)
Orderly(s) ==
  /\ s \notin forgotten
  /\ \A c, d \in InFlight(s) : c = d
  /\ InFlight(s) # {} => sidecars[s] = 0
  /\ Running(s) \subseteq {sidecars[s]} \cup Spawning(s)
  /\ ~Listed(s) => sidecars[s] = 0 /\ Running(s) = {}
  /\ \A c \in InFlight(s) : calls[s][c].next = "start" => Listed(s)
  /\ (\E r \in Servers : shutdown[r] # {}) => InFlight(s) = {} /\ Running(s) = {}

ServerInv(s) ==
  /\ \A c \in Call : CallIsSound(s, c)
  /\ NumbersApart(s)
  /\ HandleLives(s)
  /\ Served(s)
  /\ s \notin overlapped => Orderly(s)

IInv == TypeOK /\ \A s \in Servers : ServerInv(s)

-----------------------------------------------------------------------------
(* Types.                                                                  *)

LEMMA NoCallIsCall == NoCall \in CallState
BY WslAssumption DEF NoCall, CallState

(* Setting one entry of a table of tables.                                 *)
LEMMA SetCall ==
  ASSUME calls \in [Servers -> [Call -> CallState]], NEW s \in Servers, NEW c \in Call, NEW x \in CallState
  PROVE  [calls EXCEPT ![s][c] = x] \in [Servers -> [Call -> CallState]]
OBVIOUS

LEMMA SetPhase ==
  ASSUME procs \in [Servers -> [Proc -> Phase]], NEW s \in Servers, NEW p \in 0 .. MaxProcs, NEW x \in Phase
  PROVE  [procs EXCEPT ![s][p] = x] \in [Servers -> [Proc -> Phase]]
OBVIOUS

LEMMA ProceedTypes ==
  ASSUME TypeOK, NEW s \in Servers, NEW c \in Call, NEW call \in CallState, NEW shown \in Runtime,
         Proceed(s, c, call, shown)
  PROVE  /\ persisted' \in SUBSET Servers
         /\ runtime' \in [Servers -> Runtime]
         /\ calls' \in [Servers -> [Call -> CallState]]
         /\ procs' \in [Servers -> [Proc -> Phase]]
<1>1. persisted' \in SUBSET Servers
  BY DEF Proceed, TypeOK
<1>2. runtime' \in [Servers -> Runtime]
  BY DEF Proceed, TypeOK, Runtime, Noted, CallState
<1>3. calls' \in [Servers -> [Call -> CallState]]
  <2>1. 0 \in 0 .. MaxProcs
    BY WslAssumption
  <2>2. /\ [call EXCEPT !.at = "spawning", !.old = 0] \in CallState
        /\ [call EXCEPT !.at = "installing", !.old = 0] \in CallState
    BY <2>1 DEF CallState
  <2>3. call.next \in {"start", "install", "remove"}
    BY DEF CallState
  <2>4. \E x \in CallState : calls' = [calls EXCEPT ![s][c] = x]
    BY <2>2, <2>3, NoCallIsCall DEF Proceed
  <2> QED
    BY <2>4 DEF TypeOK
<1>4. procs' \in [Servers -> [Proc -> Phase]]
  BY DEF Proceed, TypeOK, Phase
<1> QED
  BY <1>1, <1>2, <1>3, <1>4

LEMMA StopServerTypes ==
  ASSUME TypeOK, NEW s \in Servers, NEW c \in Call, NEW call \in CallState,
         StopServer(s, c, call)
  PROVE  /\ persisted' \in SUBSET Servers
         /\ runtime' \in [Servers -> Runtime]
         /\ calls' \in [Servers -> [Call -> CallState]]
         /\ procs' \in [Servers -> [Proc -> Phase]]
         /\ sidecars' \in [Servers -> 0 .. MaxProcs]
<1>1. CASE sidecars[s] = 0
  <2>1. runtime[s] \in Runtime /\ Proceed(s, c, call, runtime[s]) /\ sidecars' = sidecars
    BY <1>1 DEF StopServer, TypeOK
  <2> QED
    BY <2>1, ProceedTypes DEF TypeOK
<1>2. CASE sidecars[s] # 0
  <2>1. /\ sidecars' = [sidecars EXCEPT ![s] = 0]
        /\ procs' = [procs EXCEPT ![s][sidecars[s]] = "stopping"]
        /\ calls' = [calls EXCEPT ![s][c] = [call EXCEPT !.at = "stopping", !.old = sidecars[s]]]
        /\ UNCHANGED <<persisted, runtime>>
    BY <1>2 DEF StopServer
  <2>2. 0 \in 0 .. MaxProcs /\ sidecars[s] \in 0 .. MaxProcs
    BY WslAssumption DEF TypeOK
  <2>3. [call EXCEPT !.at = "stopping", !.old = sidecars[s]] \in CallState
    BY <2>2 DEF CallState
  <2> QED
    BY <2>1, <2>2, <2>3 DEF TypeOK, Phase
<1> QED
  BY <1>1, <1>2

(* What a relaunch brings up.                                              *)
LEMMA StartedTypes ==
  ASSUME NEW cfg \in SUBSET Servers
  PROVE  /\ Started(cfg).runtime \in [Servers -> Runtime]
         /\ Started(cfg).procs \in [Servers -> [Proc -> Phase]]
         /\ Started(cfg).calls \in [Servers -> [Call -> CallState]]
<1>1. Started(cfg).runtime \in [Servers -> Runtime]
  BY DEF Started, Runtime
<1>2. Started(cfg).procs \in [Servers -> [Proc -> Phase]]
  BY DEF Started, Phase
<1>3. Started(cfg).calls \in [Servers -> [Call -> CallState]]
  <2>1. 1 \in 0 .. MaxProcs
    BY WslAssumption
  <2>2. [NoCall EXCEPT !.at = "spawning", !.new = 1] \in CallState
    BY <2>1, NoCallIsCall DEF CallState
  <2> QED
    BY <2>2, NoCallIsCall DEF Started
<1> QED
  BY <1>1, <1>2, <1>3

LEMMA InitTypeOK == Init => TypeOK
<1>1. 0 \in 0 .. MaxProcs
  BY WslAssumption
<1> QED
  BY <1>1, StartedTypes DEF Init, TypeOK

(* A request keeps the types.                                              *)
LEMMA RequestTypes ==
  ASSUME TypeOK, NEW s \in Servers, NEW c \in Call, Requests(s, c)
  PROVE  TypeOK'
<1> DEFINE Same == shutdown' = shutdown /\ forgotten' = forgotten
<1>1. Same /\ overlapped' \in SUBSET Servers
  BY DEF Requests, StartServer, InstallOpencode, AddServer, RemoveServer, Begins, TypeOK
<1> DEFINE Typed == /\ persisted' \in SUBSET Servers
                    /\ runtime' \in [Servers -> Runtime]
                    /\ calls' \in [Servers -> [Call -> CallState]]
                    /\ procs' \in [Servers -> [Proc -> Phase]]
                    /\ sidecars' \in [Servers -> 0 .. MaxProcs]
<1>2. 0 \in 0 .. MaxProcs /\ Proc \subseteq 0 .. MaxProcs
  BY WslAssumption DEF Proc
<1>3. ASSUME NEW p \in Proc, StartServer(s, c, p) PROVE Typed
  <2>1. [NoCall EXCEPT !.new = p] \in CallState
    BY <1>2, NoCallIsCall DEF CallState
  <2> QED
    BY <1>3, <2>1, StopServerTypes DEF StartServer
<1>4. ASSUME NEW p \in Proc, InstallOpencode(s, c, p) PROVE Typed
  <2> DEFINE call == [NoCall EXCEPT !.next = "install", !.new = p, !.again = Listed(s)]
  <2>1. call \in CallState
    <3>1. Listed(s) \in BOOLEAN
      BY DEF Listed
    <3>2. [NoCall EXCEPT !.next = "install", !.new = p] \in CallState
      BY <1>2, NoCallIsCall DEF CallState
    <3> QED
      BY <3>1, <3>2 DEF CallState
  <2>2. StopServer(s, c, call) \/ (Proceed(s, c, call, runtime[s]) /\ sidecars' = sidecars)
    BY <1>4 DEF InstallOpencode
  <2>3. runtime[s] \in Runtime
    BY DEF TypeOK
  <2> HIDE DEF call
  <2>4. CASE StopServer(s, c, call)
    BY <2>1, <2>4, StopServerTypes
  <2>5. CASE Proceed(s, c, call, runtime[s]) /\ sidecars' = sidecars
    BY <2>1, <2>3, <2>5, ProceedTypes DEF TypeOK
  <2> QED
    BY <2>2, <2>4, <2>5
<1>5. CASE RemoveServer(s, c)
  <2>1. [NoCall EXCEPT !.next = "remove"] \in CallState
    BY NoCallIsCall DEF CallState
  <2>2. Typed
    BY <1>5, <2>1, StopServerTypes DEF RemoveServer
  <2> QED
    BY <1>1, <2>2 DEF TypeOK
<1>6. ASSUME NEW p \in Proc, AddServer(s, c, p) PROVE Typed
  <2>1. persisted' \in SUBSET Servers
    BY <1>6 DEF AddServer, TypeOK
  <2>2. runtime' \in [Servers -> Runtime]
    BY <1>6 DEF AddServer, TypeOK, Runtime
  <2>3. procs' \in [Servers -> [Proc -> Phase]] /\ sidecars' \in [Servers -> 0 .. MaxProcs]
    <3>1. "booting" \in Phase /\ "stopping" \in Phase
      BY DEF Phase
    <3>2. 0 \in 0 .. MaxProcs /\ p \in 0 .. MaxProcs /\ sidecars[s] \in 0 .. MaxProcs
      BY <1>2 DEF TypeOK
    <3>3. \E q \in 0 .. MaxProcs, x \in Phase : procs' = [procs EXCEPT ![s][q] = x]
      BY <1>6, <3>1, <3>2 DEF AddServer
    <3>4. sidecars' = sidecars \/ sidecars' = [sidecars EXCEPT ![s] = 0]
      BY <1>6 DEF AddServer
    <3>5. procs' \in [Servers -> [Proc -> Phase]]
      BY <3>3, SetPhase DEF TypeOK
    <3>6. sidecars' \in [Servers -> 0 .. MaxProcs]
      BY <3>2, <3>4 DEF TypeOK
    <3> QED
      BY <3>5, <3>6
  <2>4. calls' \in [Servers -> [Call -> CallState]]
    <3>1. sidecars[s] \in 0 .. MaxProcs
      BY DEF TypeOK
    <3>2. [NoCall EXCEPT !.at = "spawning", !.new = p] \in CallState
      BY <1>2, NoCallIsCall DEF CallState
    <3>3. [NoCall EXCEPT !.at = "stopping", !.old = sidecars[s], !.new = p] \in CallState
      BY <1>2, <3>1, NoCallIsCall DEF CallState
    <3>4. \E x \in CallState : calls' = [calls EXCEPT ![s][c] = x]
      BY <1>6, <3>2, <3>3 DEF AddServer
    <3> QED
      BY <3>4, SetCall DEF TypeOK
  <2> QED
    BY <2>1, <2>2, <2>3, <2>4
<1>7. ASSUME Typed PROVE TypeOK'
  BY <1>1, <1>7 DEF TypeOK
<1> QED
  BY <1>3, <1>4, <1>5, <1>6, <1>7 DEF Requests

(* What a call awaited keeps the types.                                    *)
LEMMA AnswerTypes ==
  ASSUME TypeOK, NEW s \in Servers, NEW c \in Call, Answers(s, c)
  PROVE  TypeOK'
<1>1. calls[s][c] \in CallState /\ runtime[s] \in Runtime
  BY DEF TypeOK
<1>2. CASE Stopped(s, c)
  <2>1. Noted(runtime[s], "stopped") \in Runtime
    BY DEF Noted, Runtime
  <2> QED
    BY <1>1, <1>2, <2>1, ProceedTypes DEF Stopped, TypeOK
<1>3. CASE Installed(s, c)
  <2>1. [calls[s][c] EXCEPT !.at = "checking"] \in CallState
    BY <1>1 DEF CallState
  <2>2. calls' = [calls EXCEPT ![s][c] = [calls[s][c] EXCEPT !.at = "checking"]]
    BY <1>3 DEF Installed
  <2>3. calls' \in [Servers -> [Call -> CallState]]
    BY <2>1, <2>2 DEF TypeOK
  <2> QED
    BY <1>3, <2>3 DEF Installed, TypeOK
<1>4. CASE Verified(s, c)
  <2>1. [calls[s][c] EXCEPT !.next = "start"] \in CallState
    BY <1>1 DEF CallState
  <2>2. CASE calls[s][c].again /\ Listed(s)
    BY <1>4, <2>1, <2>2, StopServerTypes DEF Verified, TypeOK
  <2>3. CASE ~(calls[s][c].again /\ Listed(s))
    <3>1. calls' = [calls EXCEPT ![s][c] = NoCall]
      BY <1>4, <2>3 DEF Verified
    <3>2. calls' \in [Servers -> [Call -> CallState]]
      BY <3>1, NoCallIsCall, SetCall DEF TypeOK
    <3> QED
      BY <1>4, <2>3, <3>2 DEF Verified, TypeOK
  <2> QED
    BY <2>2, <2>3
<1>5. CASE InstallFails(s, c)
  BY <1>5, NoCallIsCall DEF InstallFails, TypeOK
<1>6. CASE SpawnResolves(s, c)
  <2>1. calls' \in [Servers -> [Call -> CallState]]
    BY <1>6, NoCallIsCall DEF SpawnResolves, TypeOK
  <2>2. calls[s][c].new \in 0 .. MaxProcs
    BY <1>1 DEF CallState
  <2>3. runtime' \in [Servers -> Runtime]
    BY <1>6 DEF SpawnResolves, TypeOK, Noted, Runtime
  <2>4. procs' \in [Servers -> [Proc -> Phase]] /\ sidecars' \in [Servers -> 0 .. MaxProcs]
    BY <1>6, <2>2 DEF SpawnResolves, TypeOK, Phase
  <2> QED
    BY <1>6, <2>1, <2>3, <2>4 DEF SpawnResolves, TypeOK
<1>7. CASE SpawnFails(s, c)
  <2>1. calls' \in [Servers -> [Call -> CallState]]
    BY <1>7, NoCallIsCall DEF SpawnFails, TypeOK
  <2>2. runtime' \in [Servers -> Runtime]
    BY <1>7 DEF SpawnFails, TypeOK, Noted, Runtime
  <2>3. procs' \in [Servers -> [Proc -> Phase]]
    <3>1. calls[s][c].new \in 0 .. MaxProcs
      BY <1>1 DEF CallState
    <3>2. \E phase \in Phase : procs' = [procs EXCEPT ![s][calls[s][c].new] = phase]
      BY <1>7 DEF SpawnFails, Phase
    <3> QED
      BY <3>1, <3>2, SetPhase DEF TypeOK
  <2> QED
    BY <1>7, <2>1, <2>2, <2>3 DEF SpawnFails, TypeOK
<1> QED
  BY <1>2, <1>3, <1>4, <1>5, <1>6, <1>7 DEF Answers

LEMMA NextTypes == TypeOK /\ [Next]_vars => TypeOK'
<1> SUFFICES ASSUME TypeOK, [Next]_vars PROVE TypeOK'
  OBVIOUS
<1>1. ASSUME NEW s \in Servers, NEW c \in Call, Requests(s, c) PROVE TypeOK'
  BY <1>1, RequestTypes
<1>2. ASSUME NEW s \in Servers, NEW c \in Call, Answers(s, c) PROVE TypeOK'
  BY <1>2, AnswerTypes
<1>3. ASSUME NEW s \in Servers, NEW p \in Proc, Exits(s, p) PROVE TypeOK'
  <2>1. procs' \in [Servers -> [Proc -> Phase]]
    BY <1>3 DEF Exits, TypeOK, Phase
  <2>2. sidecars' \in [Servers -> 0 .. MaxProcs] /\ runtime' \in [Servers -> Runtime]
    <3>1. 0 \in 0 .. MaxProcs
      BY WslAssumption
    <3>2. Noted(runtime[s], "failed") \in Runtime
      BY DEF Noted, Runtime, TypeOK
    <3> QED
      BY <1>3, <3>1, <3>2 DEF Exits, TypeOK
  <2> QED
    BY <1>3, <2>1, <2>2 DEF Exits, TypeOK
<1>4. CASE StopServers
  <2>1. shutdown' \in [Servers -> SUBSET Proc]
    BY <1>4, WslAssumption DEF StopServers, TypeOK, Proc
  <2>2. procs' \in [Servers -> [Proc -> Phase]]
    BY <1>4 DEF StopServers, TypeOK, Phase
  <2> QED
    BY <1>4, <2>1, <2>2 DEF StopServers, TypeOK
<1>5. CASE ServersStopped
  BY <1>5, WslAssumption DEF ServersStopped, TypeOK
<1>6. CASE Relaunch
  <2>1. 0 \in 0 .. MaxProcs
    BY WslAssumption
  <2>2. persisted \in SUBSET Servers
    BY DEF TypeOK
  <2> QED
    BY <1>6, <2>1, <2>2, StartedTypes DEF Relaunch, TypeOK
<1>7. CASE UNCHANGED vars
  BY <1>7 DEF vars, TypeOK
<1> QED
  BY <1>1, <1>2, <1>3, <1>4, <1>5, <1>6, <1>7 DEF Next

(* Every variable of the controller keeps its type.                        *)
THEOREM TypeCorrect == Spec => []TypeOK
BY InitTypeOK, NextTypes, PTL DEF Spec

-----------------------------------------------------------------------------
(* A step of one server: what it leaves alone.                             *)
OnlyOf(s) ==
  /\ \A r \in Servers \ {s} :
       /\ runtime'[r] = runtime[r] /\ sidecars'[r] = sidecars[r]
       /\ procs'[r] = procs[r] /\ calls'[r] = calls[r]
       /\ r \in overlapped' <=> r \in overlapped
  /\ shutdown' = shutdown /\ forgotten' = forgotten

LEMMA OthersKeep ==
  ASSUME NEW s \in Servers, OnlyOf(s), NEW r \in Servers \ {s}, ServerInv(r)
  PROVE  ServerInv(r)'
<1>1. /\ runtime'[r] = runtime[r] /\ sidecars'[r] = sidecars[r]
      /\ procs'[r] = procs[r] /\ calls'[r] = calls[r]
      /\ r \in overlapped' <=> r \in overlapped
      /\ shutdown' = shutdown /\ forgotten' = forgotten
  BY DEF OnlyOf
<1>2. \A c \in Call : CallIsSound(r, c)'
  BY <1>1 DEF ServerInv, CallIsSound
<1>3. NumbersApart(r)' /\ HandleLives(r)' /\ Served(r)'
  BY <1>1 DEF ServerInv, NumbersApart, HandleLives, Served
<1>4. InFlight(r)' = InFlight(r) /\ Running(r)' = Running(r) /\ Spawning(r)' = Spawning(r) /\ (Listed(r)' <=> Listed(r))
  BY <1>1 DEF InFlight, Running, Spawning, Listed
<1>5. r \notin overlapped' => Orderly(r)'
  BY <1>1, <1>4 DEF ServerInv, Orderly
<1> QED
  BY <1>2, <1>3, <1>5 DEF ServerInv

(* The rest of a call, whatever call it is: its number is its own, and if  *)
(* it is the only one, it has stopped the sidecar or found none.           *)
LEMMA ProceedKeeps ==
  ASSUME TypeOK, NEW s \in Servers, NEW c \in Call, NEW call \in CallState, NEW shown \in Runtime,
         ServerInv(s), Proceed(s, c, call, shown),
         UNCHANGED <<sidecars, shutdown, forgotten>>,
         call.next # "remove" =>
           /\ call.new \in Proc /\ procs[s][call.new] = "gone"
           /\ \A d \in Call \ {c} : calls[s][d].new # call.new,
         shown = "none" <=> runtime[s] = "none",
         shown = "ready" => runtime[s] = "ready" /\ calls[s][c].at # "stopping",
         calls[s][c].at # "spawning",
         s \notin overlapped' =>
           /\ s \notin overlapped /\ InFlight(s) \subseteq {c} /\ sidecars[s] = 0
           /\ \A r \in Servers : shutdown[r] = {}
           /\ call.next = "start" => Listed(s)
  PROVE  ServerInv(s)'
<1> DEFINE x == CASE call.next = "start"   -> [call EXCEPT !.at = "spawning", !.old = 0]
                  [] call.next = "install" -> [call EXCEPT !.at = "installing", !.old = 0]
                  [] call.next = "remove"  -> NoCall
<1>1. call.next \in {"start", "install", "remove"}
  BY DEF CallState
<1>2. calls'[s][c] = x /\ \A d \in Call \ {c} : calls'[s][d] = calls[s][d]
  BY DEF Proceed, TypeOK
<1>3. /\ call.next # "remove" => x.next = call.next /\ x.new = call.new
      /\ call.next = "start" => x.at = "spawning"
      /\ call.next = "install" => x.at = "installing"
      /\ call.next = "remove" => x.at = "idle" /\ x.new = 0
  BY <1>1 DEF NoCall, CallState
<1> HIDE DEF x
<1>4. /\ call.next = "start" => procs'[s][call.new] = "booting"
      /\ call.next # "start" => procs'[s] = procs[s]
      /\ \A p \in Proc : p # call.new => procs'[s][p] = procs[s][p]
  BY DEF Proceed, TypeOK
<1>5. /\ call.next = "start" => runtime'[s] = IF runtime[s] = "none" THEN "none" ELSE "starting"
      /\ call.next = "install" => runtime'[s] = shown
      /\ call.next = "remove" => runtime'[s] = "none"
  BY DEF Proceed, TypeOK, Noted
<1>6. \A d \in Call : CallIsSound(s, d)'
  <2>1. CallIsSound(s, c)'
    BY <1>1, <1>2, <1>3, <1>4 DEF CallIsSound
  <2>2. ASSUME NEW d \in Call \ {c} PROVE CallIsSound(s, d)'
    <3>1. CallIsSound(s, d) /\ calls'[s][d] = calls[s][d]
      BY <1>2 DEF ServerInv
    <3>2. calls[s][d].new \in Proc => procs'[s][calls[s][d].new] = procs[s][calls[s][d].new]
      BY <1>4, <1>1
    <3> QED
      BY <3>1, <3>2 DEF CallIsSound
  <2> QED
    BY <2>1, <2>2
<1>7. NumbersApart(s)'
  BY <1>1, <1>2, <1>3 DEF ServerInv, NumbersApart, Proc
<1>8. HandleLives(s)'
  <2>1. ASSUME sidecars[s] # 0 PROVE procs'[s][sidecars[s]] = procs[s][sidecars[s]]
    <3>1. sidecars[s] \in Proc
      BY <2>1, WslAssumption DEF TypeOK, Proc
    <3>2. procs[s][sidecars[s]] # "gone"
      BY <2>1 DEF ServerInv, HandleLives
    <3> QED
      BY <1>1, <1>4, <3>1, <3>2
  <2> QED
    BY <2>1 DEF ServerInv, HandleLives
<1>9. Served(s)'
  <2>1. ASSUME s \notin forgotten, runtime'[s] = "ready", sidecars[s] = 0
        PROVE  \E d \in Call : calls'[s][d].at = "stopping"
    <3>1. call.next = "install" /\ runtime[s] = "ready" /\ calls[s][c].at # "stopping"
      BY <1>1, <1>5, <2>1
    <3>2. PICK d \in Call : calls[s][d].at = "stopping"
      BY <2>1, <3>1 DEF ServerInv, Served
    <3>3. d \in Call \ {c}
      BY <3>1, <3>2
    <3> QED
      BY <1>2, <3>2, <3>3
  <2> QED
    BY <2>1 DEF Served
<1>10. ASSUME s \notin overlapped' PROVE Orderly(s)'
  <2>1. /\ Orderly(s) /\ InFlight(s) \subseteq {c} /\ sidecars[s] = 0
        /\ \A r \in Servers : shutdown[r] = {}
        /\ call.next = "start" => Listed(s)
    BY <1>10 DEF ServerInv
  <2>2. \A d \in Call \ {c} : calls[s][d].at = "idle"
    BY <2>1 DEF InFlight
  <2>3. Running(s) = {}
    BY <1>2, <2>1, <2>2 DEF Orderly, Running, Spawning, Proc
  <2>4. InFlight(s)' \subseteq {c}
    BY <1>2, <2>2 DEF InFlight
  <2>5. Running(s)' \subseteq {sidecars'[s]} \cup Spawning(s)' /\ (call.next # "start" => Running(s)' = {})
    <3>1. CASE call.next = "start"
      <4>1. \A p \in Proc : procs'[s][p] \in {"booting", "up"} => p = call.new
        BY <1>4, <2>3 DEF Running
      <4>2. call.new \in Spawning(s)'
        BY <1>2, <1>3, <3>1 DEF Spawning
      <4> QED
        BY <3>1, <4>1, <4>2 DEF Running
    <3>2. CASE call.next # "start"
      BY <1>4, <2>3, <3>2 DEF Running
    <3> QED
      BY <3>1, <3>2
  <2>6. ~Listed(s)' => Running(s)' = {}
    BY <1>1, <1>5, <2>1, <2>5 DEF Listed
  <2>7. \A d \in InFlight(s)' : calls'[s][d].next = "start" => Listed(s)'
    <3>1. \A d \in InFlight(s)' : calls'[s][d] = x
      BY <1>2, <2>4
    <3> QED
      BY <1>1, <1>3, <1>5, <2>1, <3>1 DEF Listed, InFlight
  <2>8. s \notin forgotten' /\ sidecars'[s] = 0 /\ \A r \in Servers : shutdown'[r] = {}
    BY <2>1 DEF Orderly
  <2> QED
    BY <2>4, <2>5, <2>6, <2>7, <2>8 DEF Orderly
<1> QED
  BY <1>6, <1>7, <1>8, <1>9, <1>10 DEF ServerInv

(* The stop with which a call begins, or begins again.                     *)
LEMMA StopServerKeeps ==
  ASSUME TypeOK, NEW s \in Servers, NEW c \in Call, NEW call \in CallState,
         ServerInv(s), StopServer(s, c, call),
         UNCHANGED <<shutdown, forgotten>>,
         IF call.next = "remove" THEN call.new = 0
         ELSE /\ call.new \in Proc /\ procs[s][call.new] = "gone"
              /\ \A d \in Call \ {c} : calls[s][d].new # call.new,
         calls[s][c].at \in {"idle", "checking"},
         s \notin overlapped' =>
           /\ s \notin overlapped /\ InFlight(s) \subseteq {c}
           /\ \A r \in Servers : shutdown[r] = {}
           /\ call.next = "start" => Listed(s)
  PROVE  ServerInv(s)'
<1>1. CASE sidecars[s] = 0
  <2>1. Proceed(s, c, call, runtime[s]) /\ UNCHANGED sidecars
    BY <1>1 DEF StopServer
  <2>2. runtime[s] \in Runtime
    BY DEF TypeOK
  <2> QED
    BY <1>1, <2>1, <2>2, ProceedKeeps
<1>2. CASE sidecars[s] # 0
  <2> DEFINE old == sidecars[s]
             x == [call EXCEPT !.at = "stopping", !.old = old]
  <2>1. old \in Proc
    BY <1>2, WslAssumption DEF TypeOK, Proc
  <2>2. calls'[s][c] = x /\ \A d \in Call \ {c} : calls'[s][d] = calls[s][d]
    BY <1>2 DEF StopServer, TypeOK
  <2>3. x.at = "stopping" /\ x.old = old /\ x.new = call.new /\ x.next = call.next
    BY DEF CallState
  <2>4. procs'[s][old] = "stopping" /\ \A p \in Proc \ {old} : procs'[s][p] = procs[s][p]
    BY <1>2, <2>1 DEF StopServer, TypeOK
  <2>5. runtime'[s] = runtime[s] /\ sidecars'[s] = 0
    BY <1>2 DEF StopServer, TypeOK
  <2>6. procs[s][old] \in {"up", "stopping"}
    BY <1>2 DEF ServerInv, HandleLives
  <2> HIDE DEF x, old
  <2>7. \A d \in Call : CallIsSound(s, d)'
    <3>1. CallIsSound(s, c)'
      BY <2>1, <2>2, <2>3, <2>4, <2>6 DEF CallIsSound
    <3>2. ASSUME NEW d \in Call \ {c} PROVE CallIsSound(s, d)'
      <4>1. CallIsSound(s, d) /\ calls'[s][d] = calls[s][d]
        BY <2>2 DEF ServerInv
      <4> QED
        BY <2>4, <2>6, <4>1 DEF CallIsSound
    <3> QED
      BY <3>1, <3>2
  <2>8. NumbersApart(s)'
    BY <2>2, <2>3 DEF ServerInv, NumbersApart, Proc
  <2>9. HandleLives(s)' /\ Served(s)'
    BY <2>2, <2>3, <2>5 DEF HandleLives, Served
  <2>10. ASSUME s \notin overlapped' PROVE Orderly(s)'
    <3>1. /\ Orderly(s) /\ InFlight(s) \subseteq {c}
          /\ \A r \in Servers : shutdown[r] = {}
          /\ call.next = "start" => Listed(s)
      BY <2>10 DEF ServerInv
    <3>2. \A d \in Call \ {c} : calls[s][d].at = "idle"
      BY <3>1 DEF InFlight
    <3>3. Spawning(s) = {}
      BY <3>2 DEF Spawning
    <3>4. Running(s)' = {}
      BY <2>4, <3>1, <3>3 DEF Orderly, Running, old
    <3>5. InFlight(s)' \subseteq {c}
      BY <2>2, <3>2 DEF InFlight
    <3>6. \A d \in InFlight(s)' : calls'[s][d].next = "start" => Listed(s)'
      BY <2>2, <2>3, <2>5, <3>1, <3>5 DEF Listed
    <3> QED
      BY <2>5, <3>1, <3>4, <3>5, <3>6 DEF Orderly
  <2> QED
    BY <2>7, <2>8, <2>9, <2>10 DEF ServerInv
<1> QED
  BY <1>1, <1>2

(* The number and the history of a call that begins.                       *)
LEMMA BeginsFacts ==
  ASSUME TypeOK, NEW s \in Servers, NEW c \in Call, Idle(s, c), Begins(s), ServerInv(s)
  PROVE  /\ calls[s][c].at = "idle"
         /\ UNCHANGED <<shutdown, forgotten>>
         /\ \A r \in Servers \ {s} : r \in overlapped' <=> r \in overlapped
         /\ s \notin overlapped' =>
              s \notin overlapped /\ InFlight(s) = {} /\ \A r \in Servers : shutdown[r] = {}
         /\ \A p \in Proc : Fresh(s, p) => procs[s][p] = "gone" /\ \A d \in Call : calls[s][d].new # p
BY DEF Idle, Begins, Overlaps, Fresh, Awaited

LEMMA AddServerKeeps ==
  ASSUME TypeOK, NEW s \in Servers, NEW c \in Call, NEW p \in Proc, ServerInv(s), AddServer(s, c, p)
  PROVE  ServerInv(s)'
<1>1. /\ calls[s][c].at = "idle" /\ UNCHANGED <<shutdown, forgotten>>
      /\ procs[s][p] = "gone" /\ \A d \in Call : calls[s][d].new # p
      /\ s \notin overlapped' => s \notin overlapped /\ InFlight(s) = {} /\ \A r \in Servers : shutdown[r] = {}
  BY BeginsFacts DEF AddServer
<1>2. runtime'[s] = "starting" /\ ~Listed(s)
  BY DEF AddServer, TypeOK
<1> DEFINE old == sidecars[s]
<1>3. old # 0 => old \in Proc /\ procs[s][old] \in {"up", "stopping"} /\ old # p
  BY <1>1, WslAssumption DEF TypeOK, Proc, ServerInv, HandleLives
<1>4. \A d \in Call \ {c} : calls'[s][d] = calls[s][d]
  BY DEF AddServer, TypeOK
<1>5. /\ calls'[s][c].new = p /\ calls'[s][c].next = "start"
      /\ old = 0 => calls'[s][c].at = "spawning"
      /\ old # 0 => calls'[s][c].at = "stopping" /\ calls'[s][c].old = old
  <2>1. CASE old = 0
    <3>1. calls'[s][c] = [NoCall EXCEPT !.at = "spawning", !.new = p]
      BY <2>1 DEF AddServer, TypeOK
    <3> QED
      BY <2>1, <3>1 DEF NoCall
  <2>2. CASE old # 0
    <3>1. calls'[s][c] = [NoCall EXCEPT !.at = "stopping", !.old = old, !.new = p]
      BY <2>2 DEF AddServer, TypeOK
    <3> QED
      BY <2>2, <3>1 DEF NoCall
  <2> QED
    BY <2>1, <2>2
<1>6. /\ old = 0 => procs'[s][p] = "booting" /\ \A q \in Proc \ {p} : procs'[s][q] = procs[s][q]
      /\ old # 0 => procs'[s][old] = "stopping" /\ \A q \in Proc \ {old} : procs'[s][q] = procs[s][q]
  BY <1>3 DEF AddServer, TypeOK
<1>7. sidecars'[s] = 0
  BY DEF AddServer, TypeOK
<1> HIDE DEF old
<1>8. \A d \in Call : CallIsSound(s, d)'
  <2>1. CallIsSound(s, c)'
    BY <1>1, <1>3, <1>5, <1>6 DEF CallIsSound
  <2>2. ASSUME NEW d \in Call \ {c} PROVE CallIsSound(s, d)'
    <3>1. CallIsSound(s, d) /\ calls'[s][d] = calls[s][d] /\ calls[s][d].new # p
      BY <1>1, <1>4 DEF ServerInv
    <3> QED
      BY <1>3, <1>6, <3>1 DEF CallIsSound
  <2> QED
    BY <2>1, <2>2
<1>9. NumbersApart(s)'
  BY <1>1, <1>4, <1>5 DEF ServerInv, NumbersApart
<1>10. HandleLives(s)' /\ Served(s)'
  BY <1>2, <1>7 DEF HandleLives, Served
<1>11. ASSUME s \notin overlapped' PROVE Orderly(s)'
  <2>1. Orderly(s) /\ InFlight(s) = {} /\ (\A r \in Servers : shutdown[r] = {}) /\ Running(s) = {} /\ old = 0
    BY <1>1, <1>2, <1>11 DEF ServerInv, Orderly, old
  <2>2. \A d \in Call \ {c} : calls'[s][d].at = "idle"
    BY <1>4, <2>1 DEF InFlight
  <2>3. InFlight(s)' \subseteq {c}
    BY <2>2 DEF InFlight
  <2>4. Running(s)' \subseteq Spawning(s)'
    <3>1. \A q \in Proc : procs'[s][q] \in {"booting", "up"} => q = p
      BY <1>6, <2>1 DEF Running
    <3>2. p \in Spawning(s)'
      BY <1>5, <2>1 DEF Spawning
    <3> QED
      BY <3>1, <3>2 DEF Running
  <2> QED
    BY <1>1, <1>2, <1>7, <2>1, <2>3, <2>4 DEF Orderly, Listed
<1> QED
  BY <1>8, <1>9, <1>10, <1>11 DEF ServerInv

(* Every request concerns one server and keeps its invariant.              *)
LEMMA RequestKeeps ==
  ASSUME TypeOK, NEW s \in Servers, NEW c \in Call, ServerInv(s), Requests(s, c)
  PROVE  OnlyOf(s) /\ ServerInv(s)'
<1>1. 0 \in 0 .. MaxProcs /\ Proc \subseteq 0 .. MaxProcs /\ 0 \notin Proc
  BY WslAssumption DEF Proc
<1>2. ASSUME NEW p \in Proc, StartServer(s, c, p) PROVE OnlyOf(s) /\ ServerInv(s)'
  <2> DEFINE call == [NoCall EXCEPT !.new = p]
  <2>1. call \in CallState /\ call.next = "start" /\ call.new = p
    BY <1>1, NoCallIsCall DEF CallState, NoCall
  <2>2. Listed(s) /\ Idle(s, c) /\ Fresh(s, p) /\ StopServer(s, c, call) /\ Begins(s)
    BY <1>2 DEF StartServer
  <2> HIDE DEF call
  <2>3. ServerInv(s)'
    BY <1>1, <2>1, <2>2, BeginsFacts, StopServerKeeps
  <2>4. OnlyOf(s)
    BY <2>2, BeginsFacts DEF OnlyOf, StopServer, Proceed, TypeOK
  <2> QED
    BY <2>3, <2>4
<1>3. ASSUME NEW p \in Proc, InstallOpencode(s, c, p) PROVE OnlyOf(s) /\ ServerInv(s)'
  <2> DEFINE call == [NoCall EXCEPT !.next = "install", !.new = p, !.again = Listed(s)]
  <2>1. call \in CallState /\ call.next = "install" /\ call.new = p
    <3>1. Listed(s) \in BOOLEAN
      BY DEF Listed
    <3>2. [NoCall EXCEPT !.next = "install", !.new = p] \in CallState
      BY <1>1, NoCallIsCall DEF CallState
    <3>3. call \in CallState
      BY <3>1, <3>2 DEF CallState
    <3> QED
      BY <3>3 DEF NoCall
  <2>2. /\ Idle(s, c) /\ Fresh(s, p) /\ Begins(s)
        /\ IF Listed(s) THEN StopServer(s, c, call) ELSE Proceed(s, c, call, runtime[s]) /\ UNCHANGED sidecars
    BY <1>3 DEF InstallOpencode
  <2> HIDE DEF call
  <2>3. CASE Listed(s)
    <3>1. ServerInv(s)'
      BY <1>1, <2>1, <2>2, <2>3, BeginsFacts, StopServerKeeps
    <3>2. OnlyOf(s)
      BY <2>2, <2>3, BeginsFacts DEF OnlyOf, StopServer, Proceed, TypeOK
    <3> QED
      BY <3>1, <3>2
  <2>4. CASE ~Listed(s)
    <3>1. s \notin overlapped' => s \notin overlapped /\ sidecars[s] = 0
      BY <2>2, <2>4, BeginsFacts DEF ServerInv, Orderly
    <3>2. runtime[s] \in Runtime
      BY DEF TypeOK
    <3>3. ServerInv(s)'
      BY <1>1, <2>1, <2>2, <2>4, <3>1, <3>2, BeginsFacts, ProceedKeeps
    <3>4. OnlyOf(s)
      BY <2>2, <2>4, BeginsFacts DEF OnlyOf, Proceed, TypeOK
    <3> QED
      BY <3>3, <3>4
  <2> QED
    BY <2>3, <2>4
<1>4. CASE RemoveServer(s, c)
  <2> DEFINE call == [NoCall EXCEPT !.next = "remove"]
  <2>1. call \in CallState /\ call.next = "remove" /\ call.new = 0
    BY NoCallIsCall DEF CallState, NoCall
  <2>2. Idle(s, c) /\ StopServer(s, c, call) /\ Begins(s)
    BY <1>4 DEF RemoveServer
  <2> HIDE DEF call
  <2>3. ServerInv(s)'
    BY <2>1, <2>2, BeginsFacts, StopServerKeeps
  <2>4. OnlyOf(s)
    BY <2>2, BeginsFacts DEF OnlyOf, StopServer, Proceed, TypeOK
  <2> QED
    BY <2>3, <2>4
<1>5. ASSUME NEW p \in Proc, AddServer(s, c, p) PROVE OnlyOf(s) /\ ServerInv(s)'
  <2>1. Idle(s, c) /\ Begins(s)
    BY <1>5 DEF AddServer
  <2>2. OnlyOf(s)
    BY <1>5, <2>1, BeginsFacts DEF OnlyOf, AddServer, TypeOK
  <2> QED
    BY <1>5, <2>2, AddServerKeeps
<1> QED
  BY <1>2, <1>3, <1>4, <1>5 DEF Requests

(* A call that ends without having a process leaves the rest alone.        *)
LEMMA EndsKeeps ==
  ASSUME TypeOK, NEW s \in Servers, NEW c \in Call, ServerInv(s),
         calls' = [calls EXCEPT ![s][c] = NoCall], calls[s][c].at \in {"installing", "checking"},
         UNCHANGED <<runtime, sidecars, procs, shutdown, overlapped, forgotten>>
  PROVE  OnlyOf(s) /\ ServerInv(s)'
<1>1. OnlyOf(s)
  BY DEF OnlyOf, TypeOK
<1>2. calls'[s][c] = NoCall /\ \A d \in Call \ {c} : calls'[s][d] = calls[s][d]
  BY DEF TypeOK
<1>3. NoCall.at = "idle" /\ NoCall.new = 0
  BY DEF NoCall
<1>4. \A d \in Call : CallIsSound(s, d)'
  BY <1>2, <1>3 DEF ServerInv, CallIsSound
<1>5. NumbersApart(s)' /\ HandleLives(s)' /\ Served(s)'
  BY <1>2, <1>3 DEF ServerInv, NumbersApart, HandleLives, Served
<1>6. /\ InFlight(s)' = InFlight(s) \ {c} /\ Spawning(s)' = Spawning(s)
      /\ Running(s)' = Running(s) /\ (Listed(s)' <=> Listed(s))
  BY <1>2, <1>3 DEF InFlight, Spawning, Running, Listed
<1>7. s \notin overlapped' => Orderly(s)'
  <2>1. \A d \in InFlight(s)' : d \in InFlight(s) /\ calls'[s][d] = calls[s][d]
    BY <1>2, <1>6 DEF InFlight
  <2> QED
    BY <1>6, <2>1 DEF ServerInv, Orderly
<1> QED
  BY <1>1, <1>4, <1>5, <1>7 DEF ServerInv

LEMMA SpawnEndsKeeps ==
  ASSUME TypeOK, NEW s \in Servers, NEW c \in Call, ServerInv(s), SpawnResolves(s, c) \/ SpawnFails(s, c)
  PROVE  OnlyOf(s) /\ ServerInv(s)'
<1> DEFINE new == calls[s][c].new
<1>1. new \in Proc /\ new # 0 /\ procs[s][new] = "booting" /\ c \in InFlight(s)
  BY DEF SpawnResolves, SpawnFails, ServerInv, CallIsSound, Proc, InFlight
<1>2. OnlyOf(s)
  BY DEF OnlyOf, SpawnResolves, SpawnFails, TypeOK
<1>3. calls'[s][c] = NoCall /\ \A d \in Call \ {c} : calls'[s][d] = calls[s][d]
  BY DEF SpawnResolves, SpawnFails, TypeOK
<1>4. NoCall.at = "idle" /\ NoCall.new = 0
  BY DEF NoCall
<1>5. \A d \in Call \ {c} : calls[s][d].new # new
  BY <1>1 DEF ServerInv, NumbersApart
<1>6. \A q \in Proc \ {new} : procs'[s][q] = procs[s][q]
  BY <1>1 DEF SpawnResolves, SpawnFails, TypeOK
<1>7. UNCHANGED <<shutdown, overlapped, forgotten>>
  BY DEF SpawnResolves, SpawnFails
<1>8. \/ procs'[s][new] = "up" /\ sidecars'[s] = new /\ runtime'[s] = Noted(runtime[s], "ready")
      \/ procs'[s][new] \in {"gone", "stopping"} /\ sidecars'[s] = sidecars[s] /\ runtime'[s] = Noted(runtime[s], "failed")
  BY <1>1 DEF SpawnResolves, SpawnFails, TypeOK
<1> HIDE DEF new
<1>9. \A d \in Call : CallIsSound(s, d)'
  <2>1. CallIsSound(s, c)'
    BY <1>3, <1>4 DEF CallIsSound
  <2>2. ASSUME NEW d \in Call \ {c} PROVE CallIsSound(s, d)'
    BY <1>3, <1>5, <1>6 DEF ServerInv, CallIsSound
  <2> QED
    BY <2>1, <2>2
<1>10. NumbersApart(s)'
  BY <1>3, <1>4 DEF ServerInv, NumbersApart
<1>11. HandleLives(s)'
  <2>1. sidecars[s] # 0 => sidecars[s] \in Proc \ {new}
    BY <1>1, WslAssumption DEF ServerInv, HandleLives, TypeOK, Proc
  <2> QED
    BY <1>6, <1>7, <1>8, <2>1 DEF ServerInv, HandleLives
<1>12. Served(s)'
  BY <1>1, <1>8 DEF Served, Noted
<1>13. ASSUME s \notin overlapped' PROVE Orderly(s)'
  <2>1. /\ Orderly(s) /\ InFlight(s) = {c} /\ sidecars[s] = 0
        /\ \A r \in Servers : shutdown[r] = {}
    BY <1>1, <1>7, <1>13 DEF ServerInv, Orderly
  <2>2. InFlight(s)' = {}
    BY <1>3, <1>4, <2>1 DEF InFlight
  <2>3. Running(s) \subseteq {new}
    BY <1>1, <2>1 DEF Orderly, Running, Spawning, InFlight, Proc, new
  <2>4. Running(s)' \subseteq {sidecars'[s]}
    BY <1>6, <1>8, <2>3 DEF Running
  <2>5. Listed(s)
    BY <1>1, <2>1 DEF Orderly, Running
  <2>6. Listed(s)'
    BY <1>8, <2>5 DEF Listed, Noted
  <2> QED
    BY <1>7, <2>1, <2>2, <2>4, <2>6 DEF Orderly
<1> QED
  BY <1>2, <1>9, <1>10, <1>11, <1>12, <1>13 DEF ServerInv

(* Every answer concerns one server and keeps its invariant.               *)
LEMMA AnswerKeeps ==
  ASSUME TypeOK, NEW s \in Servers, NEW c \in Call, ServerInv(s), Answers(s, c)
  PROVE  OnlyOf(s) /\ ServerInv(s)'
<1> DEFINE call == calls[s][c]
<1>1. call \in CallState /\ runtime[s] \in Runtime
  BY DEF TypeOK
<1>2. CallIsSound(s, c) /\ (s \notin overlapped => Orderly(s))
  BY DEF ServerInv
<1>3. s \notin overlapped /\ call.at # "idle" =>
        /\ InFlight(s) \subseteq {c} /\ sidecars[s] = 0
        /\ \A r \in Servers : shutdown[r] = {}
        /\ call.next = "start" => Listed(s)
  BY <1>2 DEF Orderly, InFlight
<1>4. CASE Stopped(s, c)
  <2> DEFINE shown == Noted(runtime[s], "stopped")
  <2>1. /\ call.at = "stopping" /\ Proceed(s, c, call, shown)
        /\ UNCHANGED <<sidecars, shutdown, overlapped, forgotten>>
    BY <1>4 DEF Stopped
  <2>2. shown \in Runtime /\ shown # "ready" /\ (shown = "none" <=> runtime[s] = "none")
    BY <1>1 DEF Noted, Runtime
  <2>3. call.next # "remove" =>
          /\ call.new \in Proc /\ procs[s][call.new] = "gone"
          /\ \A d \in Call \ {c} : calls[s][d].new # call.new
    BY <1>2, <2>1 DEF CallIsSound, ServerInv, NumbersApart, Proc
  <2> HIDE DEF call, shown
  <2>4. ServerInv(s)'
    <3>1. calls[s][c].at # "spawning"
      BY <2>1 DEF call
    <3>2. shown = "ready" => runtime[s] = "ready" /\ calls[s][c].at # "stopping"
      BY <2>2
    <3>3. s \notin overlapped' =>
            /\ s \notin overlapped /\ InFlight(s) \subseteq {c} /\ sidecars[s] = 0
            /\ \A r \in Servers : shutdown[r] = {}
            /\ call.next = "start" => Listed(s)
      BY <1>3, <2>1
    <3>4. UNCHANGED <<sidecars, shutdown, forgotten>>
      BY <2>1
    <3> QED
      BY <1>1, <2>1, <2>2, <2>3, <3>1, <3>2, <3>3, <3>4, ProceedKeeps
  <2>5. OnlyOf(s)
    BY <2>1 DEF OnlyOf, Proceed, TypeOK
  <2> QED
    BY <2>4, <2>5
<1>5. CASE Installed(s, c)
  <2>1. call.at = "installing" /\ UNCHANGED <<runtime, sidecars, procs, shutdown, overlapped, forgotten>>
    BY <1>5 DEF Installed
  <2>2. /\ calls'[s][c] = [call EXCEPT !.at = "checking"]
        /\ \A d \in Call \ {c} : calls'[s][d] = calls[s][d]
    BY <1>5 DEF Installed, TypeOK
  <2>3. OnlyOf(s)
    BY <1>5 DEF Installed, OnlyOf, TypeOK
  <2>4. calls'[s][c].at = "checking" /\ calls'[s][c].next = call.next /\ calls'[s][c].new = call.new
    BY <1>1, <2>2 DEF CallState
  <2> HIDE DEF call
  <2>5. \A d \in Call : CallIsSound(s, d)'
    <3>1. CallIsSound(s, c)'
      BY <1>2, <2>1, <2>4 DEF CallIsSound, call
    <3>2. ASSUME NEW d \in Call \ {c} PROVE CallIsSound(s, d)'
      BY <2>1, <2>2 DEF ServerInv, CallIsSound
    <3> QED
      BY <3>1, <3>2
  <2>6. NumbersApart(s)'
    BY <2>2, <2>4 DEF ServerInv, NumbersApart, call
  <2>7. HandleLives(s)' /\ Served(s)'
    BY <2>1, <2>2 DEF ServerInv, HandleLives, Served, call
  <2>8. /\ InFlight(s)' = InFlight(s) /\ Spawning(s)' = Spawning(s)
        /\ Running(s)' = Running(s) /\ (Listed(s)' <=> Listed(s))
    <3>1. \A d \in Call : /\ calls'[s][d].at # "idle" <=> calls[s][d].at # "idle"
                          /\ calls'[s][d].at = "spawning" <=> calls[s][d].at = "spawning"
                          /\ calls'[s][d].new = calls[s][d].new
      BY <2>1, <2>2, <2>4 DEF call
    <3>2. InFlight(s)' = InFlight(s)
      BY <3>1 DEF InFlight
    <3>3. Spawning(s)' = Spawning(s)
      BY <3>1 DEF Spawning
    <3> QED
      BY <2>1, <3>2, <3>3 DEF Running, Listed
  <2>9. \A d \in Call : calls'[s][d].next = calls[s][d].next
    BY <2>2, <2>4 DEF call
  <2>10. s \notin overlapped' => Orderly(s)'
    <3>1. \A d \in InFlight(s)' : d \in InFlight(s) /\ calls'[s][d].next = calls[s][d].next
      BY <2>8, <2>9 DEF InFlight
    <3> QED
      BY <1>2, <2>1, <2>8, <3>1 DEF Orderly
  <2> QED
    BY <2>3, <2>5, <2>6, <2>7, <2>10 DEF ServerInv
<1>6. CASE Verified(s, c)
  <2>1. call.at = "checking" /\ UNCHANGED <<shutdown, overlapped, forgotten>>
    BY <1>6 DEF Verified
  <2>2. CASE call.again /\ Listed(s)
    <3> DEFINE next == [call EXCEPT !.next = "start"]
    <3>1. StopServer(s, c, next)
      BY <1>6, <2>2 DEF Verified
    <3>2. next \in CallState /\ next.next = "start" /\ next.new = call.new
      BY <1>1 DEF CallState
    <3>3. /\ call.new \in Proc /\ procs[s][call.new] = "gone"
          /\ \A d \in Call \ {c} : calls[s][d].new # call.new
      BY <1>2, <2>1 DEF CallIsSound, ServerInv, NumbersApart, Proc
    <3>4. OnlyOf(s)
      BY <2>1, <3>1 DEF OnlyOf, StopServer, Proceed, TypeOK
    <3>5. calls[s][c].at \in {"idle", "checking"}
      BY <2>1
    <3>6. s \notin overlapped' =>
            /\ s \notin overlapped /\ InFlight(s) \subseteq {c}
            /\ \A r \in Servers : shutdown[r] = {}
            /\ next.next = "start" => Listed(s)
      BY <1>3, <2>1, <2>2
    <3> HIDE DEF next, call
    <3>7. ServerInv(s)'
      BY <2>1, <3>1, <3>2, <3>3, <3>5, <3>6, StopServerKeeps
    <3> QED
      BY <3>4, <3>7
  <2>3. CASE ~(call.again /\ Listed(s))
    BY <1>6, <2>1, <2>3, EndsKeeps DEF Verified
  <2> QED
    BY <2>2, <2>3
<1>7. CASE InstallFails(s, c)
  BY <1>7, EndsKeeps DEF InstallFails
<1>8. CASE SpawnResolves(s, c) \/ SpawnFails(s, c)
  BY <1>8, SpawnEndsKeeps
<1> QED
  BY <1>4, <1>5, <1>6, <1>7, <1>8 DEF Answers

LEMMA ExitsKeeps ==
  ASSUME TypeOK, NEW s \in Servers, NEW p \in Proc, ServerInv(s), Exits(s, p)
  PROVE  OnlyOf(s) /\ ServerInv(s)'
<1>1. OnlyOf(s) /\ UNCHANGED <<calls, shutdown, overlapped, forgotten>>
  BY DEF OnlyOf, Exits, TypeOK
<1>2. /\ procs[s][p] \in {"up", "stopping"} /\ procs'[s][p] = "gone"
      /\ \A q \in Proc \ {p} : procs'[s][q] = procs[s][q]
  BY DEF Exits, TypeOK
<1>3. IF sidecars[s] = p THEN sidecars'[s] = 0 /\ runtime'[s] = Noted(runtime[s], "failed")
      ELSE sidecars'[s] = sidecars[s] /\ runtime'[s] = runtime[s]
  BY DEF Exits, TypeOK
<1>4. \A d \in Call : CallIsSound(s, d)'
  <2>1. ASSUME NEW d \in Call PROVE CallIsSound(s, d)'
    BY <1>1, <1>2 DEF ServerInv, CallIsSound
  <2> QED
    BY <2>1
<1>5. NumbersApart(s)'
  BY <1>1 DEF ServerInv, NumbersApart
<1>6. HandleLives(s)'
  <2>1. sidecars[s] # 0 => sidecars[s] \in Proc
    BY WslAssumption DEF TypeOK, Proc
  <2> QED
    BY <1>1, <1>2, <1>3, <2>1 DEF ServerInv, HandleLives
<1>7. Served(s)'
  BY <1>1, <1>3 DEF ServerInv, Served, Noted
<1>8. s \notin overlapped' => Orderly(s)'
  <2>1. InFlight(s)' = InFlight(s) /\ Spawning(s)' = Spawning(s) /\ (Listed(s)' <=> Listed(s))
    BY <1>1, <1>3 DEF InFlight, Spawning, Listed, Noted
  <2>2. Running(s)' = Running(s) \ {p}
    BY <1>2 DEF Running
  <2> QED
    BY <1>1, <1>3, <2>1, <2>2 DEF ServerInv, Orderly
<1> QED
  BY <1>1, <1>4, <1>5, <1>6, <1>7, <1>8 DEF ServerInv

-----------------------------------------------------------------------------
(* The steps of the whole controller.                                      *)
LEMMA StopServersKeeps ==
  ASSUME TypeOK, NEW s \in Servers, ServerInv(s), StopServers
  PROVE  ServerInv(s)'
<1> DEFINE old == sidecars[s]
<1>1. /\ UNCHANGED <<runtime, sidecars, calls, forgotten>>
      /\ \A r \in Servers : shutdown[r] = {}
      /\ shutdown'[s] = {old} \ {0}
      /\ \A p \in Proc : procs'[s][p] = IF p = old THEN "stopping" ELSE procs[s][p]
      /\ s \notin overlapped' => s \notin overlapped /\ InFlight(s) = {}
  BY DEF StopServers
<1>2. old # 0 => old \in Proc /\ procs[s][old] \in {"up", "stopping"}
  BY <1>1, WslAssumption DEF TypeOK, Proc, ServerInv, HandleLives
<1>3. \A d \in Call : CallIsSound(s, d)'
  <2>1. ASSUME NEW d \in Call PROVE CallIsSound(s, d)'
    <3>1. CallIsSound(s, d) /\ calls'[s][d] = calls[s][d]
      BY <1>1 DEF ServerInv
    <3>2. \A p \in Proc : procs[s][p] \in {"gone", "booting"} => procs'[s][p] = procs[s][p]
      BY <1>1, <1>2 DEF Proc
    <3> QED
      BY <3>1, <3>2 DEF CallIsSound
  <2> QED
    BY <2>1
<1>4. NumbersApart(s)' /\ Served(s)'
  BY <1>1 DEF ServerInv, NumbersApart, Served
<1>5. HandleLives(s)'
  BY <1>1, <1>2 DEF HandleLives
<1>6. ASSUME s \notin overlapped' PROVE Orderly(s)'
  <2>1. Orderly(s) /\ InFlight(s) = {}
    BY <1>1, <1>6 DEF ServerInv
  <2>2. Spawning(s) = {}
    BY <2>1 DEF InFlight, Spawning
  <2>3. InFlight(s)' = {}
    BY <1>1, <2>1 DEF InFlight
  <2>4. Running(s)' = {}
    BY <1>1, <2>1, <2>2 DEF Orderly, Running
  <2>5. Listed(s)' <=> Listed(s)
    BY <1>1 DEF Listed
  <2> QED
    BY <1>1, <2>1, <2>3, <2>4, <2>5 DEF Orderly
<1> QED
  BY <1>3, <1>4, <1>5, <1>6 DEF ServerInv

LEMMA ServersStoppedKeeps ==
  ASSUME TypeOK, NEW s \in Servers, ServerInv(s), ServersStopped
  PROVE  ServerInv(s)'
<1>1. /\ UNCHANGED <<runtime, procs, calls, overlapped>>
      /\ \E r \in Servers : shutdown[r] # {}
      /\ \A p \in shutdown[s] : procs[s][p] = "gone"
      /\ \A r \in Servers : shutdown'[r] = {}
      /\ sidecars'[s] = 0
      /\ s \notin forgotten' => s \notin forgotten /\ sidecars[s] = 0
      /\ s \notin forgotten /\ sidecars[s] = 0 => s \notin forgotten'
  BY DEF ServersStopped
<1>2. \A d \in Call : CallIsSound(s, d)'
  BY <1>1 DEF ServerInv, CallIsSound
<1>3. NumbersApart(s)' /\ HandleLives(s)' /\ Served(s)'
  BY <1>1 DEF ServerInv, NumbersApart, HandleLives, Served
<1>4. ASSUME s \notin overlapped' PROVE Orderly(s)'
  <2>1. Orderly(s) /\ InFlight(s) = {} /\ Running(s) = {}
    BY <1>1, <1>4 DEF ServerInv, Orderly
  <2>2. sidecars[s] = 0
    <3>1. SUFFICES ASSUME sidecars[s] # 0 PROVE FALSE
      OBVIOUS
    <3>2. sidecars[s] \in Proc
      BY <3>1, WslAssumption DEF TypeOK, Proc
    <3>3. procs[s][sidecars[s]] # "up"
      BY <2>1, <3>2 DEF Running
    <3>4. sidecars[s] \in shutdown[s] /\ procs[s][sidecars[s]] = "stopping"
      BY <3>1, <3>3 DEF ServerInv, HandleLives
    <3> QED
      BY <1>1, <3>4
  <2>3. InFlight(s)' = {} /\ Running(s)' = {} /\ (Listed(s)' <=> Listed(s))
    BY <1>1, <2>1 DEF InFlight, Running, Listed
  <2> QED
    BY <1>1, <2>1, <2>2, <2>3 DEF Orderly
<1> QED
  BY <1>2, <1>3, <1>4 DEF ServerInv

LEMMA InitInv == Init => IInv
<1> SUFFICES ASSUME Init PROVE IInv
  OBVIOUS
<1>1. TypeOK
  BY InitTypeOK
<1>2. ASSUME NEW s \in Servers PROVE ServerInv(s)
  <2>1. sidecars[s] = 0 /\ (\A r \in Servers : shutdown[r] = {}) /\ s \notin forgotten
    BY DEF Init
  <2>2. 1 \in Proc /\ 1 \in Call
    BY WslAssumption DEF Proc, Call
  <2>3. /\ runtime[s] = IF s \in persisted THEN "starting" ELSE "none"
        /\ \A p \in Proc : procs[s][p] = IF s \in persisted /\ p = 1 THEN "booting" ELSE "gone"
        /\ \A c \in Call : calls[s][c] = IF s \in persisted /\ c = 1
                                           THEN [NoCall EXCEPT !.at = "spawning", !.new = 1] ELSE NoCall
    BY DEF Init, Started
  <2>4. /\ NoCall.at = "idle" /\ NoCall.new = 0
        /\ [NoCall EXCEPT !.at = "spawning", !.new = 1].at = "spawning"
        /\ [NoCall EXCEPT !.at = "spawning", !.new = 1].new = 1
        /\ [NoCall EXCEPT !.at = "spawning", !.new = 1].next = "start"
    BY DEF NoCall
  <2>5. \A c \in Call :
          /\ s \in persisted /\ c = 1 =>
               calls[s][c].at = "spawning" /\ calls[s][c].new = 1 /\ calls[s][c].next = "start"
          /\ ~(s \in persisted /\ c = 1) => calls[s][c].at = "idle" /\ calls[s][c].new = 0
    BY <2>3, <2>4
  <2>6. \A c \in Call : CallIsSound(s, c)
    BY <2>2, <2>3, <2>5 DEF CallIsSound
  <2>7. NumbersApart(s) /\ HandleLives(s) /\ Served(s)
    BY <2>1, <2>3, <2>5 DEF NumbersApart, HandleLives, Served
  <2>8. Orderly(s)
    <3>1. InFlight(s) = {c \in Call : s \in persisted /\ c = 1}
      BY <2>5 DEF InFlight
    <3>2. Running(s) = {p \in Proc : s \in persisted /\ p = 1}
      BY <2>3 DEF Running
    <3>3. s \in persisted => 1 \in Spawning(s)
      BY <2>2, <2>5 DEF Spawning
    <3>4. Listed(s) <=> s \in persisted
      BY <2>3 DEF Listed
    <3> QED
      BY <2>1, <3>1, <3>2, <3>3, <3>4 DEF Orderly
  <2> QED
    BY <2>6, <2>7, <2>8 DEF ServerInv
<1> QED
  BY <1>1, <1>2 DEF IInv

(* A relaunch starts over.                                                 *)
LEMMA RelaunchKeeps == TypeOK /\ Relaunch => IInv'
<1>1. TypeOK /\ Relaunch => Init'
  BY DEF TypeOK, Relaunch, Init, Started, NoCall
<1> QED
  BY <1>1, InitInv, PTL

LEMMA NextKeeps == IInv /\ [Next]_vars => IInv'
<1> SUFFICES ASSUME IInv, [Next]_vars PROVE IInv'
  OBVIOUS
<1>1. TypeOK /\ \A s \in Servers : ServerInv(s)
  BY DEF IInv
<1>2. TypeOK'
  BY <1>1, NextTypes
<1>3. ASSUME NEW s \in Servers, OnlyOf(s), ServerInv(s)' PROVE \A r \in Servers : ServerInv(r)'
  BY <1>1, <1>3, OthersKeep
<1>4. ASSUME NEW s \in Servers, NEW c \in Call, Requests(s, c) PROVE IInv'
  BY <1>1, <1>2, <1>3, <1>4, RequestKeeps DEF IInv
<1>5. ASSUME NEW s \in Servers, NEW c \in Call, Answers(s, c) PROVE IInv'
  BY <1>1, <1>2, <1>3, <1>5, AnswerKeeps DEF IInv
<1>6. ASSUME NEW s \in Servers, NEW p \in Proc, Exits(s, p) PROVE IInv'
  BY <1>1, <1>2, <1>3, <1>6, ExitsKeeps DEF IInv
<1>7. CASE StopServers
  BY <1>1, <1>2, <1>7, StopServersKeeps DEF IInv
<1>8. CASE ServersStopped
  BY <1>1, <1>2, <1>8, ServersStoppedKeeps DEF IInv
<1>9. CASE Relaunch
  BY <1>1, <1>9, RelaunchKeeps
<1>10. CASE UNCHANGED vars
  <2>1. ASSUME NEW s \in Servers PROVE ServerInv(s)'
    <3>1. ServerInv(s)
      BY <1>1
    <3> QED
      BY <1>10, <3>1 DEF vars, ServerInv, CallIsSound, NumbersApart, HandleLives, Served, Orderly, InFlight,
                         Running, Spawning, Listed
  <2> QED
    BY <1>2, <2>1 DEF IInv
<1> QED
  BY <1>4, <1>5, <1>6, <1>7, <1>8, <1>9, <1>10 DEF Next

LEMMA Invariant == Spec => []IInv
BY InitInv, NextKeeps, PTL DEF Spec

-----------------------------------------------------------------------------
(* The Map holds live sidecars only, for any number of servers, calls in   *)
(* flight and processes.                                                   *)
THEOREM HandlesAreLive == Spec => []HandleIsLive
<1>1. IInv => HandleIsLive
  BY DEF IInv, ServerInv, HandleLives, HandleIsLive
<1> QED
  BY <1>1, Invariant, PTL

(* What is shown as ready has a sidecar, or is being stopped; only clear() *)
(* in stopServers() takes it away.                                         *)
THEOREM ReadyMeansServed == Spec => []ReadyIsServed
<1>1. IInv => ReadyIsServed
  BY DEF IInv, ServerInv, Served, ReadyIsServed
<1> QED
  BY <1>1, Invariant, PTL

(* While its calls come one after the other, no process of a server is     *)
(* lost.                                                                   *)
THEOREM NoneAstray == Spec => []NothingAstray
<1>1. IInv => NothingAstray
  BY DEF IInv, ServerInv, Orderly, NothingAstray
<1> QED
  BY <1>1, Invariant, PTL

(* A stopServers() that resolves leaves no server up none of whose calls   *)
(* overlapped, for any number of servers, calls and processes.             *)
THEOREM StoppedIsDown == Spec => StoppedMeansDown
<1>1. ASSUME IInv, [Next]_vars, NEW r \in Servers, shutdown[r] # {}, \A t \in Servers : shutdown'[t] = {},
             procs' = procs, NEW s \in Servers \ overlapped
      PROVE  sidecars[s] = 0 /\ Running(s) = {}
  <2>1. HandleLives(s) /\ Orderly(s) /\ Running(s) = {}
    BY <1>1 DEF IInv, ServerInv, Orderly
  <2>2. ServersStopped \/ Relaunch
    <3>1. ASSUME NEW t \in Servers, NEW c \in Call, Requests(t, c) \/ Answers(t, c) PROVE shutdown' = shutdown
      BY <3>1 DEF Requests, Answers, StartServer, InstallOpencode, AddServer, RemoveServer, Begins, Stopped,
                  Installed, Verified, InstallFails, SpawnResolves, SpawnFails
    <3>2. ASSUME NEW t \in Servers, NEW p \in Proc, Exits(t, p) PROVE shutdown' = shutdown
      BY <3>2 DEF Exits
    <3>3. CASE StopServers
      BY <1>1, <3>3 DEF StopServers
    <3>4. CASE UNCHANGED vars
      BY <1>1, <3>4 DEF vars
    <3> QED
      BY <1>1, <3>1, <3>2, <3>3, <3>4 DEF Next
  <2>3. SUFFICES ASSUME sidecars[s] # 0 PROVE FALSE
    BY <2>1
  <2>4. sidecars[s] \in Proc
    BY <1>1, <2>3, WslAssumption DEF IInv, TypeOK, Proc
  <2>5. procs[s][sidecars[s]] = "stopping" /\ sidecars[s] \in shutdown[s]
    BY <2>1, <2>3, <2>4 DEF HandleLives, Running
  <2>6. CASE ServersStopped
    BY <2>5, <2>6 DEF ServersStopped
  <2>7. CASE Relaunch
    BY <1>1, <2>4, <2>5, <2>7 DEF Relaunch, Started
  <2> QED
    BY <2>2, <2>6, <2>7
<1>2. IInv /\ [Next]_vars =>
        [/\ \E r \in Servers : shutdown[r] # {}
         /\ \A r \in Servers : shutdown'[r] = {}
         /\ UNCHANGED procs
         => \A s \in Servers \ overlapped : sidecars[s] = 0 /\ Running(s) = {}]_vars
  BY <1>1
<1> QED
  BY <1>2, Invariant, PTL DEF Spec, StoppedMeansDown

(* While its calls come one after the other, a removed server is down.     *)
THEOREM RemovedIsDown == Spec => []RemovedStaysDown
<1>1. IInv => RemovedStaysDown
  <2> SUFFICES ASSUME IInv, NEW s \in Servers \ overlapped, ~Listed(s)
               PROVE  sidecars[s] = 0 /\ \A p \in Proc : procs[s][p] \in {"gone", "stopping"}
    BY DEF RemovedStaysDown
  <2>1. sidecars[s] = 0 /\ Running(s) = {}
    BY DEF IInv, ServerInv, Orderly
  <2> QED
    BY <2>1 DEF Running, IInv, TypeOK, Phase
<1> QED
  BY <1>1, Invariant, PTL

(* While its calls come one after the other, the CLI of a distribution is  *)
(* never replaced or verified under a running server.                      *)
THEOREM ReplacedWhileDown == Spec => []CliReplacedWhileDown
<1>1. IInv => CliReplacedWhileDown
  <2> SUFFICES ASSUME IInv, NEW s \in Servers \ overlapped,
                      NEW c \in Call, calls[s][c].at \in {"installing", "checking"}
               PROVE  Running(s) = {} /\ runtime[s] # "ready"
    BY DEF CliReplacedWhileDown
  <2>1. Orderly(s) /\ Served(s) /\ c \in InFlight(s)
    BY DEF IInv, ServerInv, InFlight
  <2>2. \A d \in Call \ {c} : calls[s][d].at = "idle"
    BY <2>1 DEF Orderly, InFlight
  <2>3. Spawning(s) = {}
    BY <2>2 DEF Spawning
  <2>4. Running(s) = {}
    BY <2>1, <2>3 DEF Orderly, Running, Proc
  <2>5. runtime[s] # "ready"
    BY <2>1, <2>2 DEF Orderly, Served
  <2> QED
    BY <2>4, <2>5
<1> QED
  BY <1>1, Invariant, PTL
-----------------------------------------------------------------------------
(* What brings a server shown as starting further: a call that spawns its  *)
(* process, or one that waits for a process that has been told to exit.    *)
Tended(s) ==
  runtime[s] = "starting" => \E c \in Call : calls[s][c].at \in {"stopping", "spawning"}

(* A process whose exit a call awaits stays stopped: its number is given   *)
(* to no other call meanwhile.                                             *)
DyingAwaited(s) ==
  \A c \in Call : calls[s][c].at = "stopping" =>
    /\ procs[s][calls[s][c].old] \in {"stopping", "gone"}
    /\ \A d \in Call : calls[s][d].new # calls[s][c].old

Attended(s) == Tended(s) /\ DyingAwaited(s)

(* A call that goes on, or ends, without a stop touches only the process   *)
(* it has reserved.                                                        *)
LEMMA CallMovesOn ==
  ASSUME TypeOK, NEW s \in Servers, NEW c \in Call, NEW x, ServerInv(s), Attended(s),
         x.at # "stopping",
         calls'[s][c] = x, \A d \in Call \ {c} : calls'[s][d] = calls[s][d],
         \A d \in Call \ {c} : calls[s][d].at = "stopping" => x.new # calls[s][d].old,
         \A p \in Proc \ {x.new, calls[s][c].new} : procs'[s][p] = procs[s][p],
         runtime'[s] = "starting" =>
           \/ x.at = "spawning"
           \/ runtime[s] = "starting" /\ calls[s][c].at \notin {"stopping", "spawning"}
  PROVE  Attended(s)'
<1>1. Tended(s)'
  BY DEF Attended, Tended
<1>2. ASSUME NEW d \in Call, calls'[s][d].at = "stopping"
      PROVE  /\ procs'[s][calls'[s][d].old] \in {"stopping", "gone"}
             /\ \A e \in Call : calls'[s][e].new # calls'[s][d].old
  <2>1. d # c /\ calls'[s][d] = calls[s][d]
    BY <1>2
  <2>2. /\ calls[s][d].old \in Proc
        /\ procs[s][calls[s][d].old] \in {"stopping", "gone"}
        /\ \A e \in Call : calls[s][e].new # calls[s][d].old
    BY <1>2, <2>1 DEF ServerInv, CallIsSound, Attended, DyingAwaited
  <2>3. procs'[s][calls[s][d].old] = procs[s][calls[s][d].old]
    BY <1>2, <2>1, <2>2
  <2> QED
    BY <1>2, <2>1, <2>2, <2>3
<1> QED
  BY <1>1, <1>2 DEF Attended, DyingAwaited

(* A call that stops the sidecar waits for a live process, whose number no *)
(* call has reserved.                                                      *)
LEMMA CallStops ==
  ASSUME TypeOK, NEW s \in Servers, NEW c \in Call, NEW x, ServerInv(s), Attended(s),
         x.at = "stopping", x.old = sidecars[s], sidecars[s] # 0,
         calls'[s][c] = x, \A d \in Call \ {c} : calls'[s][d] = calls[s][d],
         \A d \in Call \ {c} : calls[s][d].at = "stopping" => x.new # calls[s][d].old,
         x.new = 0 \/ procs[s][x.new] = "gone",
         procs'[s][sidecars[s]] = "stopping",
         \A p \in Proc \ {sidecars[s]} : procs'[s][p] = procs[s][p]
  PROVE  Attended(s)'
<1> DEFINE old == sidecars[s]
<1>1. Tended(s)'
  BY DEF Tended
<1>2. old \in Proc /\ 0 \notin Proc
  BY WslAssumption DEF TypeOK, Proc
<1>3. procs[s][old] \in {"up", "stopping"}
  BY DEF ServerInv, HandleLives
<1>4. procs'[s][old] = "stopping" /\ \A p \in Proc \ {old} : procs'[s][p] = procs[s][p]
  OBVIOUS
<1>5. ASSUME NEW e \in Call PROVE calls'[s][e].new # old
  <2>1. CASE e = c
    BY <1>2, <1>3, <2>1
  <2>2. CASE e # c
    <3>1. CallIsSound(s, e) /\ calls'[s][e] = calls[s][e] /\ calls[s][e] \in CallState
      BY <2>2 DEF ServerInv, TypeOK
    <3> QED
      BY <1>2, <1>3, <3>1 DEF CallIsSound, CallState
  <2> QED
    BY <2>1, <2>2
<1>6. ASSUME NEW d \in Call, calls'[s][d].at = "stopping"
      PROVE  /\ procs'[s][calls'[s][d].old] \in {"stopping", "gone"}
             /\ \A e \in Call : calls'[s][e].new # calls'[s][d].old
  <2>1. CASE d = c
    BY <1>4, <1>5, <2>1
  <2>2. CASE d # c
    <3>1. /\ calls'[s][d] = calls[s][d] /\ calls[s][d].old \in Proc
          /\ procs[s][calls[s][d].old] \in {"stopping", "gone"}
          /\ \A e \in Call : calls[s][e].new # calls[s][d].old
      BY <1>6, <2>2 DEF ServerInv, CallIsSound, Attended, DyingAwaited
    <3>2. procs'[s][calls[s][d].old] \in {"stopping", "gone"}
      BY <1>4, <3>1
    <3> QED
      BY <1>6, <2>2, <3>1, <3>2
  <2> QED
    BY <2>1, <2>2
<1> QED
  BY <1>1, <1>6 DEF Attended, DyingAwaited

LEMMA ProceedAttends ==
  ASSUME TypeOK, NEW s \in Servers, NEW c \in Call, NEW call \in CallState, NEW shown \in Runtime,
         ServerInv(s), Attended(s), Proceed(s, c, call, shown),
         \A d \in Call \ {c} : calls[s][d].at = "stopping" => call.new # calls[s][d].old,
         shown = "starting" => runtime[s] = "starting" /\ calls[s][c].at \notin {"stopping", "spawning"}
  PROVE  Attended(s)'
<1> DEFINE x == CASE call.next = "start"   -> [call EXCEPT !.at = "spawning", !.old = 0]
                  [] call.next = "install" -> [call EXCEPT !.at = "installing", !.old = 0]
                  [] call.next = "remove"  -> NoCall
<1>1. call.next \in {"start", "install", "remove"}
  BY DEF CallState
<1>2. calls'[s][c] = x /\ \A d \in Call \ {c} : calls'[s][d] = calls[s][d]
  BY DEF Proceed, TypeOK
<1>3. /\ call.next = "start" => x.at = "spawning"
      /\ call.next = "install" => x.at = "installing"
      /\ call.next = "remove" => x.at = "idle" /\ x.new = 0
      /\ call.next # "remove" => x.new = call.new
  BY <1>1 DEF NoCall, CallState
<1> HIDE DEF x
<1>4. \A p \in Proc \ {call.new} : procs'[s][p] = procs[s][p]
  BY DEF Proceed, TypeOK
<1>5. call.next = "remove" => procs' = procs
  BY DEF Proceed
<1>6. runtime'[s] = "starting" => call.next = "start" \/ (call.next = "install" /\ shown = "starting")
  BY <1>1 DEF Proceed, TypeOK
<1>7. ASSUME NEW d \in Call \ {c}, calls[s][d].at = "stopping" PROVE x.new # calls[s][d].old
  <2>1. calls[s][d].old \in Proc /\ 0 \notin Proc
    BY <1>7 DEF ServerInv, CallIsSound, Proc
  <2> QED
    BY <1>3, <1>7, <2>1
<1>8. \A p \in Proc \ {x.new, calls[s][c].new} : procs'[s][p] = procs[s][p]
  BY <1>3, <1>4, <1>5
<1>9. x.at # "stopping"
  BY <1>1, <1>3
<1>10. runtime'[s] = "starting" =>
         \/ x.at = "spawning"
         \/ runtime[s] = "starting" /\ calls[s][c].at \notin {"stopping", "spawning"}
  BY <1>3, <1>6
<1> QED
  BY <1>2, <1>7, <1>8, <1>9, <1>10, CallMovesOn

LEMMA StopServerAttends ==
  ASSUME TypeOK, NEW s \in Servers, NEW c \in Call, NEW call \in CallState,
         ServerInv(s), Attended(s), StopServer(s, c, call),
         \A d \in Call \ {c} : calls[s][d].at = "stopping" => call.new # calls[s][d].old,
         call.new = 0 \/ procs[s][call.new] = "gone",
         calls[s][c].at \notin {"stopping", "spawning"}
  PROVE  Attended(s)'
<1>1. CASE sidecars[s] = 0
  <2>1. Proceed(s, c, call, runtime[s]) /\ runtime[s] \in Runtime
    BY <1>1 DEF StopServer, TypeOK
  <2> QED
    BY <2>1, ProceedAttends
<1>2. CASE sidecars[s] # 0
  <2> DEFINE x == [call EXCEPT !.at = "stopping", !.old = sidecars[s]]
  <2>1. x.at = "stopping" /\ x.old = sidecars[s] /\ x.new = call.new
    BY DEF CallState
  <2>2. /\ calls' = [calls EXCEPT ![s][c] = x]
        /\ procs' = [procs EXCEPT ![s][sidecars[s]] = "stopping"]
    BY <1>2 DEF StopServer
  <2> HIDE DEF x
  <2>3. /\ calls'[s][c] = x /\ \A d \in Call \ {c} : calls'[s][d] = calls[s][d]
        /\ procs'[s][sidecars[s]] = "stopping"
        /\ \A p \in Proc \ {sidecars[s]} : procs'[s][p] = procs[s][p]
    BY <1>2, <2>2, WslAssumption DEF TypeOK, Proc
  <2> QED
    BY <1>2, <2>1, <2>3, CallStops
<1> QED
  BY <1>1, <1>2

(* The number a request reserves is nobody's.                              *)
LEMMA FreshIsFree ==
  ASSUME NEW s \in Servers, NEW p \in Proc, Fresh(s, p)
  PROVE  procs[s][p] = "gone" /\ \A d \in Call : calls[s][d].old # p
BY DEF Fresh, Awaited

LEMMA RequestAttends ==
  ASSUME TypeOK, NEW s \in Servers, NEW c \in Call, ServerInv(s), Attended(s), Requests(s, c)
  PROVE  Attended(s)'
<1>1. Proc \subseteq 0 .. MaxProcs /\ 0 \notin Proc
  BY WslAssumption DEF Proc
<1>2. Idle(s, c) => calls[s][c].at = "idle"
  BY DEF Idle
<1>3. ASSUME NEW p \in Proc, StartServer(s, c, p) PROVE Attended(s)'
  <2> DEFINE call == [NoCall EXCEPT !.new = p]
  <2>1. call \in CallState /\ call.new = p
    BY <1>1, NoCallIsCall DEF CallState, NoCall
  <2>2. Idle(s, c) /\ Fresh(s, p) /\ StopServer(s, c, call)
    BY <1>3 DEF StartServer
  <2> HIDE DEF call
  <2> QED
    BY <1>2, <2>1, <2>2, FreshIsFree, StopServerAttends
<1>4. ASSUME NEW p \in Proc, InstallOpencode(s, c, p) PROVE Attended(s)'
  <2> DEFINE call == [NoCall EXCEPT !.next = "install", !.new = p, !.again = Listed(s)]
  <2>1. call \in CallState /\ call.new = p
    <3>1. Listed(s) \in BOOLEAN
      BY DEF Listed
    <3>2. [NoCall EXCEPT !.next = "install", !.new = p] \in CallState
      BY <1>1, NoCallIsCall DEF CallState
    <3>3. call \in CallState
      BY <3>1, <3>2 DEF CallState
    <3> QED
      BY <3>3 DEF NoCall
  <2>2. /\ Idle(s, c) /\ Fresh(s, p) /\ runtime[s] \in Runtime
        /\ StopServer(s, c, call) \/ Proceed(s, c, call, runtime[s])
    BY <1>4 DEF InstallOpencode, TypeOK
  <2> HIDE DEF call
  <2>3. CASE StopServer(s, c, call)
    BY <1>2, <2>1, <2>2, <2>3, FreshIsFree, StopServerAttends
  <2>4. CASE Proceed(s, c, call, runtime[s])
    BY <1>2, <2>1, <2>2, <2>4, FreshIsFree, ProceedAttends
  <2> QED
    BY <2>2, <2>3, <2>4
<1>5. CASE RemoveServer(s, c)
  <2> DEFINE call == [NoCall EXCEPT !.next = "remove"]
  <2>1. call \in CallState /\ call.new = 0
    BY NoCallIsCall DEF CallState, NoCall
  <2>2. Idle(s, c) /\ StopServer(s, c, call)
    BY <1>5 DEF RemoveServer
  <2> HIDE DEF call
  <2>3. \A d \in Call : calls[s][d].at = "stopping" => calls[s][d].old # 0
    BY <1>1 DEF ServerInv, CallIsSound
  <2> QED
    BY <1>2, <2>1, <2>2, <2>3, StopServerAttends
<1>6. ASSUME NEW p \in Proc, AddServer(s, c, p) PROVE Attended(s)'
  <2>1. Idle(s, c) /\ Fresh(s, p)
    BY <1>6 DEF AddServer
  <2>2. CASE sidecars[s] = 0
    <3> DEFINE x == [NoCall EXCEPT !.at = "spawning", !.new = p]
    <3>1. x.at = "spawning" /\ x.new = p
      BY DEF NoCall
    <3>2. calls' = [calls EXCEPT ![s][c] = x] /\ procs' = [procs EXCEPT ![s][p] = "booting"]
      BY <1>6, <2>2 DEF AddServer
    <3> HIDE DEF x
    <3>3. /\ calls'[s][c] = x /\ \A d \in Call \ {c} : calls'[s][d] = calls[s][d]
          /\ \A q \in Proc \ {p} : procs'[s][q] = procs[s][q]
      BY <3>2 DEF TypeOK
    <3> QED
      BY <2>1, <3>1, <3>3, FreshIsFree, CallMovesOn
  <2>3. CASE sidecars[s] # 0
    <3> DEFINE x == [NoCall EXCEPT !.at = "stopping", !.old = sidecars[s], !.new = p]
    <3>1. x.at = "stopping" /\ x.new = p /\ x.old = sidecars[s]
      BY DEF NoCall
    <3>2. /\ calls' = [calls EXCEPT ![s][c] = x]
          /\ procs' = [procs EXCEPT ![s][sidecars[s]] = "stopping"]
      BY <1>6, <2>3 DEF AddServer
    <3> HIDE DEF x
    <3>3. /\ calls'[s][c] = x /\ \A d \in Call \ {c} : calls'[s][d] = calls[s][d]
          /\ procs'[s][sidecars[s]] = "stopping"
          /\ \A q \in Proc \ {sidecars[s]} : procs'[s][q] = procs[s][q]
      BY <2>3, <3>2, WslAssumption DEF TypeOK, Proc
    <3>4. procs[s][p] = "gone" /\ \A d \in Call : calls[s][d].old # p
      BY <2>1, FreshIsFree
    <3> QED
      BY <2>3, <3>1, <3>3, <3>4, CallStops
  <2> QED
    BY <2>2, <2>3
<1> QED
  BY <1>3, <1>4, <1>5, <1>6 DEF Requests

(* The call ends, or goes on to what awaits no process.                    *)
LEMMA AnswerAttends ==
  ASSUME TypeOK, NEW s \in Servers, NEW c \in Call, ServerInv(s), Attended(s), Answers(s, c)
  PROVE  Attended(s)'
<1> DEFINE call == calls[s][c]
<1>1. call \in CallState /\ CallIsSound(s, c) /\ runtime[s] \in Runtime /\ 0 \notin Proc
  BY DEF TypeOK, ServerInv, Proc
<1>2. \A d \in Call : calls[s][d].at = "stopping" => call.new # calls[s][d].old /\ calls[s][d].old # 0
  BY <1>1 DEF Attended, DyingAwaited, ServerInv, CallIsSound
<1>3. NoCall.at = "idle" /\ NoCall.new = 0
  BY DEF NoCall
<1>4. CASE Stopped(s, c)
  <2>1. Proceed(s, c, call, Noted(runtime[s], "stopped"))
    BY <1>4 DEF Stopped
  <2>2. Noted(runtime[s], "stopped") \in Runtime /\ Noted(runtime[s], "stopped") # "starting"
    BY DEF Noted, Runtime
  <2> HIDE DEF call
  <2> QED
    BY <1>1, <1>2, <2>1, <2>2, ProceedAttends DEF call
<1>5. CASE Installed(s, c)
  <2> DEFINE x == [call EXCEPT !.at = "checking"]
  <2>1. calls' = [calls EXCEPT ![s][c] = x]
    BY <1>5 DEF Installed, TypeOK
  <2>2. x.at = "checking" /\ x.new = call.new
    BY <1>1 DEF CallState
  <2>3. call.at = "installing" /\ UNCHANGED <<runtime, procs>>
    BY <1>5 DEF Installed
  <2> HIDE DEF x
  <2>4. calls'[s][c] = x /\ \A d \in Call \ {c} : calls'[s][d] = calls[s][d]
    BY <2>1 DEF TypeOK
  <2> QED
    BY <1>2, <2>2, <2>3, <2>4, CallMovesOn
<1>6. CASE Verified(s, c)
  <2> DEFINE next == [call EXCEPT !.next = "start"]
  <2>1. call.at = "checking"
    BY <1>6 DEF Verified
  <2>2. CASE StopServer(s, c, next)
    <3>1. next \in CallState /\ next.new = call.new
      BY <1>1 DEF CallState
    <3>2. procs[s][call.new] = "gone"
      BY <1>1, <2>1 DEF CallIsSound
    <3> HIDE DEF next
    <3> QED
      BY <1>2, <2>1, <2>2, <3>1, <3>2, StopServerAttends
  <2>3. CASE calls' = [calls EXCEPT ![s][c] = NoCall] /\ UNCHANGED <<runtime, procs>>
    <3>1. calls'[s][c] = NoCall /\ \A d \in Call \ {c} : calls'[s][d] = calls[s][d]
      BY <2>3 DEF TypeOK
    <3> QED
      BY <1>2, <1>3, <2>1, <2>3, <3>1, CallMovesOn
  <2> QED
    BY <1>6, <2>2, <2>3 DEF Verified
<1>7. CASE InstallFails(s, c)
  <2>1. /\ call.at \in {"installing", "checking"}
        /\ calls' = [calls EXCEPT ![s][c] = NoCall] /\ UNCHANGED <<runtime, procs>>
    BY <1>7 DEF InstallFails
  <2>2. calls'[s][c] = NoCall /\ \A d \in Call \ {c} : calls'[s][d] = calls[s][d]
    BY <2>1 DEF TypeOK
  <2> QED
    BY <1>2, <1>3, <2>1, <2>2, CallMovesOn
<1>8. CASE SpawnResolves(s, c) \/ SpawnFails(s, c)
  <2>1. /\ calls' = [calls EXCEPT ![s][c] = NoCall]
        /\ \A p \in Proc \ {call.new} : procs'[s][p] = procs[s][p]
        /\ runtime'[s] # "starting"
    BY <1>8 DEF SpawnResolves, SpawnFails, TypeOK, Noted
  <2>2. calls'[s][c] = NoCall /\ \A d \in Call \ {c} : calls'[s][d] = calls[s][d]
    BY <2>1 DEF TypeOK
  <2> QED
    BY <1>2, <1>3, <2>1, <2>2, CallMovesOn
<1> QED
  BY <1>4, <1>5, <1>6, <1>7, <1>8 DEF Answers

LEMMA AttendedInit == Init => \A s \in Servers : Attended(s)
<1> SUFFICES ASSUME Init, NEW s \in Servers PROVE Attended(s)
  OBVIOUS
<1>1. 1 \in Call
  BY WslAssumption DEF Call
<1>2. /\ runtime[s] = IF s \in persisted THEN "starting" ELSE "none"
      /\ \A c \in Call : calls[s][c] = IF s \in persisted /\ c = 1
                                         THEN [NoCall EXCEPT !.at = "spawning", !.new = 1] ELSE NoCall
  BY DEF Init, Started
<1>3. NoCall.at = "idle" /\ [NoCall EXCEPT !.at = "spawning", !.new = 1].at = "spawning"
  BY DEF NoCall
<1> QED
  BY <1>1, <1>2, <1>3 DEF Attended, Tended, DyingAwaited

LEMMA AttendedNext ==
  ASSUME IInv, \A s \in Servers : Attended(s), [Next]_vars
  PROVE  (\A s \in Servers : Attended(s))'
<1>1. TypeOK /\ \A s \in Servers : ServerInv(s)
  BY DEF IInv
<1>2. ASSUME NEW s \in Servers, OnlyOf(s), Attended(s)' PROVE (\A r \in Servers : Attended(r))'
  <2>1. ASSUME NEW r \in Servers \ {s} PROVE Attended(r)'
    <3>1. Attended(r) /\ runtime'[r] = runtime[r] /\ procs'[r] = procs[r] /\ calls'[r] = calls[r]
      BY <1>2 DEF OnlyOf
    <3> QED
      BY <3>1 DEF Attended, Tended, DyingAwaited
  <2> QED
    BY <1>2, <2>1
<1>3. ASSUME NEW s \in Servers, NEW c \in Call, Requests(s, c) \/ Answers(s, c)
      PROVE  (\A r \in Servers : Attended(r))'
  BY <1>1, <1>2, <1>3, RequestKeeps, AnswerKeeps, RequestAttends, AnswerAttends
<1>4. ASSUME NEW s \in Servers, NEW p \in Proc, Exits(s, p) PROVE (\A r \in Servers : Attended(r))'
  <2>1. /\ calls' = calls /\ procs'[s][p] = "gone" /\ \A q \in Proc \ {p} : procs'[s][q] = procs[s][q]
        /\ runtime'[s] = "starting" => runtime[s] = "starting"
    BY <1>4 DEF Exits, TypeOK, IInv, Noted
  <2>2. Attended(s)'
    <3>1. \A c \in Call : calls[s][c].at = "stopping" => calls[s][c].old \in Proc
      BY <1>1 DEF ServerInv, CallIsSound
    <3> QED
      BY <2>1, <3>1 DEF Attended, Tended, DyingAwaited
  <2> QED
    BY <1>1, <1>2, <1>4, <2>2, ExitsKeeps
<1>5. ASSUME StopServers, NEW s \in Servers PROVE Attended(s)'
  <2>1. /\ UNCHANGED <<runtime, calls>>
        /\ \A p \in Proc : procs'[s][p] = IF p = sidecars[s] THEN "stopping" ELSE procs[s][p]
    BY <1>5 DEF StopServers
  <2>2. \A c \in Call : calls[s][c].at = "stopping" => calls[s][c].old \in Proc
    BY <1>1 DEF ServerInv, CallIsSound
  <2> QED
    BY <2>1, <2>2 DEF Attended, Tended, DyingAwaited
<1>6. ASSUME UNCHANGED <<runtime, procs, calls>>, NEW s \in Servers PROVE Attended(s)'
  BY <1>6 DEF Attended, Tended, DyingAwaited
<1>7. CASE Relaunch
  <2>1. Init'
    BY <1>1, <1>7 DEF TypeOK, Relaunch, Init, Started, NoCall
  <2> QED
    BY <2>1, AttendedInit, PTL
<1> QED
  BY <1>3, <1>4, <1>5, <1>6, <1>7 DEF Next, ServersStopped, vars

(* A spinner has something behind it: for every server that is shown as    *)
(* starting, a process boots that will be healthy, exit or be killed, or a *)
(* process was told to exit for it.                                        *)
SpinnerTurns ==
  \A s \in Servers : runtime[s] = "starting" =>
    \E c \in Call :
      \/ calls[s][c].at = "spawning" /\ procs[s][calls[s][c].new] = "booting"
      \/ calls[s][c].at = "stopping" /\ procs[s][calls[s][c].old] \in {"stopping", "gone"}

(* No server is shown as starting with nothing left that could end it, and *)
(* no call waits for a process that is not told to exit or that another    *)
(* start has taken over: the safety half of StartingResolves.              *)
THEOREM SpinnersTurn == Spec => []SpinnerTurns
<1>1. IInv /\ (\A s \in Servers : Attended(s)) => SpinnerTurns
  <2> SUFFICES ASSUME IInv, NEW s \in Servers, Attended(s), runtime[s] = "starting"
               PROVE  \E c \in Call :
                        \/ calls[s][c].at = "spawning" /\ procs[s][calls[s][c].new] = "booting"
                        \/ calls[s][c].at = "stopping" /\ procs[s][calls[s][c].old] \in {"stopping", "gone"}
    BY DEF SpinnerTurns
  <2>1. PICK c \in Call : calls[s][c].at \in {"stopping", "spawning"}
    BY DEF Attended, Tended
  <2>2. CallIsSound(s, c)
    BY DEF IInv, ServerInv
  <2> QED
    BY <2>1, <2>2 DEF Attended, DyingAwaited, CallIsSound
<1>2. IInv /\ (\A s \in Servers : Attended(s)) /\ [Next]_vars => (\A s \in Servers : Attended(s))'
  BY AttendedNext
<1> QED
  BY <1>1, <1>2, AttendedInit, Invariant, PTL DEF Spec

=============================================================================
