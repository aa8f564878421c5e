------------------------------ MODULE WslServers ------------------------------
(***************************************************************************)
(* The desktop app's controller of servers in WSL distributions            *)
(* (packages/desktop/src/main/wsl/servers.ts) and the sidecar processes it *)
(* runs (wsl/sidecar.ts).                                                  *)
(*                                                                         *)
(* startServer, installOpencode and removeServer are async functions that  *)
(* nothing serializes: every window may call any of them while others wait *)
(* for a process to stop, a CLI to be installed or a server to be healthy. *)
(* A call in flight waits `at' one of its awaits.  Calls and processes are *)
(* numbered per server, as a server is the one of its distribution.        *)
(***************************************************************************)
EXTENDS Naturals

CONSTANTS
  Servers,   \* the distributions
  Quiet,     \* bound: those with one call and one process at a time
  MaxCalls,  \* bound: calls in flight for one server
  MaxProcs   \* bound: processes of one server alive or awaited at once

ASSUME WslAssumption ==
  /\ MaxCalls \in Nat \ {0}
  /\ MaxProcs \in Nat \ {0}
  /\ Quiet \subseteq Servers

VARIABLES
  persisted,   \* the stored list of servers
  runtime,     \* state.servers: what the windows show ("none": not listed)
  sidecars,    \* the Map of running sidecars (0: none)
  procs,       \* the sidecar processes
  calls,       \* the calls in flight
  shutdown,    \* stopServers() in flight: the processes it awaits
  overlapped,  \* history: servers two calls were in flight for at once
  forgotten    \* history: servers whose sidecar clear() dropped alive

vars == <<persisted, runtime, sidecars, procs, calls, shutdown, overlapped, forgotten>>

-----------------------------------------------------------------------------
Call == 1 .. MaxCalls
Proc == 1 .. MaxProcs

Runtime == {"none", "stopped", "starting", "ready", "failed"}

Phase == {"gone", "booting", "up", "stopping"}

(* What follows the stop a call awaits (or skips); the process it stops;   *)
(* the one it will spawn, if any; whether an installation starts again.    *)
CallState ==
  [at    : {"idle", "stopping", "installing", "checking", "spawning"},
   next  : {"start", "install", "remove"},
   old   : 0 .. MaxProcs,
   new   : 0 .. MaxProcs,
   again : BOOLEAN]

NoCall == [at |-> "idle", next |-> "start", old |-> 0, new |-> 0, again |-> FALSE]

Listed(s) == runtime[s] # "none"

InFlight(s) == {c \in Call : calls[s][c].at # "idle"}

Awaited(s) == {calls[s][c].old : c \in Call} \cup {calls[s][c].new : c \in Call} \cup shutdown[s]

(* The next free number for a process, reserved when a call begins.        *)
Fresh(s, p) ==
  LET Free(q) == procs[s][q] = "gone" /\ q \notin Awaited(s)
  IN /\ Free(p) /\ \A q \in 1 .. (p - 1) : ~Free(q)
     /\ p = 1 \/ s \notin Quiet

(* setRuntime(): a server that is no longer listed stays so.               *)
Noted(shown, kind) == IF shown = "none" THEN "none" ELSE kind

(* A call overlaps with another of its server, and with stopServers(),     *)
(* which clears the Map of every server.                                   *)
Overlaps(s) == InFlight(s) # {} \/ \E r \in Servers : shutdown[r] # {}

(* The next call: the numbers of calls, too, are taken in order.           *)
Idle(s, c) ==
  /\ calls[s][c].at = "idle" /\ \A d \in 1 .. (c - 1) : calls[s][d].at # "idle"
  /\ c = 1 \/ s \notin Quiet

-----------------------------------------------------------------------------
(* The rest of a call after stopServer(): `shown' is what the windows show *)
(* of the server by then.                                                  *)
Proceed(s, c, call, shown) ==
  /\ runtime' = [runtime EXCEPT ![s] = CASE call.next = "start"   -> Noted(shown, "starting")
                                         [] call.next = "install" -> shown
                                         [] call.next = "remove"  -> "none"]
  /\ calls' = [calls EXCEPT ![s][c] =
                 CASE call.next = "start"   -> [call EXCEPT !.at = "spawning", !.old = 0]
                   [] call.next = "install" -> [call EXCEPT !.at = "installing", !.old = 0]
                   [] call.next = "remove"  -> NoCall]
  /\ procs' = IF call.next = "start" THEN [procs EXCEPT ![s][call.new] = "booting"] ELSE procs
  /\ persisted' = IF call.next = "remove" THEN persisted \ {s} ELSE persisted

(* Mutant of StopServer: a started server is not stopped first.            *)
StopServerLater(s, c, call) ==
  Proceed(s, c, call, runtime[s]) /\ UNCHANGED sidecars

(* stopServer(): the sidecar leaves the Map before its process is stopped. *)
StopServer(s, c, call) ==
  IF sidecars[s] = 0
  THEN Proceed(s, c, call, runtime[s]) /\ UNCHANGED sidecars
  ELSE /\ sidecars' = [sidecars EXCEPT ![s] = 0]
       /\ procs' = [procs EXCEPT ![s][sidecars[s]] = "stopping"]
       /\ calls' = [calls EXCEPT ![s][c] = [call EXCEPT !.at = "stopping", !.old = sidecars[s]]]
       /\ UNCHANGED <<persisted, runtime>>

Begins(s) ==
  /\ overlapped' = IF Overlaps(s) THEN overlapped \cup {s} ELSE overlapped
  /\ UNCHANGED <<shutdown, forgotten>>

StartServer(s, c, p) ==
  /\ Listed(s)
  /\ Idle(s, c) /\ Fresh(s, p)
  /\ StopServer(s, c, [NoCall EXCEPT !.new = p])
  /\ Begins(s)

(* Mutant of InstallOpencode: the sidecar is not stopped first.            *)
InstallOpencodeOver(s, c, p) ==
  /\ Idle(s, c) /\ Fresh(s, p)
  /\ Proceed(s, c, [NoCall EXCEPT !.next = "install", !.new = p, !.again = Listed(s)], runtime[s])
  /\ UNCHANGED sidecars
  /\ Begins(s)

(* installOpencode(): of a listed server it stops the sidecar first and    *)
(* starts it again at the end.                                             *)
InstallOpencode(s, c, p) ==
  /\ Idle(s, c) /\ Fresh(s, p)
  /\ LET call == [NoCall EXCEPT !.next = "install", !.new = p, !.again = Listed(s)]
     IN IF Listed(s)
        THEN StopServer(s, c, call)
        ELSE Proceed(s, c, call, runtime[s]) /\ UNCHANGED sidecars
  /\ Begins(s)

RemoveServer(s, c) ==
  /\ Idle(s, c)
  /\ StopServer(s, c, [NoCall EXCEPT !.next = "remove"])
  /\ Begins(s)

(* addServer(): stored, listed as starting, and started.                   *)
AddServer(s, c, p) ==
  /\ ~Listed(s)
  /\ Idle(s, c) /\ Fresh(s, p)
  /\ persisted' = persisted \cup {s}
  /\ runtime' = [runtime EXCEPT ![s] = "starting"]
  /\ IF sidecars[s] = 0
     THEN /\ procs' = [procs EXCEPT ![s][p] = "booting"]
          /\ calls' = [calls EXCEPT ![s][c] = [NoCall EXCEPT !.at = "spawning", !.new = p]]
          /\ UNCHANGED sidecars
     ELSE /\ sidecars' = [sidecars EXCEPT ![s] = 0]
          /\ procs' = [procs EXCEPT ![s][sidecars[s]] = "stopping"]
          /\ calls' = [calls EXCEPT ![s][c] =
                         [NoCall EXCEPT !.at = "stopping", !.old = sidecars[s], !.new = p]]
  /\ Begins(s)

-----------------------------------------------------------------------------
(* Mutant of Stopped: the windows are not told.                            *)
StoppedSilently(s, c) ==
  /\ calls[s][c].at = "stopping"
  /\ procs[s][calls[s][c].old] = "gone"
  /\ Proceed(s, c, calls[s][c], runtime[s])
  /\ UNCHANGED <<sidecars, shutdown, overlapped, forgotten>>

(* The process a call waits for has exited.                                *)
Stopped(s, c) ==
  /\ calls[s][c].at = "stopping"
  /\ procs[s][calls[s][c].old] = "gone"
  /\ Proceed(s, c, calls[s][c], Noted(runtime[s], "stopped"))
  /\ UNCHANGED <<sidecars, shutdown, overlapped, forgotten>>

(* installCli() resolves.                                                  *)
Installed(s, c) ==
  /\ calls[s][c].at = "installing"
  /\ calls' = [calls EXCEPT ![s][c].at = "checking"]
  /\ UNCHANGED <<persisted, runtime, sidecars, procs, shutdown, overlapped, forgotten>>

(* The installed version matches: start again, if the server was listed    *)
(* when the installation began and still is.                               *)
Verified(s, c) ==
  /\ calls[s][c].at = "checking"
  /\ IF calls[s][c].again /\ Listed(s)
     THEN StopServer(s, c, [calls[s][c] EXCEPT !.next = "start"])
     ELSE /\ calls' = [calls EXCEPT ![s][c] = NoCall]
          /\ UNCHANGED <<persisted, runtime, sidecars, procs>>
  /\ UNCHANGED <<shutdown, overlapped, forgotten>>

(* The installation or the check rejects, or the version is another one.   *)
InstallFails(s, c) ==
  /\ calls[s][c].at \in {"installing", "checking"}
  /\ calls' = [calls EXCEPT ![s][c] = NoCall]
  /\ UNCHANGED <<persisted, runtime, sidecars, procs, shutdown, overlapped, forgotten>>

(* spawnSidecar() resolves: the server answered its health check.          *)
SpawnResolves(s, c) ==
  /\ calls[s][c].at = "spawning"
  /\ procs' = [procs EXCEPT ![s][calls[s][c].new] = "up"]
  /\ sidecars' = [sidecars EXCEPT ![s] = calls[s][c].new]
  /\ runtime' = [runtime EXCEPT ![s] = Noted(@, "ready")]
  /\ calls' = [calls EXCEPT ![s][c] = NoCall]
  /\ UNCHANGED <<persisted, shutdown, overlapped, forgotten>>

(* Mutant of SpawnFails: the rejection is swallowed.                       *)
SpawnFailsQuietly(s, c) ==
  /\ calls[s][c].at = "spawning"
  /\ \E phase \in {"gone", "stopping"} : procs' = [procs EXCEPT ![s][calls[s][c].new] = phase]
  /\ calls' = [calls EXCEPT ![s][c] = NoCall]
  /\ UNCHANGED <<persisted, runtime, sidecars, shutdown, overlapped, forgotten>>

(* Mutant of SpawnFails: a server that is not healthy in time is not       *)
(* killed.                                                                 *)
SpawnFailsAlive(s, c) ==
  /\ calls[s][c].at = "spawning"
  /\ \E phase \in {"gone", "up"} : procs' = [procs EXCEPT ![s][calls[s][c].new] = phase]
  /\ runtime' = [runtime EXCEPT ![s] = Noted(@, "failed")]
  /\ calls' = [calls EXCEPT ![s][c] = NoCall]
  /\ UNCHANGED <<persisted, sidecars, shutdown, overlapped, forgotten>>

(* spawnSidecar() rejects: it exited early, or it was killed after the     *)
(* health timeout.                                                         *)
SpawnFails(s, c) ==
  /\ calls[s][c].at = "spawning"
  /\ \E phase \in {"gone", "stopping"} : procs' = [procs EXCEPT ![s][calls[s][c].new] = phase]
  /\ runtime' = [runtime EXCEPT ![s] = Noted(@, "failed")]
  /\ calls' = [calls EXCEPT ![s][c] = NoCall]
  /\ UNCHANGED <<persisted, sidecars, shutdown, overlapped, forgotten>>

(* Mutant of Exits: the exited sidecar stays in the Map.                   *)
ExitsKept(s, p) ==
  /\ procs[s][p] \in {"up", "stopping"}
  /\ procs' = [procs EXCEPT ![s][p] = "gone"]
  /\ runtime' = IF sidecars[s] = p THEN [runtime EXCEPT ![s] = Noted(@, "failed")] ELSE runtime
  /\ UNCHANGED <<persisted, sidecars, calls, shutdown, overlapped, forgotten>>

(* A process exits. The handler of a sidecar that is no longer the one in  *)
(* the Map does nothing.                                                   *)
Exits(s, p) ==
  /\ procs[s][p] \in {"up", "stopping"}
  /\ procs' = [procs EXCEPT ![s][p] = "gone"]
  /\ IF sidecars[s] = p
     THEN /\ sidecars' = [sidecars EXCEPT ![s] = 0]
          /\ runtime' = [runtime EXCEPT ![s] = Noted(@, "failed")]
     ELSE UNCHANGED <<sidecars, runtime>>
  /\ UNCHANGED <<persisted, calls, shutdown, overlapped, forgotten>>

-----------------------------------------------------------------------------
(* stopServers(), when the app quits, relaunches or prepares an update:    *)
(* every sidecar in the Map is stopped ... A second one while the first    *)
(* is in flight is left out.                                               *)
StopServers ==
  /\ \A s \in Servers : shutdown[s] = {}
  /\ \E s \in Servers : sidecars[s] # 0
  /\ shutdown' = [s \in Servers |-> {sidecars[s]} \ {0}]
  /\ procs' = [s \in Servers |-> [p \in Proc |-> IF p = sidecars[s] THEN "stopping" ELSE procs[s][p]]]
  /\ overlapped' = overlapped \cup {s \in Servers : InFlight(s) # {}}
  /\ UNCHANGED <<persisted, runtime, sidecars, calls, forgotten>>

(* Mutant of ServersStopped: it resolves when the first server is down.    *)
FirstStopped ==
  /\ \E s \in Servers : shutdown[s] # {} /\ \A p \in shutdown[s] : procs[s][p] = "gone"
  /\ shutdown' = [s \in Servers |-> {}]
  /\ sidecars' = [s \in Servers |-> 0]
  /\ forgotten' = forgotten \cup {s \in Servers : sidecars[s] # 0}
  /\ UNCHANGED <<persisted, runtime, procs, calls, overlapped>>

(* ... and when all have exited the Map is cleared, of whatever a call has *)
(* put there meanwhile.                                                    *)
ServersStopped ==
  /\ \E s \in Servers : shutdown[s] # {}
  /\ \A s \in Servers : \A p \in shutdown[s] : procs[s][p] = "gone"
  /\ shutdown' = [s \in Servers |-> {}]
  /\ sidecars' = [s \in Servers |-> 0]
  /\ forgotten' = forgotten \cup {s \in Servers : sidecars[s] # 0}
  /\ UNCHANGED <<persisted, runtime, procs, calls, overlapped>>

-----------------------------------------------------------------------------
(* A fresh controller after startConfiguredServers(): each stored server   *)
(* is being started.                                                       *)
Started(cfg) ==
  [runtime |-> [s \in Servers |-> IF s \in cfg THEN "starting" ELSE "none"],
   procs   |-> [s \in Servers |-> [p \in Proc |-> IF s \in cfg /\ p = 1 THEN "booting" ELSE "gone"]],
   calls   |-> [s \in Servers |-> [c \in Call |-> IF s \in cfg /\ c = 1
                                                    THEN [NoCall EXCEPT !.at = "spawning", !.new = 1]
                                                    ELSE NoCall]]]

(* The app ends and is opened again. A process it left behind has no       *)
(* handle in the new one and is not followed any further.                  *)
Relaunch ==
  /\ runtime' = Started(persisted).runtime
  /\ procs' = Started(persisted).procs
  /\ calls' = Started(persisted).calls
  /\ sidecars' = [s \in Servers |-> 0]
  /\ shutdown' = [s \in Servers |-> {}]
  /\ overlapped' = {}
  /\ forgotten' = {}
  /\ UNCHANGED persisted

Init ==
  /\ persisted \in SUBSET Servers
  /\ runtime = Started(persisted).runtime
  /\ procs = Started(persisted).procs
  /\ calls = Started(persisted).calls
  /\ sidecars = [s \in Servers |-> 0]
  /\ shutdown = [s \in Servers |-> {}]
  /\ overlapped = {}
  /\ forgotten = {}

Requests(s, c) ==
  \/ \E p \in Proc : StartServer(s, c, p) \/ InstallOpencode(s, c, p) \/ AddServer(s, c, p)
  \/ RemoveServer(s, c)

Answers(s, c) ==
  \/ Stopped(s, c) \/ Installed(s, c) \/ Verified(s, c) \/ InstallFails(s, c)
  \/ SpawnResolves(s, c) \/ SpawnFails(s, c)

Next ==
  \/ \E s \in Servers, c \in Call : Requests(s, c) \/ Answers(s, c)
  \/ \E s \in Servers, p \in Proc : Exits(s, p)
  \/ StopServers \/ ServersStopped \/ Relaunch

Spec == Init /\ [][Next]_vars

(* A killed process exits; an installation, a check and a spawn settle     *)
(* (the spawn after thirty seconds at the latest).                         *)
Fairness ==
  /\ \A s \in Servers, c \in Call : WF_vars(Answers(s, c))
  /\ \A s \in Servers, p \in Proc : WF_vars(procs[s][p] = "stopping" /\ Exits(s, p))

FairSpec == Spec /\ Fairness

-----------------------------------------------------------------------------
(* Every variable keeps its type.                                          *)
TypeOK ==
  /\ persisted \in SUBSET Servers
  /\ runtime \in [Servers -> Runtime]
  /\ sidecars \in [Servers -> 0 .. MaxProcs]
  /\ procs \in [Servers -> [Proc -> Phase]]
  /\ calls \in [Servers -> [Call -> CallState]]
  /\ shutdown \in [Servers -> SUBSET Proc]
  /\ overlapped \in SUBSET Servers
  /\ forgotten \in SUBSET Servers

Running(s) == {p \in Proc : procs[s][p] \in {"booting", "up"}}

Spawning(s) == {calls[s][c].new : c \in {d \in Call : calls[s][d].at = "spawning"}}

(* The Map holds live sidecars only, however starts, stops, exits and      *)
(* shutdown interleave: one that exited has left it, and one that was told *)
(* to exit is there only while stopServers() awaits it, so that a later    *)
(* stop never waits for a process that was never started.                  *)
HandleIsLive ==
  \A s \in Servers : sidecars[s] # 0 =>
    \/ procs[s][sidecars[s]] = "up"
    \/ procs[s][sidecars[s]] = "stopping" /\ sidecars[s] \in shutdown[s]

(* A server shown as ready has its sidecar, or a call that took it out of  *)
(* the Map and awaits its end: also when two starts of it overtook each    *)
(* other and the earlier process exits. Only clear() in stopServers() can  *)
(* take the sidecar away from under it.                                    *)
ReadyIsServed ==
  \A s \in Servers \ forgotten : runtime[s] = "ready" =>
    \/ sidecars[s] # 0
    \/ \E c \in Call : calls[s][c].at = "stopping"

(* A server whose calls come one after the other has no process that the   *)
(* controller lost: whatever boots or runs is in the Map, or is what the   *)
(* call in flight waits for. So a replaced, failed or removed sidecar is   *)
(* never left running.                                                     *)
NothingAstray ==
  \A s \in Servers \ overlapped : Running(s) \subseteq {sidecars[s]} \cup Spawning(s)

(* A server whose calls come one after the other and that was removed has  *)
(* no process and no handle left when the windows stop listing it.         *)
RemovedStaysDown ==
  \A s \in Servers \ overlapped : ~Listed(s) => sidecars[s] = 0 /\ \A p \in Proc : procs[s][p] \in {"gone", "stopping"}

(* While the CLI of a distribution is replaced, and until the new one is   *)
(* verified, its server is not running; unless another call for the same   *)
(* server is made meanwhile.                                               *)
CliReplacedWhileDown ==
  \A s \in Servers \ overlapped :
    (\E c \in Call : calls[s][c].at \in {"installing", "checking"}) => Running(s) = {} /\ runtime[s] # "ready"

(* When stopServers() resolves, so that the app is relaunched or an update *)
(* restarts it, a server none of whose calls overlapped another or the     *)
(* shutdown is down, and clear() drops no handle of it.  Of the others one *)
(* may be up: a start in flight is not in the Map that is awaited, one may *)
(* be asked for meanwhile, and an earlier overlap may have lost a process. *)
StoppedMeansDown ==
  [][/\ \E r \in Servers : shutdown[r] # {}
     /\ \A r \in Servers : shutdown'[r] = {}
     /\ UNCHANGED procs
     => \A s \in Servers \ overlapped : sidecars[s] = 0 /\ Running(s) = {}]_vars

(* A server shown as starting becomes ready, fails, is stopped or removed: *)
(* no interleaving of calls leaves a spinner that nothing resolves.        *)
StartingResolves ==
  \A s \in Servers : runtime[s] = "starting" ~> runtime[s] # "starting"

=============================================================================
