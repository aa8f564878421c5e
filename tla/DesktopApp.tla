------------------------------ MODULE DesktopApp ------------------------------
(***************************************************************************)
(* The main process of the desktop app (packages/desktop/src/main/index.ts *)
(* with daemon.ts): starting the daemon, the windows, and every way the    *)
(* app ends, over WindowRegistry and DeepLinks.                            *)
(*                                                                         *)
(* An await is a point where other events come in.  Nothing waits for      *)
(* stopServices() when the app quits: Electron closes the windows, then    *)
(* the process ends, whatever has been stopped by then.  Of the WSL        *)
(* servers only that a call of stopServers() resolves, some time later, is *)
(* here: which servers it stops, and which it misses (a start in flight is *)
(* not in the Map it awaits), is WslServers' to say.                       *)
(***************************************************************************)
EXTENDS DeepLinks

CONSTANTS
  Platforms,   \* the values of process.platform that are explored
  MaxWaiting   \* bound: ways to end the app under way at once

ASSUME AppAssumption ==
  /\ Platforms \subseteq {"darwin", "win32", "linux"}
  /\ MaxWaiting \in Nat

VARIABLES
  platform,   \* process.platform
  app,        \* how far the process has come
  ready,      \* the serverReady deferred
  daemon,     \* the daemon process of this launch
  handle,     \* stopDaemon is set
  stopping,   \* what stopServices() waits for
  waiting     \* who waits to end the app: relaunch, a signal, an update

services == <<daemon, handle, stopping>>
windows == <<open, lastFocused, persisted, wished, either>>
vars == <<windows, quitting, linkVars, platform, app, ready, services, waiting>>

-----------------------------------------------------------------------------
(* "aborted": ended before the daemon's start was over.                    *)
AppStates == {"loading", "running", "closing", "ended", "aborted", "crashed"}

Ended == {"ended", "aborted", "crashed"}

Alive == {"booting", "up"}

(* child.kill(); a process that has exited is not signalled.               *)
Killed(process) == IF process \in Alive THEN "signalled" ELSE process

(* Mutant of StopServices: the daemon is left to the handle's caller.      *)
StopServicesOnce ==
  IF stopping # "nothing"
  THEN UNCHANGED services
  ELSE /\ stopping' = "wsl"
       /\ UNCHANGED <<daemon, handle>>

(* stopServices(), up to its first await: the call under way, if there is  *)
(* one; else the daemon is told to stop, and the WSL servers after it.     *)
StopServices ==
  IF stopping # "nothing"
  THEN UNCHANGED services
  ELSE /\ handle' = FALSE
       /\ IF handle /\ daemon = "up"
          THEN stopping' = "daemon" /\ daemon' = Killed(daemon)
          ELSE stopping' = "wsl" /\ UNCHANGED daemon

(* app.quit(): "before-quit", then the windows close, then "will-quit".    *)
(* `open' is the windows that are left in this turn.                       *)
Quit ==
  /\ quitting' = TRUE
  /\ app' = IF open' # {} THEN "closing" ELSE IF app = "loading" THEN "aborted" ELSE "ended"
  /\ StopServices

-----------------------------------------------------------------------------
(* The start: findAvailablePort and spawn() are behind.  The health check  *)
(* answers; stopDaemon is set and startWslServers awaited.                 *)
HealthOk ==
  /\ app = "loading" /\ ready = "pending" /\ ~handle
  /\ daemon = "booting"
  /\ daemon' = "up"
  /\ handle' = TRUE
  /\ UNCHANGED <<registryVars, linkVars, platform, app, ready, stopping, waiting>>

(* Mutant of Failed: nobody is told.                                       *)
FailedSilently == "pending"

(* forwardInitializationFailure                                            *)
Failed == "failed"

(* Fifteen seconds are over, also when the daemon has exited at once.      *)
HealthFails ==
  /\ app = "loading" /\ ready = "pending" /\ ~handle
  /\ daemon' = Killed(daemon)
  /\ ready' = Failed
  /\ UNCHANGED <<registryVars, linkVars, platform, app, handle, stopping, waiting>>

(* startWslServers resolves: its stop function is kept, and the deferred   *)
(* succeeds.  The starts it has made of the configured servers go on, and  *)
(* nothing here waits for them.                                            *)
ServicesStarted ==
  /\ app = "loading" /\ ready = "pending" /\ handle
  /\ ready' = "ready"
  /\ UNCHANGED <<registryVars, linkVars, platform, app, services, waiting>>

(* It rejects (on Windows it imports and reads the stored servers): the    *)
(* daemon and its handle stay, stopWslServers goes on doing nothing.       *)
ServicesFail ==
  /\ app = "loading" /\ ready = "pending" /\ handle
  /\ platform = "win32"
  /\ ready' = Failed
  /\ UNCHANGED <<registryVars, linkVars, platform, app, services, waiting>>

(* Fiber.await(loadingTask) returns, however it ended: windows open.       *)
WindowsRestored ==
  /\ app = "loading" /\ ready # "pending"
  /\ app' = "running"
  /\ Restore
  /\ PagesOpen(open')
  /\ UNCHANGED <<platform, ready, services, waiting>>

(* The daemon exits: it fails, or it was told to.  Nobody restarts it.     *)
DaemonExits ==
  /\ daemon \in Alive \cup {"signalled"}
  /\ daemon' = "gone"
  /\ UNCHANGED <<registryVars, linkVars, platform, app, ready, handle, stopping, waiting>>

-----------------------------------------------------------------------------
(* Mutant of StopTimesOut: the two seconds are forgotten.                  *)
StopAwaitsExit == stopping = "daemon" /\ daemon = "gone"

(* The daemon has exited, or two seconds are over.                         *)
StopTimesOut == stopping = "daemon"

DaemonStopped ==
  /\ app \notin Ended
  /\ StopTimesOut
  /\ stopping' = "wsl"
  /\ UNCHANGED <<registryVars, linkVars, platform, app, ready, daemon, handle, waiting>>

(* stopServers() resolves, and stopServices() with it: the continuation of *)
(* relaunch() quits, which calls stopServices() anew.                      *)
ServicesStopped ==
  /\ app \notin Ended
  /\ stopping = "wsl"
  /\ IF "relaunch" \in waiting
     THEN /\ waiting' = waiting \ {"relaunch"}
          /\ quitting' = TRUE
          /\ app' = IF open = {} THEN "ended" ELSE "closing"
          /\ UNCHANGED stopping
     ELSE /\ stopping' = "nothing"
          /\ UNCHANGED <<quitting, app, waiting>>
  /\ UNCHANGED <<windows, linkVars, platform, ready, daemon, handle>>

May(who) == who \notin waiting /\ Cardinality(waiting) < MaxWaiting

(* relaunch(): the menu, a recovery dialog, the restart button.            *)
Relaunch ==
  /\ app = "running" /\ May("relaunch")
  /\ quitting' = TRUE
  /\ waiting' = waiting \cup {"relaunch"}
  /\ StopServices
  /\ UNCHANGED <<windows, linkVars, platform, app, ready>>

(* The restart button first stops the services ("kill-sidecar").           *)
KillSidecar ==
  /\ app = "running"
  /\ StopServices
  /\ UNCHANGED <<registryVars, linkVars, platform, app, ready, waiting>>

UserQuits ==
  /\ app \in {"loading", "running"}
  /\ UNCHANGED <<windows, linkVars, platform, ready, waiting>>
  /\ Quit

(* stopWslServers is a real one only on Windows, and once startWslServers  *)
(* has resolved; until then, and elsewhere, it does nothing.               *)
HasWsl == platform = "win32" /\ ready = "ready"

(* SIGINT, SIGTERM: the WSL servers are stopped first.  (Once the windows  *)
(* close, app.quit() does nothing more.)                                   *)
Signal ==
  /\ app \in {"loading", "running"} /\ May("signal")
  /\ UNCHANGED <<windows, linkVars, platform, ready>>
  /\ IF ~HasWsl
     THEN Quit /\ UNCHANGED waiting
     ELSE /\ quitting' = TRUE
          /\ waiting' = waiting \cup {"signal"}
          /\ UNCHANGED <<app, services>>

(* prepareToRestart (stopServers() again), the updater's last step before  *)
(* it restarts the app.                                                    *)
PrepareToRestart ==
  /\ app = "running" /\ May("update") /\ "restart" \notin waiting
  /\ waiting' = waiting \cup {"update"}
  /\ UNCHANGED <<registryVars, linkVars, platform, app, ready, services>>

(* It has resolved; quitAndInstall(): "before-quit-for-update".            *)
RestartBegins ==
  /\ "update" \in waiting
  /\ app = "running"
  /\ waiting' = (waiting \ {"update"}) \cup {"restart"}
  /\ quitting' = TRUE
  /\ UNCHANGED <<windows, linkVars, platform, app, ready, services>>

(* ... and it quits; so does a signal whose stopServers() has resolved.    *)
WaitedQuits(who) ==
  /\ who \in waiting
  /\ app = "running"
  /\ UNCHANGED <<windows, linkVars, platform, ready>>
  /\ Quit
  /\ waiting' = waiting \ {who}

(* Mutant of Failing: the flag stays.                                      *)
FailingQuietly == UNCHANGED quitting

(* fail() in installAndRestart.                                            *)
Failing == quitting' = FALSE

(* The restart fails, or has not begun after ten seconds.                  *)
UpdateFails ==
  /\ waiting \cap {"update", "restart"} # {}
  /\ app = "running"
  /\ waiting' = waiting \ {"update", "restart"}
  /\ Failing
  /\ UNCHANGED <<windows, linkVars, platform, app, ready, services>>

(* Windows ends the user's session: every window is told, and the process  *)
(* is ended some time later.                                               *)
SessionEnd ==
  /\ app = "running" /\ platform = "win32" /\ open # {} /\ May("session")
  /\ quitting' = TRUE
  /\ waiting' = waiting \cup {"session"}
  /\ UNCHANGED <<windows, linkVars, platform, app, ready, services>>

-----------------------------------------------------------------------------
(* The app has been asked to end: what a window's closing then means is    *)
(* left open.                                                              *)
Leaving == waiting \ {"update"} # {}

(* The user closes a window.  On macOS the app goes on without windows;    *)
(* elsewhere "window-all-closed" quits.                                    *)
UserCloses(id) ==
  /\ app = "running"
  /\ Closed(id)
  /\ PageGoes(id, "none")
  /\ IF open = {id} /\ platform # "darwin"
     THEN Quit /\ UNCHANGED <<wished, either>>
     ELSE /\ wished' = wished \ {id}
          /\ either' = IF Leaving \/ open = {id} THEN either \cup {id} ELSE either
          /\ UNCHANGED <<quitting, app, services>>
  /\ UNCHANGED <<platform, ready, waiting>>

(* Electron closes a window as the app quits; "will-quit" after the last.  *)
QuitCloses(id) ==
  /\ app = "closing"
  /\ Closed(id)
  /\ IF open = {id}
     THEN app' = "ended" /\ StopServices /\ NoPages
     ELSE PageGoes(id, "none") /\ UNCHANGED <<app, services>>
  /\ UNCHANGED <<quitting, wished, either, platform, ready, waiting>>

(* "window.new", and "activate" when no window is left.                    *)
WindowOpens ==
  /\ app = "running"
  /\ \/ \E id \in Windows : New(id)
     \/ platform = "darwin" /\ open = {} /\ Restore
  /\ PagesOpen(open' \ open)
  /\ UNCHANGED <<platform, app, ready, services, waiting>>

WindowFocused ==
  /\ app \in {"running", "closing"}
  /\ \E id \in Windows : Focus(id)
  /\ UNCHANGED <<linkVars, platform, app, ready, services, waiting>>

LinkOrPage ==
  /\ app \notin Ended
  /\ \/ \E link \in Links : Receive(link)
     \/ \E w \in open :
          Asks(w) \/ Consume(w) \/ Reload(w) \/ \E link \in Links : Handle(w, link)
  /\ UNCHANGED <<registryVars, platform, app, ready, services, waiting>>

-----------------------------------------------------------------------------
(* What a process keeps in memory.                                         *)
Forgets ==
  /\ ready' = "pending"
  /\ handle' = FALSE
  /\ stopping' = "nothing"
  /\ waiting' = {}
  /\ NoWindows
  /\ NoPages

(* The process is killed, or ended by the system.                          *)
Crash ==
  /\ app \notin Ended
  /\ app' = "crashed"
  /\ Forgets
  /\ UNCHANGED <<platform, daemon>>

(* A new process.  A daemon that was left behind is not followed further.  *)
Launch ==
  /\ app \in Ended
  /\ app' = "loading"
  /\ daemon' = "booting"
  /\ Forgets
  /\ UNCHANGED platform

Init ==
  /\ platform \in Platforms
  /\ app = "loading" /\ ready = "pending"
  /\ daemon = "booting" /\ handle = FALSE /\ stopping = "nothing"
  /\ waiting = {}
  /\ open = {} /\ quitting = FALSE /\ lastFocused = NoWindow
  /\ persisted = {} /\ wished = {} /\ either = {}
  /\ pages = [w \in Windows |-> "none"] /\ sent = [w \in Windows |-> NoCopies]
  /\ pending = {} /\ arrived = {} /\ seen = NoCopies /\ lost = {}

Closing == \E id \in Windows : QuitCloses(id)

Next ==
  \/ HealthOk \/ HealthFails \/ ServicesStarted \/ ServicesFail \/ WindowsRestored \/ DaemonExits
  \/ DaemonStopped \/ ServicesStopped
  \/ Relaunch \/ KillSidecar \/ UserQuits \/ Signal \/ PrepareToRestart
  \/ \E who \in {"signal", "restart"} : WaitedQuits(who)
  \/ RestartBegins \/ UpdateFails \/ SessionEnd
  \/ \E id \in Windows : UserCloses(id)
  \/ Closing \/ WindowOpens \/ WindowFocused \/ LinkOrPage
  \/ Crash \/ Launch

Spec == Init /\ [][Next]_vars

(* A daemon that was told to stop exits: at once on Windows, where kill()  *)
(* ends it; elsewhere its server.close() waits for the windows' event      *)
(* streams to end (packages/daemon/src/server.ts:540).                     *)
ToldDaemonExits ==
  DaemonExits /\ daemon = "signalled" /\ (platform = "win32" \/ open = {} \/ app \in Ended)

Fairness ==
  /\ WF_vars(HealthOk \/ HealthFails) /\ WF_vars(ServicesStarted \/ ServicesFail) /\ WF_vars(WindowsRestored)
  /\ WF_vars(ToldDaemonExits)
  /\ WF_vars(DaemonStopped) /\ WF_vars(ServicesStopped)
  /\ WF_vars(Closing)

FairSpec == Spec /\ Fairness

-----------------------------------------------------------------------------
TypeOK ==
  /\ platform \in Platforms
  /\ app \in AppStates
  /\ ready \in {"pending", "ready", "failed"}
  /\ daemon \in Alive \cup {"signalled", "gone"}
  /\ handle \in BOOLEAN /\ quitting \in BOOLEAN
  /\ stopping \in {"nothing", "daemon", "wsl"}
  /\ waiting \subseteq {"relaunch", "signal", "update", "restart", "session"}
  /\ open \subseteq Windows /\ persisted \subseteq Windows
  /\ wished \subseteq Windows /\ either \subseteq Windows
  /\ lastFocused \in open \cup {NoWindow}
  /\ pages \in [Windows -> PageStates]
  /\ pending \subseteq Links /\ arrived \subseteq Links /\ lost \subseteq Links
  /\ sent \in [Windows -> [Links -> Nat]] /\ seen \in [Links -> Nat]

(* When the app has quit after its start was over, its daemon has exited   *)
(* or been told to, whichever of the ways to quit, relaunch and stop came  *)
(* first (index.ts:137-148, 202-210): no daemon is left running.  It is    *)
(* left when the app is quit while it starts ("aborted") or crashes.       *)
NoDaemonLeft == app = "ended" => daemon \notin Alive

(* awaitInitialization always answers the windows, however the daemon's    *)
(* start ends.                                                             *)
InitializationResolves == (app = "loading") ~> (ready # "pending" \/ app \in Ended)

(* A relaunch ends the process, although a daemon that is told to stop     *)
(* waits for the very windows that wait for the relaunch.                  *)
RelaunchEnds == ("relaunch" \in waiting) ~> (app \in Ended)

=============================================================================
