-------------------------- MODULE UpdaterController --------------------------
(***************************************************************************)
(* The desktop app's updater: checks, silent refreshes and installation    *)
(* (packages/desktop/src/main/updater-controller.ts), over the platform of *)
(* updater-platform.ts (electron-updater, outside src/).                   *)
(*                                                                         *)
(* Every await is a point where the ten-minute timer, the menu or a window *)
(* may call check or install.  The body of findAndStage or refreshStaged   *)
(* that is running is a task; it waits `at' the platform or store call it  *)
(* awaits.  The "check" slot is the variable pending; the "install" slot   *)
(* is the refresh that install runs itself when nothing is pending.        *)
(***************************************************************************)
EXTENDS Naturals

CONSTANTS
  Versions,      \* release versions
  NoVersion      \* the absence of one

ASSUME VersionsAssumption == NoVersion \notin Versions

VARIABLES
  current,     \* input.currentVersion: the version that is running
  state,       \* the state the windows show
  tasks,       \* the bodies in flight, by slot
  installing,  \* how far install() has come ("no": the variable is undefined)
  started,     \* start() has run since launch
  record,      \* the persisted ready record
  staged,      \* what installAndRestart would apply (the platform's memory)
  unrecorded   \* history: the last attempt to record what was staged has thrown

vars == <<current, state, tasks, installing, started, record, staged, unrecorded>>

-----------------------------------------------------------------------------
Slots == {"check", "install"}

Maybe == Versions \cup {NoVersion}

State ==
  [status  : {"idle", "checking", "up-to-date", "downloading", "ready", "installing", "error"},
   version : Maybe]

(* base is refreshStaged's argument, the version staged when it began.     *)
Task ==
  [kind    : {"none", "find", "refresh"},
   at      : {"checking", "clearing", "staging", "recording"},
   base    : Maybe,
   version : Maybe]

NoTask == [kind |-> "none", at |-> "checking", base |-> NoVersion, version |-> NoVersion]

Find == [NoTask EXCEPT !.kind = "find"]

Refresh(version) == [NoTask EXCEPT !.kind = "refresh", !.base = version]

Busy(slot) == tasks[slot].kind # "none"

Shows(status, version) == [status |-> status, version |-> version]

Offered == state.status \in {"ready", "installing"}

-----------------------------------------------------------------------------
(* check(): nothing while installing, the pending promise if there is one, *)
(* else a silent refresh of a ready update or a visible search.            *)
BeginCheck ==
  IF state.status = "installing" \/ Busy("check")
  THEN UNCHANGED <<state, tasks>>
  ELSE IF state.status = "ready"
  THEN /\ tasks' = [tasks EXCEPT !["check"] = Refresh(state.version)]
       /\ UNCHANGED state
  ELSE /\ tasks' = [tasks EXCEPT !["check"] = Find]
       /\ state' = Shows("checking", NoVersion)

Check ==
  /\ started
  /\ BeginCheck
  /\ UNCHANGED <<current, installing, started, record, staged, unrecorded>>

(* start(): forget the record of the version that now runs, then check.    *)
(* It is called as soon as the handlers are registered; the store answers  *)
(* synchronously, so its awaits let nothing else in.                       *)
Start ==
  /\ ~started
  /\ started' = TRUE
  /\ record' = IF record = current THEN NoVersion ELSE record
  /\ BeginCheck
  /\ UNCHANGED <<current, installing, staged, unrecorded>>

(* The store throws in start(): there is no check until the timer's.       *)
StartFails ==
  /\ ~started
  /\ started' = TRUE
  /\ UNCHANGED <<current, state, tasks, installing, record, staged, unrecorded>>

-----------------------------------------------------------------------------
Ends(slot) == tasks' = [tasks EXCEPT ![slot] = NoTask]

Awaits(slot, at, version) ==
  tasks' = [tasks EXCEPT ![slot] = [@ EXCEPT !.at = at, !.version = version]]

(* checkForUpdate() resolves in findAndStage: NoVersion is "no update".    *)
FindReturns(slot, v) ==
  /\ tasks[slot].kind = "find" /\ tasks[slot].at = "checking"
  /\ IF v \in {NoVersion, current}
     THEN Awaits(slot, "clearing", NoVersion) /\ UNCHANGED state
     ELSE Awaits(slot, "staging", v) /\ state' = Shows("downloading", v)
  /\ UNCHANGED <<current, installing, started, record, staged, unrecorded>>

(* ... and in refreshStaged, which ends when there is nothing newer.       *)
RefreshReturns(slot, v) ==
  /\ tasks[slot].kind = "refresh" /\ tasks[slot].at = "checking"
  /\ IF v \in {NoVersion, current, tasks[slot].base}
     THEN Ends(slot)
     ELSE Awaits(slot, "staging", v)
  /\ UNCHANGED <<current, state, installing, started, record, staged, unrecorded>>

(* Mutant of Cleared: the windows are not told.                            *)
ClearedQuietly(slot) ==
  /\ Busy(slot) /\ tasks[slot].at = "clearing"
  /\ record' = NoVersion
  /\ Ends(slot)
  /\ UNCHANGED <<current, state, installing, started, staged, unrecorded>>

(* persistence.clear() resolves: up to date.                               *)
Cleared(slot) ==
  /\ Busy(slot) /\ tasks[slot].at = "clearing"
  /\ record' = NoVersion
  /\ state' = Shows("up-to-date", NoVersion)
  /\ Ends(slot)
  /\ UNCHANGED <<current, installing, started, staged, unrecorded>>

(* stageUpdate() resolves: the platform now holds this version.            *)
Staged(slot) ==
  /\ Busy(slot) /\ tasks[slot].at = "staging"
  /\ staged' = tasks[slot].version
  /\ Awaits(slot, "recording", tasks[slot].version)
  /\ UNCHANGED <<current, state, installing, started, record, unrecorded>>

(* Mutants of Recorded: a refresh forgets that it was overtaken by an      *)
(* installation; a refresh keeps showing the version it began with.        *)
RecordedReady(slot) ==
  /\ Busy(slot) /\ tasks[slot].at = "recording"
  /\ record' = tasks[slot].version
  /\ state' = Shows("ready", tasks[slot].version)
  /\ Ends(slot)
  /\ unrecorded' = FALSE
  /\ UNCHANGED <<current, installing, started, staged>>

RecordedBase(slot) ==
  /\ Busy(slot) /\ tasks[slot].at = "recording"
  /\ record' = tasks[slot].version
  /\ state' = IF tasks[slot].kind = "refresh" THEN state ELSE Shows("ready", tasks[slot].version)
  /\ Ends(slot)
  /\ unrecorded' = FALSE
  /\ UNCHANGED <<current, installing, started, staged>>

(* persistence.set() resolves: the update is offered. A refresh that an    *)
(* installation has overtaken keeps the status and shows the newer version.*)
Recorded(slot) ==
  /\ Busy(slot) /\ tasks[slot].at = "recording"
  /\ record' = tasks[slot].version
  /\ state' = Shows(IF tasks[slot].kind = "refresh" /\ installing # "no"
                      THEN "installing" ELSE "ready",
                    tasks[slot].version)
  /\ Ends(slot)
  /\ unrecorded' = FALSE
  /\ UNCHANGED <<current, installing, started, staged>>

(* Mutant of TaskFails: a failed refresh shows the error as well.          *)
TaskFailsLoudly(slot) ==
  /\ Busy(slot)
  /\ state' = IF installing = "no" THEN Shows("error", NoVersion) ELSE state
  /\ Ends(slot)
  /\ unrecorded' = (unrecorded \/ tasks[slot].at = "recording")
  /\ UNCHANGED <<current, installing, started, record, staged>>

(* The awaited call rejects. A search shows the error; a refresh keeps the *)
(* staged update as it is.                                                 *)
TaskFails(slot) ==
  /\ Busy(slot)
  /\ state' = IF tasks[slot].kind = "find" THEN Shows("error", NoVersion) ELSE state
  /\ Ends(slot)
  /\ unrecorded' = (unrecorded \/ tasks[slot].at = "recording")
  /\ UNCHANGED <<current, installing, started, record, staged>>

-----------------------------------------------------------------------------
(* Mutant of Install: it always refreshes, never joins a pending check.    *)
InstallAlone ==
  /\ installing = "no"
  /\ state.status = "ready"
  /\ state' = Shows("installing", state.version)
  /\ installing' = "waiting"
  /\ tasks' = [tasks EXCEPT !["install"] = Refresh(state.version)]
  /\ UNCHANGED <<current, started, record, staged, unrecorded>>

(* install() of a ready update: wait for the pending check, or refresh     *)
(* once more.  A second call returns the promise of the first; a call when *)
(* nothing is ready is rejected.                                           *)
Install ==
  /\ installing = "no"
  /\ state.status = "ready"
  /\ state' = Shows("installing", state.version)
  /\ installing' = "waiting"
  /\ tasks' = IF Busy("check") THEN tasks
              ELSE [tasks EXCEPT !["install"] = Refresh(state.version)]
  /\ UNCHANGED <<current, started, record, staged, unrecorded>>

(* The awaited check or refresh is over (neither ever rejects).            *)
InstallProceeds ==
  /\ installing = "waiting"
  /\ \A slot \in Slots : ~Busy(slot)
  /\ installing' = "preparing"
  /\ UNCHANGED <<current, state, tasks, started, record, staged, unrecorded>>

(* prepareToRestart() resolves.                                            *)
Prepared ==
  /\ installing = "preparing"
  /\ installing' = "restarting"
  /\ UNCHANGED <<current, state, tasks, started, record, staged, unrecorded>>

(* prepareToRestart() or installAndRestart() rejects: offer it again.      *)
InstallFails ==
  /\ installing \in {"preparing", "restarting"}
  /\ installing' = "no"
  /\ state' = IF state.status = "installing" THEN Shows("ready", state.version) ELSE state
  /\ UNCHANGED <<current, tasks, started, record, staged, unrecorded>>

(* A new process: everything in memory is gone, the record stays.          *)
Launch(version) ==
  /\ current' = version
  /\ state' = Shows("idle", NoVersion)
  /\ tasks' = [slot \in Slots |-> NoTask]
  /\ installing' = "no"
  /\ started' = FALSE
  /\ staged' = NoVersion
  /\ unrecorded' = FALSE
  /\ UNCHANGED record

(* quitAndInstall() takes effect: the staged version comes up.             *)
RestartsIntoUpdate ==
  /\ installing = "restarting"
  /\ Launch(staged)

(* The app quits or crashes for another reason. A staged update may be     *)
(* installed on the way out (autoInstallOnAppQuit).                        *)
Relaunch == \E version \in {current, staged} \ {NoVersion} : Launch(version)

-----------------------------------------------------------------------------
Init ==
  /\ current \in Versions
  /\ state = Shows("idle", NoVersion)
  /\ tasks = [slot \in Slots |-> NoTask]
  /\ installing = "no"
  /\ started = FALSE
  /\ record \in Maybe
  /\ staged = NoVersion
  /\ unrecorded = FALSE

Progress(slot) ==
  \/ \E v \in Maybe : FindReturns(slot, v) \/ RefreshReturns(slot, v)
  \/ Cleared(slot) \/ Staged(slot) \/ Recorded(slot) \/ TaskFails(slot)

InProcess ==
  \/ Check \/ Start \/ StartFails \/ Install \/ InstallProceeds \/ Prepared \/ InstallFails
  \/ \E slot \in Slots : Progress(slot)

Next == InProcess \/ RestartsIntoUpdate \/ Relaunch

Spec == Init /\ [][Next]_vars

(* Every call of the platform and of the store settles: checkForUpdates    *)
(* and downloads end or fail, prepareToRestart is bounded by stopping the  *)
(* sidecars, installAndRestart rejects after ten seconds or restarts.      *)
Fairness ==
  /\ WF_vars(\E slot \in Slots : Progress(slot))
  /\ WF_vars(InstallProceeds)
  /\ WF_vars(Prepared)
  /\ WF_vars(InstallFails \/ RestartsIntoUpdate)

FairSpec == Spec /\ Fairness

-----------------------------------------------------------------------------
TypeOK ==
  /\ current \in Versions
  /\ state \in State
  /\ tasks \in [Slots -> Task]
  /\ installing \in {"no", "waiting", "preparing", "restarting"}
  /\ started \in BOOLEAN
  /\ record \in Maybe
  /\ staged \in Maybe
  /\ unrecorded \in BOOLEAN

(* The windows show "installing" exactly while install() is under way: no  *)
(* refresh or check that ends meanwhile makes the button flicker back      *)
(* (updater-controller.ts:82-83), and a failed install gives it back.      *)
InstallingIsShown == (installing # "no") <=> (state.status = "installing")

(* The platform runs one check or download at a time, and none while the   *)
(* app prepares to restart or restarts: electron-updater reports errors to *)
(* every listener, so two calls would settle each other's promises.        *)
OnePlatformCall ==
  /\ ~(Busy("check") /\ Busy("install"))
  /\ installing \in {"preparing", "restarting"} => \A slot \in Slots : ~Busy(slot)

(* Between the end of a newer download and the note of it.                 *)
BeingRecorded ==
  \E slot \in Slots :
    Busy(slot) /\ tasks[slot].at = "recording" /\ tasks[slot].version = staged

(* What is offered is what would be installed, except while a newer        *)
(* download is being recorded, or after its record could not be written.   *)
ShownIsStaged == Offered => staged = state.version \/ BeingRecorded \/ unrecorded

(* "the refresh makes no transitions until a newer version is staged, and  *)
(* a failure keeps the current one" (updater-controller.ts:73-74): what is *)
(* offered is what would be installed whatever fails.  The run             *)
(* updater_store shows that the code does not keep this.                   *)
FailureKeepsCurrent == Offered => staged = state.version \/ BeingRecorded

(* A restart into an update brings up the version the button named, unless *)
(* the record of a newer one could not be written.                         *)
RestartAppliesShown == installing = "restarting" => staged = state.version \/ unrecorded

(* "A staged update stays visible and installable throughout"              *)
(* (updater-controller.ts:73-74): while the app runs, no step withdraws    *)
(* an offer, whatever checks, failures and clicks interleave.              *)
OfferIsKept == [][Offered /\ InProcess => Offered']_vars

(* What began ends: install() in a restart, or with the update offered     *)
(* again; a search with the windows showing neither "checking" nor         *)
(* "downloading".                                                          *)
WorkResolves ==
  /\ (installing # "no") ~> (installing = "no")
  /\ LET Searching == state.status \in {"checking", "downloading"}
     IN  Searching ~> ~Searching

=============================================================================
