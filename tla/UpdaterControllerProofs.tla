----------------------- MODULE UpdaterControllerProofs -----------------------
(***************************************************************************)
(* The safety properties of UpdaterController for every set of versions.   *)
(*                                                                         *)
(* The argument: a search (findAndStage) is the only body that withdraws   *)
(* an offer, and it runs in the "check" slot only while nothing is         *)
(* offered; a check cannot begin while an installation is under way, so    *)
(* the installation's own refresh and its restart have the platform to     *)
(* themselves; and the one body in flight is the only one that can change  *)
(* what is staged.                                                         *)
(***************************************************************************)
EXTENDS UpdaterController, TLAPS

(* A search runs in the check slot, and only while nothing is offered.     *)
SearchOnlyWithoutOffer ==
  /\ tasks["install"].kind # "find"
  /\ tasks["check"].kind = "find" => ~Offered
  /\ \A slot \in Slots : Busy(slot) /\ tasks[slot].at = "clearing" => tasks[slot].kind = "find"

(* The installation's own refresh is over when it prepares to restart.     *)
OwnRefreshOnlyInInstall == Busy("install") => installing = "waiting"

(* What is staged: a version, whenever one is offered or about to be.      *)
StagingIsSound ==
  /\ Offered => staged \in Versions
  /\ \A slot \in Slots : Busy(slot) =>
        /\ tasks[slot].at = "staging" => tasks[slot].version \in Versions
        /\ tasks[slot].at = "recording" =>
              tasks[slot].version \in Versions /\ tasks[slot].version = staged

(* The inductive invariant.                                                *)
IInv ==
  /\ TypeOK
  /\ InstallingIsShown
  /\ OnePlatformCall
  /\ SearchOnlyWithoutOffer
  /\ OwnRefreshOnlyInInstall
  /\ StagingIsSound

-----------------------------------------------------------------------------
(* The three values a slot is given are tasks.                             *)
LEMMA NoTaskIsTask == NoTask \in Task
BY DEF NoTask, Task, Maybe

LEMMA FindIsTask == Find \in Task
BY DEF Find, NoTask, Task, Maybe

LEMMA RefreshIsTask == ASSUME NEW v \in Maybe PROVE Refresh(v) \in Task
BY DEF Refresh, NoTask, Task, Maybe

(* The initial states have the types.                                      *)
LEMMA InitTypeOK == Init => TypeOK
<1> SUFFICES ASSUME Init PROVE TypeOK
  OBVIOUS
<1>1. tasks \in [Slots -> Task]
  BY NoTaskIsTask DEF Init
<1>2. state \in State
  BY DEF Init, State, Shows, Maybe
<1>3. started \in BOOLEAN /\ unrecorded \in BOOLEAN /\ installing \in {"no", "waiting", "preparing", "restarting"}
  BY DEF Init
<1> QED
  BY <1>1, <1>2, <1>3 DEF Init, TypeOK, Maybe

(* The steps of a body keep the types of the tasks.                        *)
LEMMA AwaitsTypeOK ==
  ASSUME TypeOK, NEW slot \in Slots, NEW v \in Maybe,
         NEW at \in {"checking", "clearing", "staging", "recording"},
         Awaits(slot, at, v)
  PROVE  tasks' \in [Slots -> Task]
<1>1. tasks[slot] \in Task
  BY DEF TypeOK
<1>2. [tasks[slot] EXCEPT !.at = at, !.version = v] \in Task
  BY <1>1 DEF Task
<1> QED
  BY <1>2 DEF TypeOK, Awaits

LEMMA EndsTypeOK ==
  ASSUME TypeOK, NEW slot \in Slots, Ends(slot) PROVE tasks' \in [Slots -> Task]
BY NoTaskIsTask DEF TypeOK, Ends

(* So do check() and a new process.                                        *)
LEMMA BeginCheckTypeOK ==
  ASSUME TypeOK, BeginCheck PROVE state' \in State /\ tasks' \in [Slots -> Task]
BY FindIsTask, RefreshIsTask DEF BeginCheck, TypeOK, State, Shows, Maybe, Slots

LEMMA LaunchTypeOK ==
  ASSUME TypeOK, NEW v \in Versions, Launch(v) PROVE TypeOK'
<1>1. tasks' \in [Slots -> Task]
  BY NoTaskIsTask DEF Launch
<1>2. state' \in State
  BY DEF Launch, State, Shows, Maybe
<1>3. started' \in BOOLEAN /\ unrecorded' \in BOOLEAN /\ installing' \in {"no", "waiting", "preparing", "restarting"}
  BY DEF Launch
<1> QED
  BY <1>1, <1>2, <1>3 DEF Launch, TypeOK, Maybe

(* Every step keeps the types.                                             *)
LEMMA NextTypeOK == IInv /\ [Next]_vars => TypeOK'
<1> SUFFICES ASSUME IInv, [Next]_vars PROVE TypeOK'
  OBVIOUS
<1>t. TypeOK
  BY DEF IInv
<1>1. CASE Check
  BY <1>1, <1>t, BeginCheckTypeOK DEF Check, TypeOK
<1>2. CASE Start
  <2>1. state' \in State /\ tasks' \in [Slots -> Task]
    BY <1>2, <1>t, BeginCheckTypeOK DEF Start
  <2>2. started' \in BOOLEAN
    BY <1>2 DEF Start
  <2> QED
    BY <1>2, <1>t, <2>1, <2>2 DEF Start, TypeOK, Maybe
<1>3. CASE Install
  BY <1>3, <1>t, RefreshIsTask DEF Install, TypeOK, State, Shows, Slots, Busy
<1>4. CASE InstallProceeds
  BY <1>4, <1>t DEF InstallProceeds, TypeOK
<1>5. CASE Prepared
  BY <1>5, <1>t DEF Prepared, TypeOK
<1>6. CASE InstallFails
  BY <1>6, <1>t DEF InstallFails, TypeOK, State, Shows
<1>7. ASSUME NEW slot \in Slots, Progress(slot) PROVE TypeOK'
  <2>0. NoVersion \in Maybe /\ tasks[slot] \in Task /\ tasks[slot].version \in Maybe
    BY <1>t DEF TypeOK, Maybe, Task
  <2>1. ASSUME NEW v \in Maybe, FindReturns(slot, v) PROVE TypeOK'
    <3>1. tasks' \in [Slots -> Task]
      BY <2>0, <2>1, <1>t, AwaitsTypeOK DEF FindReturns
    <3> QED
      BY <2>1, <3>1, <1>t DEF FindReturns, TypeOK, State, Shows
  <2>2. ASSUME NEW v \in Maybe, RefreshReturns(slot, v) PROVE TypeOK'
    <3>1. tasks' \in [Slots -> Task]
      BY <2>2, <1>t, AwaitsTypeOK, EndsTypeOK DEF RefreshReturns
    <3> QED
      BY <2>2, <3>1, <1>t DEF RefreshReturns, TypeOK
  <2>3. CASE Cleared(slot)
    <3>1. tasks' \in [Slots -> Task]
      BY <2>3, <1>t, EndsTypeOK DEF Cleared
    <3> QED
      BY <2>3, <3>1, <1>t DEF Cleared, TypeOK, State, Shows, Maybe
  <2>4. CASE Staged(slot)
    <3>1. tasks' \in [Slots -> Task]
      BY <2>0, <2>4, <1>t, AwaitsTypeOK DEF Staged
    <3> QED
      BY <2>0, <2>4, <3>1, <1>t DEF Staged, TypeOK
  <2>5. CASE Recorded(slot)
    <3>1. tasks' \in [Slots -> Task]
      BY <2>5, <1>t, EndsTypeOK DEF Recorded
    <3> QED
      BY <2>0, <2>5, <3>1, <1>t DEF Recorded, TypeOK, State, Shows
  <2>6. CASE TaskFails(slot)
    <3>1. tasks' \in [Slots -> Task]
      BY <2>6, <1>t, EndsTypeOK DEF TaskFails
    <3> QED
      BY <2>6, <3>1, <1>t DEF TaskFails, TypeOK, State, Shows, Maybe
  <2> QED
    BY <1>7, <2>1, <2>2, <2>3, <2>4, <2>5, <2>6 DEF Progress
<1>8. CASE RestartsIntoUpdate
  <2>1. staged \in Versions
    BY <1>8 DEF RestartsIntoUpdate, IInv, InstallingIsShown, StagingIsSound, Offered
  <2> QED
    BY <1>8, <1>t, <2>1, LaunchTypeOK DEF RestartsIntoUpdate
<1>9. CASE Relaunch
  <2>1. PICK version \in {current, staged} \ {NoVersion} : Launch(version)
    BY <1>9 DEF Relaunch
  <2>2. version \in Versions
    BY <1>t, <2>1 DEF TypeOK, Maybe
  <2> QED
    BY <1>t, <2>1, <2>2, LaunchTypeOK
<1>11. CASE StartFails
  BY <1>11, <1>t DEF StartFails, TypeOK
<1>10. CASE UNCHANGED vars
  BY <1>10, <1>t DEF vars, TypeOK
<1> QED
  BY <1>1, <1>2, <1>3, <1>4, <1>5, <1>6, <1>7, <1>8, <1>9, <1>10, <1>11 DEF Next, InProcess

-----------------------------------------------------------------------------
(* The conjuncts of the inductive invariant that are not types.            *)
Order ==
  /\ InstallingIsShown
  /\ OnePlatformCall
  /\ SearchOnlyWithoutOffer
  /\ OwnRefreshOnlyInInstall
  /\ StagingIsSound

LEMMA InitOrder == Init => Order
BY DEF Init, Order, InstallingIsShown, OnePlatformCall, SearchOnlyWithoutOffer,
       OwnRefreshOnlyInInstall, StagingIsSound, Busy, Offered, NoTask, Shows, Slots

(* A new process starts from nothing.                                      *)
LEMMA LaunchOrder == ASSUME NEW v, Launch(v) PROVE Order'
BY DEF Launch, Order, InstallingIsShown, OnePlatformCall, SearchOnlyWithoutOffer,
       OwnRefreshOnlyInInstall, StagingIsSound, Busy, Offered, NoTask, Shows, Slots

(* Beginning a check keeps the order, as it does nothing while installing. *)
LEMMA BeginCheckOrder ==
  ASSUME IInv, BeginCheck, UNCHANGED <<installing, staged>> PROVE Order'
<1> USE DEF IInv, TypeOK, Slots, Busy
<1>1. CASE state.status = "installing" \/ Busy("check")
  BY <1>1 DEF BeginCheck, Order, InstallingIsShown, OnePlatformCall, SearchOnlyWithoutOffer,
              OwnRefreshOnlyInInstall, StagingIsSound, Offered
<1>2. CASE ~(state.status = "installing" \/ Busy("check"))
  <2>1. installing = "no" /\ ~Busy("install")
    BY <1>2 DEF InstallingIsShown, OwnRefreshOnlyInInstall
  <2>2. CASE state.status = "ready"
    BY <1>2, <2>1, <2>2
    DEF BeginCheck, Order, InstallingIsShown, OnePlatformCall, SearchOnlyWithoutOffer,
        OwnRefreshOnlyInInstall, StagingIsSound, Offered, Refresh, NoTask
  <2>3. CASE state.status # "ready"
    BY <1>2, <2>1, <2>3
    DEF BeginCheck, Order, InstallingIsShown, OnePlatformCall, SearchOnlyWithoutOffer,
        OwnRefreshOnlyInInstall, StagingIsSound, Offered, Find, NoTask, Shows
  <2> QED
    BY <2>2, <2>3
<1> QED
  BY <1>1, <1>2

LEMMA NextOrder == IInv /\ [Next]_vars => Order'
<1> SUFFICES ASSUME IInv, [Next]_vars PROVE Order'
  OBVIOUS
<1> USE DEF IInv, TypeOK, Slots, Busy
<1>1. CASE Check
  BY <1>1, BeginCheckOrder DEF Check
<1>2. CASE Start
  BY <1>2, BeginCheckOrder DEF Start
<1>3. CASE Install
  BY <1>3 DEF Install, Order, InstallingIsShown, OnePlatformCall, SearchOnlyWithoutOffer,
              OwnRefreshOnlyInInstall, StagingIsSound, Offered, Refresh, NoTask, Shows
<1>4. CASE InstallProceeds
  BY <1>4 DEF InstallProceeds, Order, InstallingIsShown, OnePlatformCall,
              SearchOnlyWithoutOffer, OwnRefreshOnlyInInstall, StagingIsSound, Offered
<1>5. CASE Prepared
  BY <1>5 DEF Prepared, Order, InstallingIsShown, OnePlatformCall,
              SearchOnlyWithoutOffer, OwnRefreshOnlyInInstall, StagingIsSound, Offered
<1>6. CASE InstallFails
  BY <1>6 DEF InstallFails, Order, InstallingIsShown, OnePlatformCall,
              SearchOnlyWithoutOffer, OwnRefreshOnlyInInstall, StagingIsSound, Offered, Shows
<1>7. ASSUME NEW slot \in Slots, Progress(slot) PROVE Order'
  <2>0. Busy(slot)
    BY <1>7 DEF Progress, FindReturns, RefreshReturns, Cleared, Staged, Recorded, TaskFails
  <2>a. /\ slot = "check" \/ slot = "install"
        /\ tasks[slot] \in Task
        /\ \A other \in Slots : other # slot => tasks[other].kind = "none"
    BY <2>0 DEF OnePlatformCall
  <2>1. ASSUME NEW v \in Maybe, FindReturns(slot, v) PROVE Order'
    <3>1. slot = "check" /\ ~Offered /\ installing = "no"
      BY <2>a, <2>1 DEF FindReturns, SearchOnlyWithoutOffer, InstallingIsShown, Offered
    <3>2. CASE v \in {NoVersion, current}
      <4>1. tasks' = [tasks EXCEPT !["check"] =
                        [@ EXCEPT !.at = "clearing", !.version = NoVersion]]
        BY <2>1, <3>1, <3>2 DEF FindReturns, Awaits
      <4> QED
        BY <2>1, <2>a, <3>1, <3>2, <4>1
        DEF FindReturns, Order, InstallingIsShown, OnePlatformCall, SearchOnlyWithoutOffer,
            OwnRefreshOnlyInInstall, StagingIsSound, Offered, Task
    <3>3. CASE v \notin {NoVersion, current}
      <4>1. tasks' = [tasks EXCEPT !["check"] = [@ EXCEPT !.at = "staging", !.version = v]]
        BY <2>1, <3>1, <3>3 DEF FindReturns, Awaits
      <4>2. v \in Versions
        BY <3>3 DEF Maybe
      <4> QED
        BY <2>1, <2>a, <3>1, <3>3, <4>1, <4>2
        DEF FindReturns, Order, InstallingIsShown, OnePlatformCall, SearchOnlyWithoutOffer,
            OwnRefreshOnlyInInstall, StagingIsSound, Offered, Task, Shows
    <3> QED
      BY <3>2, <3>3
  <2>2. ASSUME NEW v \in Maybe, RefreshReturns(slot, v) PROVE Order'
    <3>1. CASE v \in {NoVersion, current, tasks[slot].base}
      BY <2>2, <2>a, <3>1
      DEF RefreshReturns, Ends, NoTask, Order, InstallingIsShown, OnePlatformCall,
          SearchOnlyWithoutOffer, OwnRefreshOnlyInInstall, StagingIsSound, Offered
    <3>2. CASE v \notin {NoVersion, current, tasks[slot].base}
      <4>1. tasks' = [tasks EXCEPT ![slot] = [@ EXCEPT !.at = "staging", !.version = v]]
        BY <2>2, <3>2 DEF RefreshReturns, Awaits
      <4>2. v \in Versions
        BY <3>2 DEF Maybe
      <4> QED
        BY <2>2, <2>a, <4>1, <4>2
        DEF RefreshReturns, Order, InstallingIsShown, OnePlatformCall,
            SearchOnlyWithoutOffer, OwnRefreshOnlyInInstall, StagingIsSound, Offered, Task
    <3> QED
      BY <3>1, <3>2
  <2>3. CASE Cleared(slot)
    BY <2>3 DEF Cleared, Ends, NoTask, Order, InstallingIsShown, OnePlatformCall,
                SearchOnlyWithoutOffer, OwnRefreshOnlyInInstall, StagingIsSound, Offered, Shows
  <2>4. CASE Staged(slot)
    BY <2>4 DEF Staged, Awaits, Order, InstallingIsShown, OnePlatformCall,
                SearchOnlyWithoutOffer, OwnRefreshOnlyInInstall, StagingIsSound, Offered, Task
  <2>5. CASE Recorded(slot)
    <3>1. /\ tasks' = [tasks EXCEPT ![slot] = NoTask]
          /\ UNCHANGED <<installing, staged>>
          /\ state'.version \in Versions
          /\ staged \in Versions
      BY <2>0, <2>5 DEF Recorded, Ends, Shows, StagingIsSound
    <3>2. state'.status = IF tasks[slot].kind = "refresh" /\ installing # "no"
                          THEN "installing" ELSE "ready"
      BY <2>5 DEF Recorded, Shows
    <3>3. tasks[slot].kind = "find" => installing = "no"
      BY <2>a DEF SearchOnlyWithoutOffer, InstallingIsShown, Offered
    <3>4. tasks[slot].kind \in {"find", "refresh"}
      BY <2>0, <2>a DEF Task
    <3>5. (state'.status = "installing") <=> (installing # "no")
      BY <3>2, <3>3, <3>4
    <3>6. \A other \in Slots : tasks'[other].kind = "none"
      BY <2>a, <3>1 DEF NoTask
    <3> QED
      BY <3>1, <3>5, <3>6
      DEF Order, InstallingIsShown, OnePlatformCall, SearchOnlyWithoutOffer,
          OwnRefreshOnlyInInstall, StagingIsSound, Offered
  <2>6. CASE TaskFails(slot)
    BY <2>6 DEF TaskFails, Ends, NoTask, Order, InstallingIsShown, OnePlatformCall,
                SearchOnlyWithoutOffer, OwnRefreshOnlyInInstall, StagingIsSound, Offered, Shows
  <2> QED
    BY <1>7, <2>1, <2>2, <2>3, <2>4, <2>5, <2>6 DEF Progress
<1>8. CASE RestartsIntoUpdate
  BY <1>8, LaunchOrder DEF RestartsIntoUpdate
<1>9. CASE Relaunch
  BY <1>9, LaunchOrder DEF Relaunch
<1>11. CASE StartFails
  BY <1>11 DEF StartFails, Order, InstallingIsShown, OnePlatformCall,
               SearchOnlyWithoutOffer, OwnRefreshOnlyInInstall, StagingIsSound, Offered
<1>10. CASE UNCHANGED vars
  BY <1>10 DEF vars, Order, InstallingIsShown, OnePlatformCall,
               SearchOnlyWithoutOffer, OwnRefreshOnlyInInstall, StagingIsSound, Offered
<1> QED
  BY <1>1, <1>2, <1>3, <1>4, <1>5, <1>6, <1>7, <1>8, <1>9, <1>10, <1>11 DEF Next, InProcess

-----------------------------------------------------------------------------
(* Every reachable state of the updater satisfies the invariant the other  *)
(* theorems follow from (updater-controller.ts:26-129).                    *)
THEOREM Invariant == Spec => []IInv
<1>1. Init => IInv
  BY InitTypeOK, InitOrder DEF IInv, Order
<1>2. IInv /\ [Next]_vars => IInv'
  BY NextTypeOK, NextOrder DEF IInv, Order
<1> QED
  BY <1>1, <1>2, PTL DEF Spec

(* Every variable keeps its type.                                          *)
THEOREM TypeCorrect == Spec => []TypeOK
<1>1. IInv => TypeOK
  BY DEF IInv
<1> QED
  BY <1>1, Invariant, PTL

(* The windows show "installing" exactly while install() is under way, for *)
(* any versions and whatever the store does (updater-controller.ts:82-83). *)
THEOREM InstallingShown == Spec => []InstallingIsShown
<1>1. IInv => InstallingIsShown
  BY DEF IInv
<1> QED
  BY <1>1, Invariant, PTL

(* The platform runs one call at a time, and none while the app restarts   *)
(* (updater-controller.ts:42-54,93-112).                                   *)
THEOREM OneCallAtATime == Spec => []OnePlatformCall
<1>1. IInv => OnePlatformCall
  BY DEF IInv
<1> QED
  BY <1>1, Invariant, PTL

-----------------------------------------------------------------------------
(* While a body is in flight in one slot, the other slot is free; a search *)
(* runs while nothing is offered.                                          *)
LEMMA OneBody ==
  ASSUME IInv, NEW slot \in Slots, Busy(slot)
  PROVE  /\ \A other \in Slots : other # slot => tasks[other].kind = "none"
         /\ tasks[slot].kind = "find" => ~Offered
         /\ tasks[slot].at = "clearing" => tasks[slot].kind = "find"
         /\ tasks[slot].kind \in {"find", "refresh"}
BY DEF IInv, TypeOK, OnePlatformCall, SearchOnlyWithoutOffer, Slots, Busy, Task

(* No step of the running app withdraws an offer, however checks, failures *)
(* and clicks interleave (updater-controller.ts:73-74).                    *)
THEOREM OfferKept == Spec => OfferIsKept
<1>1. ASSUME IInv, Next, Offered, InProcess PROVE Offered'
  <2>1. CASE BeginCheck
    BY <1>1, <2>1 DEF BeginCheck, Offered
  <2>2. CASE Install \/ InstallFails
    BY <1>1, <2>2 DEF Install, InstallFails, Offered, Shows
  <2>3. CASE UNCHANGED state
    BY <1>1, <2>3 DEF Offered
  <2>4. ASSUME NEW slot \in Slots, Progress(slot) PROVE Offered'
    <3>1. Busy(slot)
      BY <2>4 DEF Progress, FindReturns, RefreshReturns, Cleared, Staged, Recorded, TaskFails, Busy
    <3>2. tasks[slot].kind # "find" /\ tasks[slot].at # "clearing"
      BY <1>1, <3>1, OneBody
    <3>3. CASE Recorded(slot)
      BY <3>3 DEF Recorded, Offered, Shows
    <3>4. CASE ~Recorded(slot)
      BY <1>1, <2>4, <3>2, <3>4
      DEF Progress, FindReturns, RefreshReturns, Cleared, Staged, TaskFails, Offered
    <3> QED
      BY <3>3, <3>4
  <2> QED
    BY <1>1, <2>1, <2>2, <2>3, <2>4
    DEF InProcess, Check, Start, StartFails, InstallProceeds, Prepared
<1>2. IInv /\ [Next]_vars => [Offered /\ InProcess => Offered']_vars
  BY <1>1
<1> QED
  BY <1>2, Invariant, PTL DEF Spec, OfferIsKept

-----------------------------------------------------------------------------
(* What is offered is what would be installed, but for the moment between  *)
(* the end of a newer download and its record, and after a record that     *)
(* could not be written (updater-controller.ts:75-91).                     *)
THEOREM OfferedIsStaged == Spec => []ShownIsStaged
<1>1. Init => ShownIsStaged
  BY DEF Init, ShownIsStaged, BeingRecorded, Offered, Shows
<1>2. ASSUME IInv, ShownIsStaged, [Next]_vars PROVE ShownIsStaged'
  <2>1. CASE UNCHANGED <<state, tasks, staged, unrecorded>>
    BY <1>2, <2>1 DEF ShownIsStaged, BeingRecorded, Offered, Busy
  <2>2. ASSUME BeginCheck, UNCHANGED <<staged, unrecorded>> PROVE ShownIsStaged'
    BY <1>2, <2>2
    DEF BeginCheck, ShownIsStaged, BeingRecorded, Offered, Busy, Shows, IInv, TypeOK, Slots
  <2>3. CASE Install
    BY <1>2, <2>3
    DEF Install, ShownIsStaged, BeingRecorded, Offered, Busy, Shows, IInv, TypeOK, Slots,
        OwnRefreshOnlyInInstall
  <2>4. CASE InstallFails
    BY <1>2, <2>4 DEF InstallFails, ShownIsStaged, BeingRecorded, Offered, Busy, Shows
  <2>5. ASSUME NEW v, Launch(v) PROVE ShownIsStaged'
    BY <2>5 DEF Launch, ShownIsStaged, BeingRecorded, Offered, Shows
  <2>6. ASSUME NEW slot \in Slots, Progress(slot) PROVE ShownIsStaged'
    <3>1. Busy(slot)
      BY <2>6 DEF Progress, FindReturns, RefreshReturns, Cleared, Staged, Recorded, TaskFails, Busy
    <3>2. \A other \in Slots : other # slot => ~Busy(other)
      BY <1>2, <3>1, OneBody DEF Busy
    <3>3. Offered /\ tasks[slot].at # "recording" => staged = state.version \/ unrecorded
      BY <1>2, <3>2 DEF ShownIsStaged, BeingRecorded
    <3>4. CASE Staged(slot)
      BY <1>2, <3>1, <3>4 DEF Staged, Awaits, ShownIsStaged, BeingRecorded, Busy, IInv, TypeOK, Task
    <3>5. CASE Recorded(slot)
      BY <1>2, <3>1, <3>5 DEF Recorded, ShownIsStaged, BeingRecorded, Shows, StagingIsSound, IInv
    <3>6. CASE TaskFails(slot)
      <4>1. UNCHANGED staged /\ (Offered' => state' = state /\ Offered)
        BY <3>6 DEF TaskFails, Offered, Shows
      <4>2. CASE tasks[slot].at = "recording"
        BY <3>6, <4>2 DEF TaskFails, ShownIsStaged
      <4>3. CASE tasks[slot].at # "recording"
        <5>1. unrecorded => unrecorded'
          BY <3>6 DEF TaskFails
        <5> QED
          BY <3>3, <4>1, <4>3, <5>1 DEF ShownIsStaged
      <4> QED
        BY <4>2, <4>3
    <3>7. CASE ~Staged(slot) /\ ~Recorded(slot) /\ ~TaskFails(slot)
      <4>1. UNCHANGED <<staged, unrecorded>> /\ (Offered' => state' = state /\ Offered)
        BY <1>2, <2>6, <3>7
        DEF Progress, FindReturns, RefreshReturns, Cleared, Offered, Shows
      <4>2. tasks[slot].at # "recording"
        BY <2>6, <3>7
        DEF Progress, FindReturns, RefreshReturns, Cleared
      <4> QED
        BY <3>3, <4>1, <4>2 DEF ShownIsStaged
    <3> QED
      BY <3>4, <3>5, <3>6, <3>7
  <2> QED
    BY <1>2, <2>1, <2>2, <2>3, <2>4, <2>5, <2>6
    DEF Next, InProcess, Check, Start, StartFails, InstallProceeds, Prepared,
        RestartsIntoUpdate, Relaunch, vars
<1>3. IInv /\ ShownIsStaged /\ [Next]_vars => ShownIsStaged'
  BY <1>2
<1> QED
  BY <1>1, <1>3, Invariant, PTL DEF Spec

(* Then a restart into an update brings up the version the button named.   *)
THEOREM RestartAppliesOffer == Spec => []RestartAppliesShown
<1>1. IInv /\ ShownIsStaged => RestartAppliesShown
  BY DEF IInv, InstallingIsShown, OnePlatformCall, ShownIsStaged, BeingRecorded, RestartAppliesShown, Offered
<1> QED
  BY <1>1, Invariant, OfferedIsStaged, PTL
-----------------------------------------------------------------------------
(* The windows show a search exactly while one is under way, and of a      *)
(* download the version that is being downloaded: there is no spinner      *)
(* without a body that ends it, and no search that is not shown.           *)
SearchIsShown ==
  LET search == tasks["check"]
  IN /\ state.status = "checking" <=> search.kind = "find" /\ search.at \in {"checking", "clearing"}
     /\ state.status = "downloading" <=> search.kind = "find" /\ search.at \in {"staging", "recording"}
     /\ state.status = "downloading" => state.version = search.version

LEMMA BeginCheckShows ==
  ASSUME IInv, SearchIsShown, BeginCheck
  PROVE  SearchIsShown'
<1> USE DEF SearchIsShown, IInv, TypeOK, Slots, Busy
<1>1. CASE state.status = "installing" \/ Busy("check")
  BY <1>1 DEF BeginCheck
<1>2. CASE ~(state.status = "installing" \/ Busy("check")) /\ state.status = "ready"
  BY <1>2 DEF BeginCheck, Refresh, NoTask
<1>3. CASE ~(state.status = "installing" \/ Busy("check")) /\ state.status # "ready"
  BY <1>3 DEF BeginCheck, Find, NoTask, Shows
<1> QED
  BY <1>1, <1>2, <1>3

(* The body in the check slot, or the installation's own refresh while     *)
(* nothing searches.                                                       *)
LEMMA ProgressShows ==
  ASSUME IInv, SearchIsShown, NEW slot \in Slots, Progress(slot)
  PROVE  SearchIsShown'
<1>1. Busy(slot)
  BY DEF Progress, FindReturns, RefreshReturns, Cleared, Staged, Recorded, TaskFails, Busy
<1>2. /\ slot = "check" \/ (slot = "install" /\ tasks["check"].kind = "none")
      /\ tasks[slot].kind \in {"find", "refresh"}
      /\ tasks[slot].at = "clearing" => tasks[slot].kind = "find"
      /\ tasks["install"].kind # "find"
  BY <1>1, OneBody DEF Slots, IInv, SearchOnlyWithoutOffer
<1>3. tasks \in [Slots -> Task] /\ tasks[slot] \in Task /\ "check" \in Slots
  BY DEF IInv, TypeOK, Slots
<1>4. ASSUME Ends(slot) PROVE tasks'["check"].kind = "none"
  BY <1>2, <1>3, <1>4 DEF Ends, NoTask
<1>5. ASSUME NEW at \in {"clearing", "staging", "recording"}, NEW v \in Maybe, Awaits(slot, at, v)
      PROVE  /\ tasks'[slot].kind = tasks[slot].kind /\ tasks'[slot].at = at /\ tasks'[slot].version = v
             /\ slot = "install" => tasks'["check"] = tasks["check"]
  BY <1>3, <1>5 DEF Awaits, Task
<1>6. ASSUME NEW v \in Maybe, FindReturns(slot, v) PROVE SearchIsShown'
  <2>1. slot = "check"
    BY <1>2, <1>6 DEF FindReturns
  <2>2. CASE Awaits(slot, "clearing", NoVersion) /\ UNCHANGED state
    BY <1>5, <1>6, <2>1, <2>2 DEF FindReturns, SearchIsShown, Maybe
  <2>3. CASE Awaits(slot, "staging", v) /\ state' = Shows("downloading", v)
    BY <1>5, <1>6, <2>1, <2>3 DEF FindReturns, SearchIsShown, Shows
  <2> QED
    BY <1>6, <2>2, <2>3 DEF FindReturns
<1>7. ASSUME NEW v \in Maybe, RefreshReturns(slot, v) PROVE SearchIsShown'
  <2>1. tasks[slot].kind = "refresh" /\ state' = state
    BY <1>7 DEF RefreshReturns
  <2>2. tasks["check"].kind # "find"
    BY <1>2, <2>1
  <2>3. tasks'["check"].kind # "find"
    <3>1. CASE Ends(slot)
      BY <1>4, <3>1
    <3>2. CASE Awaits(slot, "staging", v)
      BY <1>2, <1>5, <2>1, <2>2, <3>2
    <3> QED
      BY <1>7, <3>1, <3>2 DEF RefreshReturns
  <2> QED
    BY <2>1, <2>2, <2>3 DEF SearchIsShown
<1>8. CASE Cleared(slot)
  BY <1>4, <1>8 DEF Cleared, Shows, SearchIsShown
<1>9. CASE Staged(slot)
  <2>1. tasks[slot].version \in Maybe /\ tasks[slot].at = "staging"
    BY <1>3, <1>9 DEF Task, Staged
  <2>2. state' = state /\ Awaits(slot, "recording", tasks[slot].version)
    BY <1>9 DEF Staged
  <2> QED
    BY <1>2, <1>5, <2>1, <2>2 DEF SearchIsShown
<1>10. CASE Recorded(slot)
  BY <1>4, <1>10 DEF Recorded, Shows, SearchIsShown
<1>11. CASE TaskFails(slot)
  <2>1. tasks'["check"].kind = "none"
    BY <1>4, <1>11 DEF TaskFails
  <2>2. state'.status \notin {"checking", "downloading"}
    <3>1. CASE tasks[slot].kind = "find"
      BY <1>11, <3>1 DEF TaskFails, Shows
    <3>2. CASE tasks[slot].kind # "find"
      <4>1. tasks["check"].kind # "find" /\ state' = state
        BY <1>2, <1>11, <3>2 DEF TaskFails
      <4> QED
        BY <4>1 DEF SearchIsShown
    <3> QED
      BY <3>1, <3>2
  <2> QED
    BY <2>1, <2>2 DEF SearchIsShown
<1> QED
  BY <1>6, <1>7, <1>8, <1>9, <1>10, <1>11 DEF Progress

(* A search is shown while it runs and no longer, whichever of its awaits  *)
(* fails and whatever is clicked meanwhile: the safety half of             *)
(* WorkResolves.                                                           *)
THEOREM SearchesShown == Spec => []SearchIsShown
<1>1. ASSUME NEW v, Launch(v) PROVE SearchIsShown'
  BY <1>1 DEF Launch, SearchIsShown, Shows, NoTask, Slots
<1>2. Init => SearchIsShown
  BY DEF Init, SearchIsShown, Shows, NoTask, Slots
<1>3. ASSUME IInv, SearchIsShown, [Next]_vars PROVE SearchIsShown'
  <2>1. CASE Check \/ Start
    BY <1>3, <2>1, BeginCheckShows DEF Check, Start
  <2>2. CASE Install
    <3>1. state.status = "ready" /\ state'.status = "installing"
      BY <2>2 DEF Install, Shows
    <3>2. tasks'["check"] = tasks["check"]
      BY <1>3, <2>2 DEF Install, IInv, TypeOK, Slots
    <3> QED
      BY <1>3, <3>1, <3>2 DEF SearchIsShown
  <2>3. CASE InstallFails
    BY <1>3, <2>3 DEF InstallFails, SearchIsShown, Shows
  <2>4. CASE StartFails \/ InstallProceeds \/ Prepared \/ UNCHANGED vars
    BY <1>3, <2>4 DEF StartFails, InstallProceeds, Prepared, vars, SearchIsShown
  <2>5. CASE RestartsIntoUpdate \/ Relaunch
    BY <1>1, <2>5 DEF RestartsIntoUpdate, Relaunch
  <2>6. ASSUME NEW slot \in Slots, Progress(slot) PROVE SearchIsShown'
    BY <1>3, <2>6, ProgressShows
  <2> QED
    BY <1>3, <2>1, <2>2, <2>3, <2>4, <2>5, <2>6 DEF Next, InProcess
<1> QED
  BY <1>2, <1>3, Invariant, PTL DEF Spec

=============================================================================
