--------------------------- MODULE DesktopAppProofs ---------------------------
(***************************************************************************)
(* The safety of DesktopApp for every set of windows and links, and every  *)
(* number of ways to end under way at once.                                *)
(*                                                                         *)
(* The argument: while the app runs, `quitting' is set only together with  *)
(* something that waits to end the app, so a window that keeps its id when *)
(* the user closes it is one of `either'; a daemon that runs is held by    *)
(* stopDaemon and nothing is being stopped, so whoever stops the services  *)
(* first tells it; and a link makes at most two copies, because it is      *)
(* queued once and sent once.                                              *)
(***************************************************************************)
EXTENDS DesktopApp, TLAPS

-----------------------------------------------------------------------------
(* Types.                                                                  *)

LEMMA NoPagesTypes ==
  ASSUME NoPages
  PROVE  /\ pages' \in [Windows -> PageStates]
         /\ pending' = {} /\ arrived' = {} /\ lost' = {}
         /\ sent' \in [Windows -> [Links -> Nat]] /\ seen' \in [Links -> Nat]
BY DEF NoPages, NoCopies, PageStates

(* What a registry call may do to the registry's types.                    *)
RegistryTypes ==
  /\ quitting \in BOOLEAN
  /\ open \subseteq Windows /\ persisted \subseteq Windows
  /\ wished \subseteq Windows /\ either \subseteq Windows
  /\ lastFocused \in open \cup {NoWindow}

LinkTypes ==
  /\ pages \in [Windows -> PageStates]
  /\ pending \subseteq Links /\ arrived \subseteq Links /\ lost \subseteq Links
  /\ sent \in [Windows -> [Links -> Nat]] /\ seen \in [Links -> Nat]

AppTypes ==
  /\ platform \in Platforms
  /\ app \in AppStates
  /\ ready \in {"pending", "ready", "failed"}
  /\ daemon \in Alive \cup {"signalled", "gone"}
  /\ handle \in BOOLEAN
  /\ stopping \in {"nothing", "daemon", "wsl"}
  /\ waiting \subseteq {"relaunch", "signal", "update", "restart", "session"}

LEMMA TypesSplit == TypeOK <=> RegistryTypes /\ LinkTypes /\ AppTypes
BY DEF TypeOK, RegistryTypes, LinkTypes, AppTypes

(* Each step keeps the types of the registry, ...                          *)
LEMMA RegistryStep == RegistryTypes /\ [Next]_vars => RegistryTypes'
<1> SUFFICES ASSUME RegistryTypes, [Next]_vars PROVE RegistryTypes'
  OBVIOUS
<1> USE DEF RegistryTypes
<1>1. CASE \/ HealthOk \/ HealthFails \/ ServicesStarted \/ ServicesFail
            \/ DaemonExits \/ DaemonStopped
  BY <1>1 DEF HealthOk, HealthFails, ServicesStarted, ServicesFail, DaemonExits, DaemonStopped,
              services, registryVars
<1>2. CASE WindowsRestored
  BY <1>2 DEF WindowsRestored, Restore, Register
<1>3. CASE ServicesStopped \/ Relaunch \/ KillSidecar \/ PrepareToRestart
  BY <1>3 DEF ServicesStopped, Relaunch, KillSidecar, PrepareToRestart, windows, registryVars
<1>4. CASE UserQuits \/ Signal \/ \E who \in {"signal", "restart"} : WaitedQuits(who)
  BY <1>4 DEF UserQuits, Signal, WaitedQuits, Quit, windows
<1>5. CASE RestartBegins \/ UpdateFails \/ SessionEnd
  BY <1>5 DEF RestartBegins, UpdateFails, Failing, SessionEnd, windows
<1>6. ASSUME NEW id \in Windows, UserCloses(id) PROVE RegistryTypes'
  BY <1>6 DEF UserCloses, Closed, Kept, Quit
<1>7. ASSUME NEW id \in Windows, QuitCloses(id) PROVE RegistryTypes'
  BY <1>7 DEF QuitCloses, Closed, Kept
<1>8. CASE WindowOpens
  BY <1>8 DEF WindowOpens, New, Restore, Register
<1>9. CASE WindowFocused \/ LinkOrPage
  BY <1>9 DEF WindowFocused, Focus, LinkOrPage, registryVars
<1>10. CASE Crash \/ Launch
  BY <1>10 DEF Crash, Launch, Forgets, NoWindows
<1>11. CASE UNCHANGED vars
  BY <1>11 DEF vars, windows
<1> QED
  BY <1>1, <1>2, <1>3, <1>4, <1>5, <1>6, <1>7, <1>8, <1>9, <1>10, <1>11 DEF Next, Closing

(* ... of the app and its services, ...                                     *)
LEMMA StopServicesTypes ==
  ASSUME AppTypes, StopServices
  PROVE  /\ daemon' \in Alive \cup {"signalled", "gone"}
         /\ handle' \in BOOLEAN
         /\ stopping' \in {"nothing", "daemon", "wsl"}
BY DEF AppTypes, StopServices, services, Killed, Alive

LEMMA QuitTypes ==
  ASSUME AppTypes, Quit, UNCHANGED <<platform, ready>>, waiting' \subseteq waiting
  PROVE  AppTypes'
BY StopServicesTypes DEF AppTypes, Quit, AppStates

LEMMA AppStep == AppTypes /\ [Next]_vars => AppTypes'
<1> SUFFICES ASSUME AppTypes, [Next]_vars PROVE AppTypes'
  OBVIOUS
<1> USE DEF AppTypes, AppStates
<1>1. CASE \/ HealthOk \/ HealthFails \/ ServicesStarted \/ ServicesFail
            \/ DaemonExits \/ DaemonStopped
  BY <1>1 DEF HealthOk, HealthFails, Failed, ServicesStarted, ServicesFail, DaemonExits,
              DaemonStopped, Alive, Killed, services
<1>2. CASE WindowsRestored \/ ServicesStopped \/ WindowOpens \/ WindowFocused \/ LinkOrPage
  BY <1>2 DEF WindowsRestored, ServicesStopped, WindowOpens, WindowFocused, LinkOrPage, services
<1>3. CASE Relaunch \/ KillSidecar
  BY <1>3, StopServicesTypes DEF Relaunch, KillSidecar
<1>4. CASE UserQuits
  BY <1>4, QuitTypes DEF UserQuits
<1>5. CASE Signal
  <2>1. CASE ~HasWsl
    BY <1>5, <2>1, QuitTypes DEF Signal
  <2>2. CASE HasWsl
    BY <1>5, <2>2 DEF Signal, services
  <2> QED
    BY <2>1, <2>2
<1>6. ASSUME NEW who \in {"signal", "restart"}, WaitedQuits(who) PROVE AppTypes'
  BY <1>6, QuitTypes DEF WaitedQuits
<1>7. CASE PrepareToRestart \/ RestartBegins \/ UpdateFails \/ SessionEnd
  BY <1>7 DEF PrepareToRestart, RestartBegins, UpdateFails, SessionEnd, services
<1>8. ASSUME NEW id \in Windows, UserCloses(id) PROVE AppTypes'
  BY <1>8, QuitTypes DEF UserCloses, services
<1>9. ASSUME NEW id \in Windows, QuitCloses(id) PROVE AppTypes'
  BY <1>9, StopServicesTypes DEF QuitCloses, services
<1>10. CASE Crash \/ Launch
  BY <1>10 DEF Crash, Launch, Forgets, Alive
<1>11. CASE UNCHANGED vars
  BY <1>11 DEF vars, services
<1> QED
  BY <1>1, <1>2, <1>3, <1>4, <1>5, <1>6, <1>7, <1>8, <1>9, <1>10, <1>11 DEF Next, Closing

(* ... and of the links.  What a step does to them is one of these:        *)
LinkStep ==
  \/ UNCHANGED linkVars
  \/ \E ids \in SUBSET Windows : PagesOpen(ids)
  \/ NoPages
  \/ \E w \in Windows, next \in PageStates : PageGoes(w, next)
  \/ \E w \in Windows : Asks(w) \/ Consume(w)
  \/ \E link \in Links : Receive(link) \/ \E w \in Windows : Handle(w, link)

LEMMA StepsOfLinks == RegistryTypes /\ [Next]_vars => LinkStep
<1> SUFFICES ASSUME RegistryTypes, [Next]_vars PROVE LinkStep
  OBVIOUS
<1>1. CASE \/ HealthOk \/ HealthFails \/ ServicesStarted \/ ServicesFail
            \/ DaemonExits \/ DaemonStopped
  BY <1>1 DEF HealthOk, HealthFails, ServicesStarted, ServicesFail, DaemonExits, DaemonStopped,
              services, LinkStep
<1>2. CASE WindowsRestored \/ WindowOpens
  <2>1. open' \subseteq Windows /\ open' \ open \subseteq Windows
    BY RegistryStep DEF RegistryTypes
  <2> QED
    BY <1>2, <2>1 DEF WindowsRestored, WindowOpens, LinkStep
<1>3. CASE ServicesStopped \/ Relaunch \/ KillSidecar \/ UserQuits \/ Signal \/ PrepareToRestart
  BY <1>3 DEF ServicesStopped, Relaunch, KillSidecar, UserQuits, Signal, PrepareToRestart, LinkStep
<1>4. CASE (\E who \in {"signal", "restart"} : WaitedQuits(who))
           \/ RestartBegins \/ UpdateFails \/ SessionEnd \/ WindowFocused
  BY <1>4 DEF WaitedQuits, RestartBegins, UpdateFails, SessionEnd, WindowFocused, LinkStep
<1>5. CASE (\E id \in Windows : UserCloses(id)) \/ \E id \in Windows : QuitCloses(id)
  BY <1>5 DEF UserCloses, QuitCloses, LinkStep, PageStates
<1>6. CASE LinkOrPage
  BY <1>6 DEF LinkOrPage, Reload, LinkStep, PageStates, RegistryTypes
<1>7. CASE Crash \/ Launch
  BY <1>7 DEF Crash, Launch, Forgets, LinkStep
<1>8. CASE UNCHANGED vars
  BY <1>8 DEF vars, linkVars, LinkStep
<1> QED
  BY <1>1, <1>2, <1>3, <1>4, <1>5, <1>6, <1>7, <1>8 DEF Next, Closing

LEMMA LinkTypesStep == ASSUME LinkTypes, LinkStep PROVE LinkTypes'
<1> USE DEF LinkTypes
<1>1. CASE UNCHANGED linkVars
  BY <1>1 DEF linkVars
<1>2. ASSUME NEW ids \in SUBSET Windows, PagesOpen(ids) PROVE LinkTypes'
  BY <1>2 DEF PagesOpen, PageStates
<1>3. CASE NoPages
  BY <1>3, NoPagesTypes
<1>4. ASSUME NEW w \in Windows, NEW next \in PageStates, PageGoes(w, next) PROVE LinkTypes'
  BY <1>4 DEF PageGoes, NoCopies
<1>5. ASSUME NEW w \in Windows, Asks(w) PROVE LinkTypes'
  BY <1>5 DEF Asks, PageStates
<1>6. ASSUME NEW w \in Windows, Consume(w) PROVE LinkTypes'
  BY <1>6 DEF Consume, PageStates
<1>7. ASSUME NEW link \in Links, Receive(link) PROVE LinkTypes'
  BY <1>7 DEF Receive, Emitted, SentToFocused
<1>8. ASSUME NEW link \in Links, NEW w \in Windows, Handle(w, link) PROVE LinkTypes'
  BY <1>8 DEF Handle
<1> QED
  BY <1>1, <1>2, <1>3, <1>4, <1>5, <1>6, <1>7, <1>8 DEF LinkStep

(* Every variable keeps its type.                                          *)
THEOREM TypeCorrect == Spec => []TypeOK
<1>1. Init => TypeOK
  <2> SUFFICES ASSUME Init PROVE TypeOK
    OBVIOUS
  <2>1. RegistryTypes
    BY DEF Init, RegistryTypes
  <2>2. LinkTypes
    BY DEF Init, LinkTypes, NoCopies, PageStates
  <2>3. AppTypes
    BY DEF Init, AppTypes, AppStates, Alive
  <2> QED
    BY <2>1, <2>2, <2>3, TypesSplit
<1>2. TypeOK /\ [Next]_vars => TypeOK'
  BY TypesSplit, RegistryStep, AppStep, StepsOfLinks, LinkTypesStep
  DEF TypeOK, RegistryTypes, LinkTypes, AppTypes
<1> QED
  BY <1>1, <1>2, PTL DEF Spec

-----------------------------------------------------------------------------
(* Windows.  A quit that has been announced is one somebody waits for, and *)
(* the windows close only after it.                                        *)
QuitIsAwaited ==
  /\ app \in {"loading", "running"} /\ quitting => Leaving
  /\ app = "closing" => quitting

WindowsInv == QuitIsAwaited /\ RestoresWhatWasOpen

LEMMA WindowsStep == ASSUME WindowsInv, [Next]_vars PROVE WindowsInv'
<1> USE DEF WindowsInv, QuitIsAwaited, RestoresWhatWasOpen, Leaving
<1>1. CASE \/ HealthOk \/ HealthFails \/ ServicesStarted \/ ServicesFail
            \/ DaemonExits \/ DaemonStopped
  BY <1>1 DEF HealthOk, HealthFails, ServicesStarted, ServicesFail, DaemonExits, DaemonStopped,
              services, registryVars
<1>2. CASE WindowsRestored
  BY <1>2 DEF WindowsRestored, Restore, Register
<1>3. CASE ServicesStopped \/ Relaunch \/ KillSidecar \/ PrepareToRestart
  BY <1>3 DEF ServicesStopped, Relaunch, KillSidecar, PrepareToRestart, windows, registryVars
<1>4. CASE UserQuits \/ Signal \/ \E who \in {"signal", "restart"} : WaitedQuits(who)
  BY <1>4 DEF UserQuits, Signal, WaitedQuits, Quit, windows
<1>5. CASE RestartBegins \/ UpdateFails \/ SessionEnd
  BY <1>5 DEF RestartBegins, UpdateFails, Failing, SessionEnd, windows
<1>6. ASSUME NEW id \in Windows, UserCloses(id) PROVE WindowsInv'
  BY <1>6 DEF UserCloses, Closed, Kept, Quit
<1>7. ASSUME NEW id \in Windows, QuitCloses(id) PROVE WindowsInv'
  BY <1>7 DEF QuitCloses, Closed, Kept
<1>8. CASE WindowOpens
  BY <1>8 DEF WindowOpens, New, Restore, Register
<1>9. CASE WindowFocused \/ LinkOrPage
  BY <1>9 DEF WindowFocused, Focus, LinkOrPage, registryVars
<1>10. CASE Crash \/ Launch
  BY <1>10 DEF Crash, Launch, Forgets, NoWindows
<1>11. CASE UNCHANGED vars
  BY <1>11 DEF vars, windows
<1> QED
  BY <1>1, <1>2, <1>3, <1>4, <1>5, <1>6, <1>7, <1>8, <1>9, <1>10, <1>11 DEF Next, Closing

(* The next launch restores the windows the user left open, and no others  *)
(* but those of `either'.                                                  *)
THEOREM WindowsRestoredAsLeft == Spec => []RestoresWhatWasOpen
<1>1. Init => WindowsInv
  BY DEF Init, WindowsInv, QuitIsAwaited, RestoresWhatWasOpen
<1>2. WindowsInv /\ [Next]_vars => WindowsInv'
  BY WindowsStep
<1>3. WindowsInv => RestoresWhatWasOpen
  BY DEF WindowsInv
<1> QED
  BY <1>1, <1>2, <1>3, PTL DEF Spec

-----------------------------------------------------------------------------
(* The daemon.  Until its start is over only the start touches it.  After  *)
(* that a daemon that runs is healthy, held, and nobody is stopping.       *)
DaemonIsHeld ==
  /\ app \in AppStates
  /\ app = "loading" => open = {}
  /\ app = "loading" /\ ready = "pending" =>
       /\ stopping = "nothing"
       /\ handle /\ daemon \in Alive => daemon = "up"
  /\ app \notin {"aborted", "crashed"} /\ (app # "loading" \/ ready # "pending")
     /\ daemon \in Alive => daemon = "up" /\ handle /\ stopping = "nothing"
  /\ app \in {"running", "closing"} => ready # "pending"

DaemonInv == DaemonIsHeld /\ NoDaemonLeft

(* Whoever stops the services tells a daemon that runs.                    *)
LEMMA StopTells ==
  ASSUME StopServices, daemon \in Alive => daemon = "up" /\ handle /\ stopping = "nothing"
  PROVE  daemon' \notin Alive
BY DEF StopServices, services, Killed, Alive

LEMMA DaemonStep == ASSUME DaemonInv, [Next]_vars PROVE DaemonInv'
<1> USE DEF DaemonInv, DaemonIsHeld, NoDaemonLeft, Ended, AppStates
<1>1. CASE HealthOk \/ HealthFails \/ ServicesStarted \/ ServicesFail
  BY <1>1 DEF HealthOk, HealthFails, Failed, ServicesStarted, ServicesFail, Alive, Killed, services,
              registryVars
<1>2. CASE DaemonExits \/ DaemonStopped
  BY <1>2 DEF DaemonExits, DaemonStopped, StopTimesOut, Alive, registryVars
<1>3. CASE WindowsRestored \/ WindowOpens \/ WindowFocused \/ LinkOrPage
  BY <1>3 DEF WindowsRestored, WindowOpens, WindowFocused, Focus, LinkOrPage, services, registryVars
<1>4. CASE ServicesStopped
  BY <1>4 DEF ServicesStopped, windows
<1>5. CASE Relaunch \/ KillSidecar
  <2>1. daemon' \notin Alive /\ app' = app /\ ready' = ready /\ app = "running"
    BY <1>5, StopTells DEF Relaunch, KillSidecar
  <2> QED
    BY <2>1
<1>6. CASE UserQuits \/ Signal
  <2>1. CASE ~Quit
    BY <1>6, <2>1 DEF UserQuits, Signal, windows, services
  <2>2. CASE Quit /\ app = "loading"
    BY <1>6, <2>2 DEF UserQuits, Signal, Quit, windows
  <2>3. CASE Quit /\ app = "running"
    <3>1. daemon' \notin Alive /\ ready' = ready /\ app' \in {"closing", "ended"}
      BY <1>6, <2>3, StopTells DEF UserQuits, Signal, Quit
    <3> QED
      BY <3>1, <2>3
  <2> QED
    BY <1>6, <2>1, <2>2, <2>3 DEF UserQuits, Signal
<1>7. ASSUME NEW who \in {"signal", "restart"}, WaitedQuits(who) PROVE DaemonInv'
  <2>1. daemon' \notin Alive /\ ready' = ready /\ app' \in {"closing", "ended"} /\ app = "running"
    BY <1>7, StopTells DEF WaitedQuits, Quit
  <2> QED
    BY <2>1
<1>8. CASE PrepareToRestart \/ RestartBegins \/ UpdateFails \/ SessionEnd
  BY <1>8 DEF PrepareToRestart, RestartBegins, UpdateFails, SessionEnd, services, windows, registryVars
<1>9. ASSUME NEW id \in Windows, UserCloses(id) PROVE DaemonInv'
  <2>1. app = "running" /\ ready' = ready
    BY <1>9 DEF UserCloses
  <2>2. CASE Quit
    <3>1. daemon' \notin Alive /\ app' \in {"closing", "ended"}
      BY <2>1, <2>2, StopTells DEF Quit
    <3> QED
      BY <2>1, <3>1
  <2>3. CASE UNCHANGED <<app, services>>
    BY <2>1, <2>3 DEF services
  <2> QED
    BY <1>9, <2>2, <2>3 DEF UserCloses
<1>10. ASSUME NEW id \in Windows, QuitCloses(id) PROVE DaemonInv'
  <2>1. app = "closing" /\ ready' = ready
    BY <1>10 DEF QuitCloses
  <2>2. CASE app' = "ended" /\ StopServices
    <3>1. daemon' \notin Alive
      BY <2>1, <2>2, StopTells
    <3> QED
      BY <2>1, <2>2, <3>1
  <2>3. CASE UNCHANGED <<app, services>>
    BY <2>1, <2>3 DEF services
  <2> QED
    BY <1>10, <2>2, <2>3 DEF QuitCloses
<1>11. CASE Crash \/ Launch
  BY <1>11 DEF Crash, Launch, Forgets, NoWindows, Alive
<1>12. CASE UNCHANGED vars
  BY <1>12 DEF vars, services, windows
<1> QED
  BY <1>1, <1>2, <1>3, <1>4, <1>5, <1>6, <1>7, <1>8, <1>9, <1>10, <1>11, <1>12 DEF Next, Closing

LEMMA DaemonInvariant == Spec => []DaemonInv
<1>1. Init => DaemonInv
  BY DEF Init, DaemonInv, DaemonIsHeld, NoDaemonLeft, Alive, AppStates
<1>2. DaemonInv /\ [Next]_vars => DaemonInv'
  BY DaemonStep
<1> QED
  BY <1>1, <1>2, PTL DEF Spec

(* An app that has ended after its start leaves no daemon that runs.       *)
THEOREM DaemonEndsWithApp == Spec => []NoDaemonLeft
<1>1. DaemonInv => NoDaemonLeft
  BY DEF DaemonInv
<1> QED
  BY <1>1, DaemonInvariant, PTL

-----------------------------------------------------------------------------
(* Links.  The copies of a link that are on their way are at most two, to  *)
(* windows a and b, and with the copies handled and the one in the queue   *)
(* there are still no more than two.                                       *)
One(copy) == IF copy THEN 1 ELSE 0

CopiesTo(link, a, b) ==
  /\ \A w \in Windows : sent[w][link] = One(w = a) + One(w = b)
  /\ seen[link] + One(a # NoWindow) + One(b # NoWindow) + One(link \in pending) <= 2

TwoCopies(link) ==
  /\ \E a, b \in Windows \cup {NoWindow} : CopiesTo(link, a, b)
  /\ link \notin arrived =>
       seen[link] = 0 /\ link \notin pending /\ \A w \in Windows : sent[w][link] = 0

NotLost(link) ==
  link \in arrived => \/ seen[link] > 0
                      \/ link \in pending \cup lost
                      \/ \E w \in Windows : sent[w][link] > 0

LinksInv == \A link \in Links : TwoCopies(link) /\ NotLost(link)

(* A step of another link changes nothing for this one.                    *)
LEMMA SameCopies ==
  ASSUME NEW link \in Links, TwoCopies(link), NotLost(link),
         \A w \in Windows : sent'[w][link] = sent[w][link],
         seen'[link] = seen[link], link \in pending' <=> link \in pending,
         link \in arrived' <=> link \in arrived, lost \subseteq lost'
  PROVE  TwoCopies(link)' /\ NotLost(link)'
BY DEF TwoCopies, NotLost, CopiesTo

(* Page w goes, or its copies are dropped: those to w are gone.            *)
LEMMA DroppedCopies ==
  ASSUME LinkTypes, NEW link \in Links, TwoCopies(link), NotLost(link),
         NEW w \in Windows, NEW next \in PageStates, PageGoes(w, next)
  PROVE  TwoCopies(link)' /\ NotLost(link)'
<1>1. \A v \in Windows : sent'[v][link] = IF v = w THEN 0 ELSE sent[v][link]
  BY DEF PageGoes, LinkTypes, NoCopies
<1>2. TwoCopies(link)'
  <2>1. PICK a \in Windows \cup {NoWindow}, b \in Windows \cup {NoWindow} : CopiesTo(link, a, b)
    BY DEF TwoCopies
  <2> DEFINE left(v) == IF v = w THEN NoWindow ELSE v
  <2>2. left(a) \in Windows \cup {NoWindow} /\ left(b) \in Windows \cup {NoWindow}
    BY <2>1
  <2>3. CopiesTo(link, left(a), left(b))'
    BY <1>1, <2>1, WindowsAssumption DEF CopiesTo, One, PageGoes, LinkTypes
  <2> QED
    BY <1>1, <2>2, <2>3 DEF TwoCopies, PageGoes
<1>3. NotLost(link)'
  BY <1>1 DEF NotLost, PageGoes, LinkTypes
<1> QED
  BY <1>2, <1>3

(* A page is handed one copy.                                              *)
LEMMA HandledCopy ==
  ASSUME LinkTypes, NEW link \in Links, TwoCopies(link), NotLost(link),
         NEW w \in Windows, Handle(w, link)
  PROVE  TwoCopies(link)' /\ NotLost(link)'
<1>1. /\ \A v \in Windows : sent'[v][link] = IF v = w THEN sent[v][link] - 1 ELSE sent[v][link]
      /\ seen'[link] = seen[link] + 1 /\ sent[w][link] > 0
      /\ UNCHANGED <<pending, arrived>>
      /\ seen[link] \in Nat /\ \A v \in Windows : sent[v][link] \in Nat
  BY DEF Handle, LinkTypes
<1>2. PICK a \in Windows \cup {NoWindow}, b \in Windows \cup {NoWindow} : CopiesTo(link, a, b)
  BY DEF TwoCopies
<1>3. w = a \/ w = b
  BY <1>1, <1>2 DEF CopiesTo, One
<1>4. CASE w = a
  <2>1. CopiesTo(link, NoWindow, b)'
    BY <1>1, <1>2, <1>4, WindowsAssumption DEF CopiesTo, One
  <2> QED
    BY <1>1, <2>1 DEF TwoCopies, NotLost
<1>5. CASE w = b
  <2>1. CopiesTo(link, a, NoWindow)'
    BY <1>1, <1>2, <1>5, WindowsAssumption DEF CopiesTo, One
  <2> QED
    BY <1>1, <2>1 DEF TwoCopies, NotLost
<1> QED
  BY <1>3, <1>4, <1>5

(* A page takes the queue: what was the place there is one to the page.    *)
LEMMA ConsumedCopy ==
  ASSUME LinkTypes, NEW link \in Links, TwoCopies(link), NotLost(link),
         NEW w \in Windows, Consume(w), link \in pending
  PROVE  TwoCopies(link)' /\ NotLost(link)'
<1>1. /\ \A v \in Windows : sent'[v][link] = IF v = w THEN sent[v][link] + 1 ELSE sent[v][link]
      /\ pending' = {} /\ UNCHANGED <<seen, arrived>>
      /\ seen[link] \in Nat /\ \A v \in Windows : sent[v][link] \in Nat
  BY DEF Consume, LinkTypes
<1>2. PICK a \in Windows \cup {NoWindow}, b \in Windows \cup {NoWindow} : CopiesTo(link, a, b)
  BY DEF TwoCopies
<1>3. a = NoWindow \/ b = NoWindow
  BY <1>1, <1>2 DEF CopiesTo, One
<1>4. sent'[w][link] > 0 /\ link \in arrived
  BY <1>1 DEF TwoCopies
<1>5. CASE a = NoWindow
  <2>1. CopiesTo(link, w, b)'
    BY <1>1, <1>2, <1>5, WindowsAssumption DEF CopiesTo, One
  <2> QED
    BY <1>1, <1>4, <2>1 DEF TwoCopies, NotLost
<1>6. CASE b = NoWindow
  <2>1. CopiesTo(link, a, w)'
    BY <1>1, <1>2, <1>6, WindowsAssumption DEF CopiesTo, One
  <2> QED
    BY <1>1, <1>4, <2>1 DEF TwoCopies, NotLost
<1> QED
  BY <1>3, <1>5, <1>6

(* A link is received: one copy in the queue, one at most to a window.     *)
LEMMA ReceivedCopy ==
  ASSUME LinkTypes, NEW link \in Links, TwoCopies(link), Receive(link)
  PROVE  TwoCopies(link)' /\ NotLost(link)'
<1> DEFINE gets(w) == w = lastFocused /\ pages[w] \in {"asking", "listening"}
<1>1. seen[link] = 0 /\ link \notin pending /\ \A w \in Windows : sent[w][link] = 0
  BY DEF Receive, TwoCopies
<1>2. \A w \in Windows : sent'[w][link] = IF gets(w) THEN 1 ELSE 0
  BY <1>1 DEF Receive, Emitted, SentToFocused, LinkTypes
<1>3. link \in pending' /\ link \in arrived' /\ seen' = seen
  BY DEF Receive, Emitted
<1>4. PICK a \in Windows \cup {NoWindow} : \A w \in Windows : w = a <=> gets(w)
  BY WindowsAssumption
<1>5. CopiesTo(link, a, NoWindow)'
  BY <1>1, <1>2, <1>3, <1>4, WindowsAssumption DEF CopiesTo, One
<1> QED
  BY <1>3, <1>5 DEF TwoCopies, NotLost

LEMMA LinksStep == ASSUME LinkTypes, LinksInv, LinkStep PROVE LinksInv'
<1> SUFFICES ASSUME NEW link \in Links PROVE TwoCopies(link)' /\ NotLost(link)'
  BY DEF LinksInv
<1>0. TwoCopies(link) /\ NotLost(link)
  BY DEF LinksInv
<1>1. CASE UNCHANGED linkVars
  BY <1>0, <1>1, SameCopies DEF linkVars
<1>2. ASSUME NEW ids \in SUBSET Windows, PagesOpen(ids) PROVE TwoCopies(link)' /\ NotLost(link)'
  BY <1>0, <1>2, SameCopies DEF PagesOpen
<1>3. CASE NoPages
  <2>1. /\ \A w \in Windows : sent'[w][link] = 0
        /\ seen'[link] = 0 /\ pending' = {} /\ arrived' = {}
    BY <1>3 DEF NoPages, NoCopies
  <2>2. CopiesTo(link, NoWindow, NoWindow)'
    BY <2>1, WindowsAssumption DEF CopiesTo, One
  <2> QED
    BY <2>1, <2>2 DEF TwoCopies, NotLost
<1>4. ASSUME NEW w \in Windows, NEW next \in PageStates, PageGoes(w, next)
      PROVE  TwoCopies(link)' /\ NotLost(link)'
  BY <1>0, <1>4, DroppedCopies
<1>5. ASSUME NEW w \in Windows, Asks(w) PROVE TwoCopies(link)' /\ NotLost(link)'
  BY <1>0, <1>5, SameCopies DEF Asks
<1>6. ASSUME NEW w \in Windows, Consume(w) PROVE TwoCopies(link)' /\ NotLost(link)'
  <2>1. CASE link \notin pending
    <3>1. \A v \in Windows : sent'[v][link] = sent[v][link]
      BY <1>6, <2>1 DEF Consume, LinkTypes
    <3> QED
      BY <1>0, <1>6, <2>1, <3>1, SameCopies DEF Consume
  <2> QED
    BY <1>0, <1>6, <2>1, ConsumedCopy
<1>7. ASSUME NEW other \in Links, Receive(other) PROVE TwoCopies(link)' /\ NotLost(link)'
  <2>1. CASE link # other
    <3>1. \A v \in Windows : sent'[v][link] = sent[v][link]
      BY <1>7, <2>1 DEF Receive, Emitted, SentToFocused, LinkTypes
    <3> QED
      BY <1>0, <1>7, <2>1, <3>1, SameCopies DEF Receive, Emitted
  <2> QED
    BY <1>0, <1>7, <2>1, ReceivedCopy
<1>8. ASSUME NEW other \in Links, NEW w \in Windows, Handle(w, other)
      PROVE  TwoCopies(link)' /\ NotLost(link)'
  <2>1. CASE link # other
    <3>1. (\A v \in Windows : sent'[v][link] = sent[v][link]) /\ seen'[link] = seen[link]
      BY <1>8, <2>1 DEF Handle, LinkTypes
    <3> QED
      BY <1>0, <1>8, <3>1, SameCopies DEF Handle
  <2> QED
    BY <1>0, <1>8, <2>1, HandledCopy
<1> QED
  BY <1>1, <1>2, <1>3, <1>4, <1>5, <1>6, <1>7, <1>8 DEF LinkStep

(* No link is dropped, and none is handled more than twice.                *)
THEOREM LinksAccounted == Spec => []LinksAccountedFor
<1>1. Init => LinksInv
  <2> SUFFICES ASSUME Init, NEW link \in Links PROVE TwoCopies(link) /\ NotLost(link)
    BY DEF LinksInv
  <2>1. /\ \A w \in Windows : sent[w][link] = 0
        /\ seen[link] = 0 /\ pending = {} /\ arrived = {}
    BY DEF Init, NoCopies
  <2>2. CopiesTo(link, NoWindow, NoWindow)
    BY <2>1, WindowsAssumption DEF CopiesTo, One
  <2> QED
    BY <2>1, <2>2 DEF TwoCopies, NotLost
<1>2. TypeOK /\ LinksInv /\ [Next]_vars => LinksInv'
  BY TypesSplit, StepsOfLinks, LinksStep
<1>3. TypeOK /\ LinksInv => LinksAccountedFor
  <2> SUFFICES ASSUME TypeOK, LinksInv, NEW link \in Links PROVE NotLost(link) /\ seen[link] <= 2
    BY DEF LinksAccountedFor, NotLost
  <2>1. seen[link] \in Nat
    BY DEF TypeOK
  <2>2. PICK a \in Windows \cup {NoWindow}, b \in Windows \cup {NoWindow} : CopiesTo(link, a, b)
    BY DEF LinksInv, TwoCopies
  <2> QED
    BY <2>1, <2>2 DEF LinksInv, CopiesTo, One
<1> QED
  BY <1>1, <1>2, <1>3, TypeCorrect, PTL DEF Spec
-----------------------------------------------------------------------------
(* A relaunch is never left without a stopServices() that goes on, and an  *)
(* app that closes has a window to close.                                  *)
EndGoesOn ==
  app \notin Ended =>
    /\ "relaunch" \in waiting => stopping # "nothing"
    /\ app = "closing" => open # {}

(* Nothing is stopped, and no window opens, before the start is over.      *)
StartsClean == app = "loading" => stopping = "nothing" /\ open = {}

EndInv == EndGoesOn /\ StartsClean

(* Whoever stops the services finds a call under way or makes one.         *)
LEMMA StopBegins ==
  ASSUME EndInv, app \notin Ended, StopServices
  PROVE  stopping' # "nothing"
BY DEF EndInv, EndGoesOn, StopServices, services

LEMMA QuitGoesOn ==
  ASSUME EndInv, app \in {"loading", "running"}, Quit
  PROVE  EndInv'
<1>1. stopping' # "nothing"
  BY StopBegins DEF Quit, Ended
<1>2. app' # "loading" /\ (app' = "closing" => open' # {})
  BY DEF Quit
<1> QED
  BY <1>1, <1>2 DEF EndInv, EndGoesOn, StartsClean

LEMMA EndStep == ASSUME EndInv, [Next]_vars PROVE EndInv'
<1> USE DEF EndInv, EndGoesOn, StartsClean, Ended
<1>1. CASE HealthOk \/ HealthFails \/ DaemonExits
  BY <1>1 DEF HealthOk, HealthFails, DaemonExits, registryVars
<1>2. CASE ServicesStarted \/ ServicesFail
  BY <1>2 DEF ServicesStarted, ServicesFail, services, registryVars
<1>3. CASE DaemonStopped
  BY <1>3 DEF DaemonStopped, StopTimesOut, registryVars
<1>4. CASE WindowsRestored
  BY <1>4 DEF WindowsRestored, services
<1>5. CASE WindowOpens \/ WindowFocused \/ LinkOrPage
  BY <1>5 DEF WindowOpens, WindowFocused, Focus, LinkOrPage, services, registryVars
<1>6. CASE ServicesStopped
  BY <1>6 DEF ServicesStopped, windows
<1>7. CASE Relaunch \/ KillSidecar
  <2>1. app = "running" /\ app' = "running"
    BY <1>7 DEF Relaunch, KillSidecar
  <2>2. stopping' # "nothing"
    BY <1>7, <2>1, StopBegins DEF Relaunch, KillSidecar
  <2> QED
    BY <2>1, <2>2
<1>8. CASE UserQuits \/ \E who \in {"signal", "restart"} : WaitedQuits(who)
  BY <1>8, QuitGoesOn DEF UserQuits, WaitedQuits
<1>9. CASE Signal
  <2>1. CASE ~HasWsl
    BY <1>9, <2>1, QuitGoesOn DEF Signal
  <2>2. CASE HasWsl
    BY <1>9, <2>2 DEF Signal, windows, services
  <2> QED
    BY <2>1, <2>2
<1>10. CASE PrepareToRestart \/ RestartBegins \/ UpdateFails \/ SessionEnd
  BY <1>10 DEF PrepareToRestart, RestartBegins, UpdateFails, SessionEnd, services, windows,
               registryVars
<1>11. ASSUME NEW id \in Windows, UserCloses(id) PROVE EndInv'
  <2>1. app = "running"
    BY <1>11 DEF UserCloses
  <2>2. CASE Quit
    BY <2>1, <2>2, QuitGoesOn
  <2>3. CASE UNCHANGED <<app, services, waiting>>
    BY <2>1, <2>3 DEF services
  <2> QED
    BY <1>11, <2>2, <2>3 DEF UserCloses
<1>12. ASSUME NEW id \in Windows, QuitCloses(id) PROVE EndInv'
  <2>1. app = "closing" /\ open' = open \ {id} /\ waiting' = waiting
    BY <1>12 DEF QuitCloses, Closed
  <2>2. CASE open = {id}
    BY <1>12, <2>2 DEF QuitCloses
  <2>3. CASE open # {id}
    <3>1. open' # {} /\ UNCHANGED <<app, services>>
      BY <1>12, <2>1, <2>3 DEF QuitCloses
    <3> QED
      BY <2>1, <3>1 DEF services
  <2> QED
    BY <2>2, <2>3
<1>13. CASE Crash \/ Launch
  BY <1>13 DEF Crash, Launch, Forgets, NoWindows
<1>14. CASE UNCHANGED vars
  BY <1>14 DEF vars, services, windows
<1> QED
  BY <1>1, <1>2, <1>3, <1>4, <1>5, <1>6, <1>7, <1>8, <1>9, <1>10, <1>11, <1>12, <1>13, <1>14
  DEF Next, Closing

(* What ends the app goes on, in whatever order relaunches, quits, signals *)
(* and updates come: the safety half of RelaunchEnds.  A relaunch that     *)
(* finds stopServices() under way joins it and is not forgotten by it.     *)
THEOREM NoEndIsStuck == Spec => []EndGoesOn
<1>1. Init => EndInv
  BY DEF Init, EndInv, EndGoesOn, StartsClean
<1>2. EndInv /\ [Next]_vars => EndInv'
  BY EndStep
<1>3. EndInv => EndGoesOn
  BY DEF EndInv
<1> QED
  BY <1>1, <1>2, <1>3, PTL DEF Spec

=============================================================================
