------------------------------ MODULE DeepLinks ------------------------------
(***************************************************************************)
(* Deep links between the main process and the windows: emitDeepLinks and  *)
(* consumeInitialDeepLinks (packages/desktop/src/main/index.ts) and the    *)
(* renderer's listenForDeepLinks (renderer/index.tsx).  A link is queued   *)
(* for the next page that asks, and sent to the window focused last.       *)
(***************************************************************************)
EXTENDS WindowRegistry, Naturals

CONSTANT Links   \* the deep links the app is opened with

VARIABLES
  pages,     \* per window: how far its page has loaded
  pending,   \* pendingDeepLinks
  sent,      \* per window and link: copies on their way to the page
  arrived,   \* history: the links received since launch
  seen,      \* history: how often a page was handed each link
  lost       \* history: the links a window took with it when it went

linkVars == <<pages, pending, sent, arrived, seen, lost>>

(* A page that has not run its script has no listener; one that "asks" has *)
(* called consumeInitialDeepLinks and set its listener in the same turn.   *)
PageStates == {"none", "loading", "asking", "listening"}

NoCopies == [link \in Links |-> 0]

-----------------------------------------------------------------------------
(* sendDeepLinks to the window focused last: a page without a listener     *)
(* drops the message.                                                      *)
SentToFocused(link) ==
  [window \in Windows |->
     IF window = lastFocused /\ pages[window] \in {"asking", "listening"}
     THEN [sent[window] EXCEPT ![link] = @ + 1]
     ELSE sent[window]]

(* Mutant of Emitted: a link is queued only when there is no window.       *)
EmittedOnce(link) ==
  /\ pending' = IF lastFocused = NoWindow THEN pending \cup {link} ELSE pending
  /\ sent' = SentToFocused(link)

Emitted(link) ==
  /\ pending' = pending \cup {link}
  /\ sent' = SentToFocused(link)

(* "open-url", or "second-instance" with a link among its arguments.       *)
Receive(link) ==
  /\ link \notin arrived
  /\ arrived' = arrived \cup {link}
  /\ Emitted(link)
  /\ UNCHANGED <<pages, seen, lost>>

(* The page's script runs.                                                 *)
Asks(window) ==
  /\ pages[window] = "loading"
  /\ pages' = [pages EXCEPT ![window] = "asking"]
  /\ UNCHANGED <<pending, sent, arrived, seen, lost>>

(* consumeInitialDeepLinks answers with the whole queue and empties it.    *)
Consume(window) ==
  /\ pages[window] = "asking"
  /\ pages' = [pages EXCEPT ![window] = "listening"]
  /\ sent' = [sent EXCEPT ![window] =
                [link \in Links |-> IF link \in pending THEN @[link] + 1 ELSE @[link]]]
  /\ pending' = {}
  /\ UNCHANGED <<arrived, seen, lost>>

(* The page is handed a link.                                              *)
Handle(window, link) ==
  /\ sent[window][link] > 0
  /\ sent' = [sent EXCEPT ![window][link] = @ - 1]
  /\ seen' = [seen EXCEPT ![link] = @ + 1]
  /\ UNCHANGED <<pages, pending, arrived, lost>>

(* The page of a window goes, with what was on its way to it.              *)
PageGoes(window, next) ==
  /\ pages' = [pages EXCEPT ![window] = next]
  /\ sent' = [sent EXCEPT ![window] = NoCopies]
  /\ lost' = lost \cup {link \in Links : sent[window][link] > 0}
  /\ UNCHANGED <<pending, arrived, seen>>

(* "view.reload".                                                          *)
Reload(window) == pages[window] \in {"asking", "listening"} /\ PageGoes(window, "loading")

(* New windows begin to load; a new process has none, and no links.        *)
PagesOpen(windows) ==
  /\ pages' = [w \in Windows |-> IF w \in windows THEN "loading" ELSE pages[w]]
  /\ UNCHANGED <<pending, sent, arrived, seen, lost>>

NoPages ==
  /\ pages' = [w \in Windows |-> "none"]
  /\ pending' = {}
  /\ sent' = [w \in Windows |-> NoCopies]
  /\ arrived' = {}
  /\ seen' = NoCopies
  /\ lost' = {}

(* A link the app has received is never dropped between the queue and the  *)
(* windows, whatever loads, reloads and closes meanwhile: a page is handed *)
(* it, or it is still queued or on its way, or it went with a window.  And *)
(* although it is both queued and sent, pages are handed it twice at most: *)
(* by the window it was sent to, and by the page that found it queued.     *)
LinksAccountedFor ==
  \A link \in Links :
    /\ link \in arrived => \/ seen[link] > 0
                            \/ link \in pending \cup lost
                            \/ \E window \in Windows : sent[window][link] > 0
    /\ seen[link] <= 2

=============================================================================
