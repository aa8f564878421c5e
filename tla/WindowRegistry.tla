---------------------------- MODULE WindowRegistry ----------------------------
(***************************************************************************)
(* The open windows of the desktop app and the list of window ids kept for *)
(* the next launch (packages/desktop/src/main/window-registry.ts), with    *)
(* the calls windows.ts makes.  Electron calls back synchronously, so an   *)
(* operator below is one turn of the main process; DesktopApp says when.   *)
(***************************************************************************)
EXTENDS FiniteSets

CONSTANTS
  Windows,    \* window ids
  NoWindow    \* undefined

ASSUME WindowsAssumption == NoWindow \notin Windows

VARIABLES
  open,         \* the windows Map (which of its keys is the first is left open)
  quitting,     \* the flag that keeps ids when windows close
  lastFocused,  \* the window that had the focus last
  persisted,    \* the stored ids: what the next launch restores
  wished,       \* history: windows the user left open
  either        \* history: windows closed when it is the code's choice

registryVars == <<open, quitting, lastFocused, persisted, wished, either>>

-----------------------------------------------------------------------------
(* register() of new windows.                                              *)
Register(ids) ==
  /\ open' = open \cup ids
  /\ persisted' = persisted \cup ids

(* What stays stored of a closed window.  Mutant: the flag is forgotten.   *)
KeptIfLast(id) == IF open = {id} THEN persisted ELSE persisted \ {id}

Kept(id) == IF quitting \/ open = {id} THEN persisted ELSE persisted \ {id}

(* closed(): the focus falls back to a window that is left.                *)
Closed(id) ==
  /\ id \in open
  /\ open' = open \ {id}
  /\ lastFocused' \in IF lastFocused # id THEN {lastFocused}
                      ELSE IF open = {id} THEN {NoWindow} ELSE open \ {id}
  /\ persisted' = Kept(id)

Focus(id) ==
  /\ id \in open \ {lastFocused}
  /\ lastFocused' = id
  /\ UNCHANGED <<open, quitting, persisted, wished, either>>

(* "window.new": a window with a fresh id.                                 *)
New(id) ==
  /\ id \notin persisted
  /\ Register({id})
  /\ wished' = wished \cup {id}
  /\ UNCHANGED <<quitting, lastFocused, either>>

(* restoreMainWindows(): the stored ids, or one fresh window.              *)
Restore ==
  /\ \E ids \in IF persisted = {} THEN {{id} : id \in Windows} ELSE {persisted} :
       Register(ids) /\ wished' = ids
  /\ either' = {}
  /\ UNCHANGED <<quitting, lastFocused>>

(* A new process has no windows.                                           *)
NoWindows ==
  /\ open' = {}
  /\ quitting' = FALSE
  /\ lastFocused' = NoWindow
  /\ UNCHANGED <<persisted, wished, either>>

(* What the next launch will restore is what the user left open: no quit,  *)
(* restart, failed update or crash makes the app forget a window or bring  *)
(* back one that was closed on purpose.                                    *)
RestoresWhatWasOpen == wished \subseteq persisted /\ persisted \subseteq wished \cup either

=============================================================================
