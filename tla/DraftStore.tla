------------------------------ MODULE DraftStore ------------------------------
(***************************************************************************)
(* Where the drafts of the prompt input and their attachments are kept:     *)
(* packages/desktop/src/main/draft-store.ts with its users in main/ipc.ts,  *)
(* and createBrowserDraftStore of packages/app/src/utils/draft-store.ts.    *)
(* The desktop buffers documents for half a second and writes blobs at      *)
(* once; the browser writes both at once.  Either deletes, when it opens,   *)
(* the blobs no document on disk refers to.                                 *)
(***************************************************************************)
EXTENDS Naturals

CONSTANTS Pages,        \* loads of the client's page; a reload is another
          Keys,         \* names of documents
          Blobs,        \* attachments, by the hash that names them
          NoBlob,       \* the mark of a document without attachment
          NoDoc,        \* the mark of a key without document
          Hosts,        \* among "desktop" and "browser"
          MaxWrites     \* bound on the documents written

ASSUME DraftAssumption == /\ MaxWrites \in Nat
                          /\ Hosts \subseteq {"desktop", "browser"}
                          /\ NoBlob \notin Blobs

(* A document: its place among all writes, the page that wrote it, and the *)
(* attachment it refers to.                                                *)
Docs == [n : 0..MaxWrites, by : Pages, blob : Blobs \cup {NoBlob}]

ASSUME NoDocIsNone == NoDoc \notin Docs

VARIABLES
  host,       \* which of the two stores this is
  main,       \* the process that holds the store, see Lives
  doc,        \* the documents on disk
  blob,       \* the blobs on disk
  pending,    \* documents buffered by the desktop, NoDoc for a deletion
  timer       \* whether a flush is scheduled

Lives == {"up", "quitting", "ended", "crashed"}

store == <<host, main, doc, blob, pending, timer>>

Refs(d) == IF d = NoDoc THEN {} ELSE {d.blob} \ {NoBlob}

(* What get returns for a key. *)
Current(k) == IF k \in DOMAIN pending THEN pending[k] ELSE doc[k]

(* The blobs some document on disk refers to. *)
Used == UNION {Refs(doc[k]) : k \in Keys}

Collect == blob' = blob \cap Used

Nothing == [k \in {} |-> NoDoc]

(* The documents after a flush: all of the buffer in one transaction. *)
Flushed == [k \in Keys |-> Current(k)]

Flush == /\ doc' = Flushed
         /\ pending' = Nothing
         /\ timer' = FALSE

(* Mutant: a write schedules nothing. *)
NotScheduled == timer

(* schedule: a timer runs, the one that did or a new one. *)
Scheduled == TRUE

(* The driver's set: the desktop buffers and schedules a flush unless one  *)
(* is; the browser writes.                                                 *)
Set(k, d) ==
  IF host = "desktop"
    THEN /\ pending' = [x \in DOMAIN pending \cup {k} |-> IF x = k THEN d ELSE pending[x]]
         /\ timer' = Scheduled
         /\ UNCHANGED doc
    ELSE /\ doc' = [doc EXCEPT ![k] = d]
         /\ UNCHANGED <<pending, timer>>

PutBlob(b) == blob' = blob \cup {b}

StoreInit ==
  /\ host \in Hosts
  /\ main = IF host = "desktop" THEN "ended" ELSE "up"
  /\ doc = [k \in Keys |-> NoDoc]
  /\ blob = {}
  /\ pending = Nothing
  /\ timer = FALSE

(***************************************************************************)
(* The desktop's main process.  Its pages are of no interest here: see     *)
(* DraftPages, which ends them where the process ends.                     *)
(***************************************************************************)
Start == /\ main \in {"ended", "crashed"}
         /\ Collect
         /\ main' = "up"
         /\ UNCHANGED <<host, doc, pending, timer>>

(* Mutant: the timer writes one document of the buffer. *)
TimerWritesOne ==
  /\ timer
  /\ LET k == CHOOSE x \in Keys : x \in DOMAIN pending
     IN  doc' = [doc EXCEPT ![k] = Current(k)]
  /\ pending' = Nothing
  /\ timer' = FALSE
  /\ UNCHANGED <<host, main, blob>>

TimerFires == /\ timer
              /\ Flush
              /\ UNCHANGED <<host, main, blob>>

(* The transaction of a flush throws, the timer's, session-end's or        *)
(* before-quit's, which holds no quit up: the buffer was emptied before it. *)
FlushFails == /\ timer
              /\ pending' = Nothing
              /\ timer' = FALSE
              /\ \/ UNCHANGED main
                 \/ main = "up" /\ main' = "quitting"
              /\ UNCHANGED <<host, doc, blob>>

(* Windows ends the session of its user: a flush, and then the end. *)
SessionEnds == /\ host = "desktop" /\ main = "up"
               /\ Flush
               /\ UNCHANGED <<host, main, blob>>

BeforeQuit == /\ host = "desktop" /\ main = "up"
              /\ Flush
              /\ main' = "quitting"
              /\ UNCHANGED <<host, blob>>

(* Mutant: a quit that trusts the flush of before-quit. *)
WillQuitUnflushed == /\ main = "quitting"
                     /\ main' = "ended"
                     /\ pending' = Nothing
                     /\ timer' = FALSE
                     /\ UNCHANGED <<host, doc, blob>>

(* will-quit: the last windows are gone; close flushes once more. *)
WillQuit == /\ main = "quitting"
            /\ Flush
            /\ main' = "ended"
            /\ UNCHANGED <<host, blob>>

(* The process is killed, or ends with a last flush that throws. *)
Crash == /\ host = "desktop" /\ main \in {"up", "quitting"}
         /\ main' = "crashed"
         /\ pending' = Nothing
         /\ timer' = FALSE
         /\ UNCHANGED <<host, doc, blob>>

=============================================================================
