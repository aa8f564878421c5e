----------------------------- MODULE RefreshQueue -----------------------------
(***************************************************************************)
(* The directories the app shows, and the queue that loads them anew       *)
(* (packages/app/src/context/global-sync/queue.ts and child-store.ts, and  *)
(* bootstrapInstance of server-sync.tsx).                                  *)
(*                                                                         *)
(* A directory is queued once; a timer starts the drain, an async loop     *)
(* that takes a few directories, awaits their loads and yields.  A load    *)
(* already in flight is joined.  Nothing is taken while a configuration    *)
(* update is pending.  The errors of a load are shown and end it like any  *)
(* load.  refresh() of the queue has no caller and is left out, and so are *)
(* the directories whose store is read but that no page shows.             *)
(***************************************************************************)
EXTENDS Naturals, FiniteSets, Sequences, SequencesExt

CONSTANTS
  Dirs,      \* the directories
  TakeCount  \* the number of directories drain() takes at once

ASSUME QueueAssumption == TakeCount \in Nat \ {0}

VARIABLES
  pending,    \* the keys of `queued', in order
  scheduled,  \* the timer of the drain is set
  drain,      \* where the drain is
  awaiting,   \* the directories whose loads it awaits
  paused,     \* a configuration update is pending
  active,     \* the directories the pages show (activeDirectories)
  loads,      \* a directory's load: its status is "loading", it is in
              \* flight (booting), or it is over
  stale,      \* history: shown when the stream was opened, not loaded since
  joined,     \* history: stale, and the load it waits for began before
  missed      \* history: a push or the drain met an update and went away

queueVars == <<pending, scheduled, drain, awaiting, paused, active, loads,
               stale, joined, missed>>

Busy(d) == loads[d] = "busy"

(* queued.set: a key that is there keeps its place.                        *)
Enqueue(keys, d) == IF Contains(keys, d) THEN keys ELSE Append(keys, d)
EnqueueAll(keys, dirs) == FoldLeft(Enqueue, keys, dirs)

(* queued.delete of each of dirs.                                          *)
Without(keys, dirs) ==
  FoldLeft(LAMBDA kept, d : IF d \in dirs THEN kept ELSE Append(kept, d), <<>>, keys)

-----------------------------------------------------------------------------
(* bootstrapInstance for each of dirs.                                     *)
bootstrap(dirs) ==
  LET new == {d \in dirs : ~Busy(d)}
  IN /\ loads' = [d \in Dirs |-> IF d \in dirs THEN "busy" ELSE loads[d]]
     /\ stale' = stale \ new
     /\ joined' = (joined \ new) \cup (stale \cap (dirs \ new))

(* A turn of drain()'s loop, and its end: it goes away when an update is   *)
(* pending or nothing is left.                                             *)
Turn ==
  \/ /\ paused
     /\ drain' = "idle"
     /\ missed' = (missed \/ pending # <<>>)
     /\ UNCHANGED <<pending, awaiting, loads, stale, joined>>
  \/ /\ ~paused /\ pending = <<>>
     /\ drain' = "idle"
     /\ UNCHANGED <<pending, awaiting, loads, stale, joined, missed>>
  \/ /\ ~paused /\ pending # <<>>
     /\ LET dirs == {pending[i] : i \in {j \in DOMAIN pending : j <= TakeCount}}
        IN /\ pending' = SubSeq(pending, TakeCount + 1, Len(pending))
           /\ bootstrap(dirs)
           /\ awaiting' = dirs
     /\ drain' = "loading"
     /\ missed' = FALSE

(* The timer of schedule().                                                *)
DrainStarts ==
  /\ scheduled
  /\ scheduled' = FALSE
  /\ IF drain = "idle" THEN Turn
     ELSE UNCHANGED <<pending, drain, awaiting, loads, stale, joined, missed>>
  /\ UNCHANGED <<paused, active>>

(* Mutant of Ticked: one batch a timer.                                    *)
TickedOut ==
  /\ drain = "ticking"
  /\ drain' = "idle"
  /\ UNCHANGED <<pending, scheduled, awaiting, paused, active, loads, stale, joined, missed>>

Ticked ==
  /\ drain = "ticking"
  /\ Turn
  /\ UNCHANGED <<scheduled, paused, active>>

(* A load ends; the drain goes on, a tick later, when its last one has.    *)
LoadEnds(d) ==
  /\ Busy(d)
  /\ loads' = [loads EXCEPT ![d] = "done"]
  /\ awaiting' = awaiting \ {d}
  /\ drain' = IF drain = "loading" /\ awaiting' = {} THEN "ticking" ELSE drain
  /\ UNCHANGED <<pending, scheduled, paused, active, stale, joined, missed>>

-----------------------------------------------------------------------------
(* push() of each of dirs.                                                 *)
push(dirs) ==
  /\ pending' = EnqueueAll(pending, dirs)
  /\ IF dirs = <<>> THEN UNCHANGED <<scheduled, missed>>
     ELSE /\ scheduled' = (scheduled \/ ~paused)
          /\ missed' = (paused /\ (missed \/ (~scheduled /\ drain = "idle")))
  /\ UNCHANGED <<drain, awaiting, paused, active, loads>>

(* updateConfig is called, and settles.                                    *)
Pauses  == ~paused /\ paused' = TRUE
Resumes == paused /\ paused' = FALSE

UpdateConfig ==
  /\ Pauses \/ Resumes
  /\ UNCHANGED <<pending, scheduled, drain, awaiting, active, loads, stale, joined, missed>>

(* child(): a page shows the directory; one that was never loaded is       *)
(* loaded at once if the client is connected.                              *)
Open(d, online) ==
  /\ d \notin active \/ (loads[d] = "none" /\ online)
  /\ active' = active \cup {d}
  /\ IF loads[d] = "none" /\ online THEN bootstrap({d})
     ELSE UNCHANGED <<loads, stale, joined>>
  /\ UNCHANGED <<pending, scheduled, drain, awaiting, paused, missed>>

(* disposeDirectory: no page holds the directory, and it is not being      *)
(* loaded.                                                                 *)
dispose(dirs) ==
  /\ active' = active \ dirs
  /\ loads' = [d \in Dirs |-> IF d \in dirs THEN "none" ELSE loads[d]]
  /\ pending' = Without(pending, dirs)
  /\ stale' = stale \ dirs
  /\ joined' = joined \ dirs
  /\ UNCHANGED <<drain, awaiting, paused, missed>>

(* Mutant of Evict: a load in flight does not hold the directory.          *)
EvictAnyway(d) ==
  /\ d \in active
  /\ dispose({d})
  /\ UNCHANGED scheduled

Evict(d) ==
  /\ d \in active /\ ~Busy(d)
  /\ dispose({d})
  /\ UNCHANGED scheduled

QueueInit ==
  /\ pending = <<>> /\ scheduled = FALSE /\ drain = "idle" /\ awaiting = {}
  /\ paused = FALSE
  /\ active = {} /\ loads = [d \in Dirs |-> "none"]
  /\ stale = {} /\ joined = {} /\ missed = FALSE

(* The queue's state: no directory is queued twice, the drain awaits loads *)
(* in flight only, and at least one, and what is stale is shown.           *)
QueueTypeOK ==
  /\ pending \in Seq(Dirs) /\ \A i, j \in DOMAIN pending : pending[i] = pending[j] => i = j
  /\ scheduled \in BOOLEAN /\ paused \in BOOLEAN /\ missed \in BOOLEAN
  /\ drain \in {"idle", "loading", "ticking"}
  /\ awaiting \subseteq {d \in Dirs : Busy(d)} /\ (drain = "loading" => awaiting # {})
  /\ active \subseteq Dirs
  /\ loads \in [Dirs -> {"none", "busy", "done"}]
  /\ stale \subseteq active /\ joined \subseteq stale

=============================================================================
