------------------------------ MODULE DraftPages ------------------------------
(***************************************************************************)
(* The client's side of the drafts: createDraftStore of packages/app/src/   *)
(* utils/draft-store.ts, which numbers the writes of a key and drops the    *)
(* overtaken ones, and the loading of a draft in utils/persist.ts, which    *)
(* may rewrite what it reads or move it from an older store while the user  *)
(* types.  Several pages share one store.                                   *)
(***************************************************************************)
EXTENDS DraftStore

VARIABLES
  page,       \* each load of the page: "new", "open", "gone"
  refs,       \* the blobs a page's memory refers to
  versions,   \* createDraftStore's count of the calls for a key
  inflight,   \* the writes being encoded, see Write
  load,       \* the loading of a draft, see Stages
  found,      \* what the loading has read
  latest,     \* draftLatest: the last write of the user since the load began
  legacy,     \* keys an older store still has a draft of
  writes,     \* the number of writes so far
  said,       \* history: the place of a page's last call for a key
  excused,    \* history: words a failed flush or a load's rewrite has undone
  swept       \* history: blobs collected under another open page

pages == <<page, refs, versions, inflight, load, found, latest, legacy, writes,
           said, excused, swept>>

vars == <<store, pages>>

Stages == {"none", "reading", "migrating", "done"}

(* A write on its way: raw while its attachment is a data URL still to be  *)
(* put, from the user or from the loading of the draft.                    *)
Write == [page : Pages, key : Keys, version : Nat, doc : Docs, raw : BOOLEAN,
          from : {"user", "load"}]

Running == main \in {"up", "quitting"}

Open(w) == page[w] = "open" /\ Running

Of(w, k) == {r \in inflight : r.page = w /\ r.key = k}

(* setItem, up to its first await. *)
SetItem(w, k, d, raw, from) ==
  /\ versions' = [versions EXCEPT ![w][k] = @ + 1]
  /\ inflight' = inflight \cup
       {[page |-> w, key |-> k, version |-> versions[w][k] + 1, doc |-> d,
         raw |-> raw, from |-> from]}

Init ==
  /\ StoreInit
  /\ page = [w \in Pages |-> "new"]
  /\ refs = [w \in Pages |-> {}]
  /\ versions = [w \in Pages |-> [k \in Keys |-> 0]]
  /\ inflight = {}
  /\ load = [w \in Pages |-> [k \in Keys |-> "none"]]
  /\ found = [w \in Pages |-> [k \in Keys |-> NoDoc]]
  /\ latest = [w \in Pages |-> [k \in Keys |-> NoDoc]]
  /\ legacy \in SUBSET Keys
  /\ writes = 0
  /\ said = [w \in Pages |-> [k \in Keys |-> 0]]
  /\ excused = {}
  /\ swept = {}

(* A page opens; in the browser this opens, and collects, the store. *)
OpenPage(w) ==
  /\ page[w] = "new" /\ main = "up"
  /\ page' = [page EXCEPT ![w] = "open"]
  /\ IF host = "browser"
       THEN /\ Collect
            /\ swept' = IF \E v \in Pages : page[v] = "open"
                          THEN swept \cup (blob \ Used) ELSE swept
       ELSE UNCHANGED <<blob, swept>>
  /\ UNCHANGED <<host, main, doc, pending, timer, refs, versions, inflight, load,
                 found, latest, legacy, writes, said, excused>>

(* A page is closed, reloaded or gone, with what it holds and encodes. *)
Without(f, ws, v) == [w \in Pages |-> IF w \in ws THEN [k \in Keys |-> v] ELSE f[w]]

Closed(ws) ==
  /\ page' = [w \in Pages |-> IF w \in ws THEN "gone" ELSE page[w]]
  /\ refs' = [w \in Pages |-> IF w \in ws THEN {} ELSE refs[w]]
  /\ inflight' = {r \in inflight : r.page \notin ws}
  /\ versions' = Without(versions, ws, 0)
  /\ load' = Without(load, ws, "none")
  /\ found' = Without(found, ws, NoDoc)
  /\ latest' = Without(latest, ws, NoDoc)
  /\ said' = Without(said, ws, 0)
  /\ excused' = {o \in excused : o[1] \notin ws}
  /\ UNCHANGED <<legacy, writes, swept>>

ClosePage(w) == Open(w) /\ Closed({w}) /\ UNCHANGED store

(* An attachment is put before the prompt that refers to it is set. *)
Attach(w, b) ==
  /\ Open(w)
  /\ PutBlob(b)
  /\ refs' = [refs EXCEPT ![w] = @ \cup {b}]
  /\ UNCHANGED <<host, main, doc, pending, timer, page, versions, inflight, load,
                 found, latest, legacy, writes, said, excused, swept>>

(* The user's change of a draft: with an attachment the page refers to, or *)
(* with a data URL taken from a message.                                   *)
Type(w, k, b, raw) ==
  /\ Open(w) /\ load[w][k] # "none" /\ writes < MaxWrites
  /\ b \in IF raw THEN Blobs ELSE refs[w] \cup {NoBlob}
  /\ LET d == [n |-> writes + 1, by |-> w, blob |-> b]
     IN  /\ SetItem(w, k, d, raw, "user")
         /\ latest' = [latest EXCEPT ![w][k] = [doc |-> d, raw |-> raw]]
  /\ writes' = writes + 1
  /\ said' = [said EXCEPT ![w][k] = writes + 1]
  /\ excused' = excused \ {<<w, k>>}
  /\ UNCHANGED <<store, page, refs, load, found, legacy, swept>>

(* Mutant: removing a draft does not count as a call. *)
Forget(w, k) == UNCHANGED versions

(* What a removal does to the writes on their way. *)
Supersede(w, k) == versions' = [versions EXCEPT ![w][k] = @ + 1]

RemoveItem(w, k) ==
  /\ Open(w) /\ writes < MaxWrites
  /\ Supersede(w, k)
  /\ Set(k, NoDoc)
  /\ writes' = writes + 1
  /\ said' = [said EXCEPT ![w][k] = writes + 1]
  /\ excused' = excused \ {<<w, k>>}
  /\ UNCHANGED <<host, main, blob, page, refs, inflight, load, found, latest, legacy,
                 swept>>

(* A write's attachment, put by the encoding. *)
PutRaw(r) ==
  /\ r \in inflight /\ Open(r.page) /\ r.raw
  /\ PutBlob(r.doc.blob)
  /\ inflight' = (inflight \ {r}) \cup {[r EXCEPT !.raw = FALSE]}
  /\ UNCHANGED <<host, main, doc, pending, timer, page, refs, versions, load, found,
                 latest, legacy, writes, said, excused, swept>>

(* Mutant: an encoding does not wait for its attachment. *)
Ready(r) == TRUE

(* An encoding is complete when its attachment, if any, has an id. *)
IsEncoded(r) == ~r.raw

(* The encoded write is passed on, unless the key was called again. *)
Encoded(r) ==
  /\ r \in inflight /\ Open(r.page) /\ IsEncoded(r)
  /\ IF versions[r.page][r.key] = r.version THEN Set(r.key, r.doc)
                                            ELSE UNCHANGED <<doc, pending, timer>>
  /\ inflight' = inflight \ {r}
  /\ UNCHANGED <<host, main, blob, page, refs, versions, load, found, latest, legacy,
                 writes, said, excused, swept>>

(* The first use of a draft on a page asks for it. *)
StartLoad(w, k) ==
  /\ Open(w) /\ load[w][k] = "none"
  /\ load' = [load EXCEPT ![w][k] = "reading"]
  /\ found' = [found EXCEPT ![w][k] = Current(k)]
  /\ UNCHANGED <<store, page, refs, versions, inflight, latest, legacy, writes, said,
                 excused, swept>>

(* readCurrentAsync finds a draft, and writes it again when completing it  *)
(* with the defaults has changed its text.  It removes nothing here: what  *)
(* the draft store's getItem returns is JSON, so normalize() has a result. *)
ReadCurrent(w, k) ==
  LET d == found[w][k] IN
  /\ Open(w) /\ load[w][k] = "reading" /\ d # NoDoc
  /\ load' = [load EXCEPT ![w][k] = "done"]
  /\ found' = [found EXCEPT ![w][k] = NoDoc]
  /\ refs' = [refs EXCEPT ![w] = @ \cup Refs(d)]
  /\ \/ UNCHANGED <<versions, inflight, said, excused>>
     \/ /\ SetItem(w, k, [d EXCEPT !.by = w], FALSE, "load")
        /\ IF latest[w][k] = NoDoc
             THEN said' = [said EXCEPT ![w][k] = d.n] /\ UNCHANGED excused
             ELSE excused' = excused \cup {<<w, k>>} /\ UNCHANGED said
  /\ UNCHANGED <<store, page, latest, legacy, writes, swept>>

(* migrateLegacyAsync looks for the draft in the older stores. *)
LookUp(w, k) ==
  /\ Open(w) /\ load[w][k] = "reading" /\ found[w][k] = NoDoc
  /\ load' = [load EXCEPT ![w][k] = "migrating"]
  /\ \/ /\ k \notin legacy
        /\ UNCHANGED <<versions, inflight, said>>
     \/ /\ k \in legacy
        /\ \E b \in Blobs \cup {NoBlob} :
             SetItem(w, k, [n |-> 0, by |-> w, blob |-> b], b # NoBlob, "load")
        /\ said' = IF latest[w][k] = NoDoc THEN [said EXCEPT ![w][k] = 0] ELSE said
  /\ UNCHANGED <<store, page, refs, found, latest, legacy, writes, excused, swept>>

(* Mutant: what the user wrote meanwhile is not written again. *)
LeaveAsIs(w, k) == UNCHANGED <<versions, inflight, said>>

(* After a migration: what the user wrote meanwhile is written again. *)
WriteAgain(w, k) ==
  IF latest[w][k] = NoDoc
    THEN UNCHANGED <<versions, inflight, said>>
    ELSE /\ SetItem(w, k, latest[w][k].doc, latest[w][k].raw, "load")
         /\ said' = [said EXCEPT ![w][k] = latest[w][k].doc.n]

Migrated(w, k) ==
  /\ Open(w) /\ load[w][k] = "migrating"
  /\ \A r \in Of(w, k) : r.from # "load"
  /\ legacy' = legacy \ {k}
  /\ WriteAgain(w, k)
  /\ refs' = [refs EXCEPT ![w] = @ \cup Refs(Current(k))]
  /\ load' = [load EXCEPT ![w][k] = "done"]
  /\ UNCHANGED <<store, page, found, latest, writes, excused, swept>>

(* The main process, with what its end means for the pages. *)
Idle == UNCHANGED pages
AllGone == Closed({w \in Pages : page[w] = "open"})

(* The buffer a failed flush has emptied held these words. *)
Undone == /\ excused' = excused \cup {o \in Pages \X Keys :
                                        page[o[1]] = "open" /\ o[2] \in DOMAIN pending}
          /\ UNCHANGED <<page, refs, versions, inflight, load, found, latest, legacy,
                         writes, said, swept>>

Main == \/ Start /\ Idle
        \/ TimerFires /\ Idle
        \/ FlushFails /\ Undone
        \/ SessionEnds /\ Idle
        \/ BeforeQuit /\ Idle
        \/ WillQuit /\ (\A w \in Pages : page[w] # "open") /\ Idle
        \/ Crash /\ AllGone

Loading(w, k) == ReadCurrent(w, k) \/ LookUp(w, k) \/ Migrated(w, k)

Encoding(w) == \E r \in inflight : r.page = w /\ (PutRaw(r) \/ Encoded(r))

Next ==
  \/ Main
  \/ \E w \in Pages :
       \/ OpenPage(w) \/ ClosePage(w)
       \/ \E b \in Blobs : Attach(w, b)
       \/ \E k \in Keys :
            \/ StartLoad(w, k) \/ Loading(w, k) \/ RemoveItem(w, k)
            \/ \E b \in Blobs \cup {NoBlob}, raw \in BOOLEAN : Type(w, k, b, raw)
       \/ Encoding(w)

Spec == Init /\ [][Next]_vars

(* A timer fires, and a page's promises resolve. *)
FairSpec ==
  /\ Spec
  /\ WF_vars(TimerFires /\ Idle)
  /\ \A w \in Pages : WF_vars(Encoding(w))
  /\ \A w \in Pages, k \in Keys : WF_vars(Loading(w, k))

-----------------------------------------------------------------------------
TypeOK ==
  /\ host \in Hosts /\ main \in Lives
  /\ doc \in [Keys -> Docs \cup {NoDoc}]
  /\ blob \subseteq Blobs
  /\ DOMAIN pending \subseteq Keys
  /\ \A k \in DOMAIN pending : pending[k] \in Docs \cup {NoDoc}
  /\ timer = (pending # Nothing)
  /\ host = "browser" => main = "up" /\ pending = Nothing
  /\ page \in [Pages -> {"new", "open", "gone"}]
  /\ refs \in [Pages -> SUBSET Blobs]
  /\ versions \in [Pages -> [Keys -> Nat]]
  /\ inflight \subseteq Write
  /\ \A r \in inflight : page[r.page] = "open"
  /\ load \in [Pages -> [Keys -> Stages]]
  /\ found \in [Pages -> [Keys -> Docs \cup {NoDoc}]]
  /\ latest \in [Pages -> [Keys -> [doc : Docs, raw : BOOLEAN] \cup {NoDoc}]]
  /\ legacy \subseteq Keys
  /\ writes \in 0..MaxWrites
  /\ said \in [Pages -> [Keys -> 0..MaxWrites]]
  /\ excused \subseteq Pages \X Keys
  /\ swept \subseteq Blobs

(* A draft never refers to an attachment that is gone: not on disk, not in *)
(* the buffer, not in the memory of a page that may save it again.  Only   *)
(* in the browser can it: opening a tab collects what another tab has put  *)
(* and not yet saved.                                                      *)
RefsResolve ==
  LET kept == blob \cup swept IN
  /\ \A k \in Keys : Refs(doc[k]) \cup Refs(Current(k)) \subseteq kept
  /\ \A w \in Pages : Open(w) => refs[w] \subseteq kept
  /\ \A r \in inflight : r.raw \/ Refs(r.doc) \subseteq kept
  /\ host = "desktop" => swept = {}

(* When a page has nothing under way for a key, the draft it left there is *)
(* the one of its last call: an overtaken encoding, a migration that ends  *)
(* late or a write after a removal does not come back.  The exception is   *)
(* the rewrite of a draft read before the user typed.                      *)
LastWordStands ==
  \A w \in Pages, k \in Keys :
    /\ Open(w) /\ Of(w, k) = {} /\ load[w][k] \notin {"reading", "migrating"}
    /\ <<w, k>> \notin excused
    => (Current(k) # NoDoc /\ Current(k).by = w => Current(k).n = said[w][k])

(* An orderly quit, which may find pages writing after before-quit, leaves *)
(* nothing in the buffer that the disk does not have.                      *)
QuitLosesNothing ==
  [][main' = "ended" => \A k \in Keys : doc'[k] = Current(k)]_vars

(* What the store promises: see DurableMap. *)
Map == INSTANCE DurableMap WITH now <- [k \in Keys |-> Current(k)], safe <- doc

IsDurableMap == Map!Spec

(* What was written does not linger: an encoding ends, and the buffer is   *)
(* flushed, also after a flush, a failure or a quit has cleared the timer  *)
(* and while a draft loads.  A flush that throws empties the buffer too.   *)
WordsReachDisk ==
  \A w \in Pages, k \in Keys :
    (Of(w, k) # {} \/ k \in DOMAIN pending)
      ~> (Of(w, k) = {} /\ k \notin DOMAIN pending)

=============================================================================
