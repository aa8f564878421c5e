--------------------------- MODULE DraftPagesProofs ---------------------------
(***************************************************************************)
(* The safety of DraftPages, and that it implements DurableMap, for every  *)
(* set of pages, keys and attachments, and every number of writes.         *)
(*                                                                         *)
(* The argument: when the process that holds the store is gone, so are the *)
(* pages and the buffer, and the collection at the next start meets only   *)
(* documents on disk; while pages live, what they hold, encode or have     *)
(* read refers to blobs that are there; and of the writes of a key on      *)
(* their way, the one that bears the page's last number is its last word.  *)
(***************************************************************************)
EXTENDS DraftPages, TLAPS

Doc == Docs \cup {NoDoc}

-----------------------------------------------------------------------------
(* The store.                                                              *)
StoreTypes ==
  /\ host \in Hosts /\ main \in Lives
  /\ doc \in [Keys -> Doc]
  /\ blob \subseteq Blobs
  /\ DOMAIN pending \subseteq Keys
  /\ \A k \in DOMAIN pending : pending[k] \in Doc
  /\ timer = (pending # Nothing)
  /\ host = "browser" => main = "up" /\ pending = Nothing

PageTypes ==
  /\ page \in [Pages -> {"new", "open", "gone"}]
  /\ refs \in [Pages -> SUBSET Blobs]
  /\ versions \in [Pages -> [Keys -> Nat]]
  /\ inflight \subseteq Write
  /\ \A r \in inflight : page[r.page] = "open"
  /\ load \in [Pages -> [Keys -> Stages]]
  /\ found \in [Pages -> [Keys -> Doc]]
  /\ latest \in [Pages -> [Keys -> [doc : Docs, raw : BOOLEAN] \cup {NoDoc}]]
  /\ legacy \subseteq Keys
  /\ writes \in 0..MaxWrites
  /\ said \in [Pages -> [Keys -> 0..MaxWrites]]
  /\ excused \subseteq Pages \X Keys
  /\ swept \subseteq Blobs

(* A write that is raw has an attachment.                                  *)
RawHasBlob ==
  /\ \A r \in inflight : r.raw => r.doc.blob # NoBlob
  /\ \A w \in Pages, k \in Keys :
       latest[w][k] # NoDoc /\ latest[w][k].raw => latest[w][k].doc.blob # NoBlob

LEMMA TypesSplit == TypeOK <=> StoreTypes /\ PageTypes
BY DEF TypeOK, StoreTypes, PageTypes, Doc

(* What a step does to the documents: nothing, one write, a flush, or the  *)
(* loss of the buffer.                                                     *)
Drop == pending' = Nothing /\ timer' = FALSE /\ UNCHANGED doc

SetSome == \E k \in Keys, d \in Doc : Set(k, d)

DocStep == UNCHANGED <<doc, pending, timer>> \/ SetSome \/ Flush \/ Drop

LEMMA CurrentIsDoc == ASSUME StoreTypes, NEW k \in Keys PROVE Current(k) \in Doc
BY DEF StoreTypes, Current

(* A document that is written is what readers see; other keys keep theirs. *)
LEMMA SetShows ==
  ASSUME StoreTypes, NEW k \in Keys, NEW d \in Doc, Set(k, d), UNCHANGED host,
         NEW x \in Keys
  PROVE  Current(x)' = IF x = k THEN d ELSE Current(x)
<1>1. CASE host = "desktop"
  BY <1>1 DEF Set, Current
<1>2. CASE host # "desktop"
  <2>1. DOMAIN pending = {} /\ pending' = pending
    BY <1>2, DraftAssumption DEF StoreTypes, Set, Nothing
  <2> QED
    BY <1>2, <2>1 DEF StoreTypes, Set, Current
<1> QED
  BY <1>1, <1>2

(* A flush changes nothing for readers.                                    *)
LEMMA FlushShows ==
  ASSUME Flush, NEW x \in Keys
  PROVE  Current(x)' = Current(x) /\ doc'[x] = Current(x)
BY DEF Flush, Flushed, Current, Nothing

(* The loss of the buffer takes readers back to the disk.                  *)
LEMMA DropShows ==
  ASSUME Drop, NEW x \in Keys
  PROVE  Current(x)' = doc[x] /\ (x \notin DOMAIN pending => Current(x)' = Current(x))
BY DEF Drop, Current, Nothing

LEMMA DocTypes ==
  ASSUME StoreTypes, DocStep, UNCHANGED host, host = "browser" => main' = "up",
         main' \in Lives, blob' \subseteq Blobs
  PROVE  StoreTypes'
<1> USE DEF StoreTypes
<1>1. CASE UNCHANGED <<doc, pending, timer>>
  BY <1>1
<1>2. ASSUME NEW k \in Keys, NEW d \in Doc, Set(k, d) PROVE StoreTypes'
  <2>1. CASE host = "desktop"
    <3>1. DOMAIN pending' = DOMAIN pending \cup {k}
      BY <1>2, <2>1 DEF Set
    <3>2. pending' # Nothing
      BY <3>1 DEF Nothing
    <3> QED
      BY <1>2, <2>1, <3>1, <3>2 DEF Set, Scheduled
  <2>2. CASE host # "desktop"
    BY <1>2, <2>2 DEF Set
  <2> QED
    BY <2>1, <2>2
<1>3. CASE Flush
  <2>1. doc' \in [Keys -> Doc]
    BY <1>3, CurrentIsDoc DEF Flush, Flushed
  <2> QED
    BY <1>3, <2>1 DEF Flush, Nothing
<1>4. CASE Drop
  BY <1>4 DEF Drop, Nothing
<1> QED
  BY <1>1, <1>2, <1>3, <1>4 DEF DocStep, SetSome

(* The steps of the main process and of the pages, as the documents and    *)
(* the process see them.                                                   *)
LEMMA StoreStep ==
  ASSUME StoreTypes, PageTypes, RawHasBlob, [Next]_vars
  PROVE  DocStep /\ UNCHANGED host /\ main' \in Lives /\ blob' \subseteq Blobs
         /\ (host = "browser" => main' = "up")
<1> DEFINE Goal == DocStep /\ UNCHANGED host /\ main' \in Lives /\ blob' \subseteq Blobs
                   /\ (host = "browser" => main' = "up")
<1> USE DEF StoreTypes, DocStep, Lives
<1>1. CASE Main
  BY <1>1 DEF Main, Start, Collect, TimerFires, FlushFails, Drop, SessionEnds, BeforeQuit,
              WillQuit, Crash, Nothing
<1>2. ASSUME NEW w \in Pages, OpenPage(w) \/ ClosePage(w) PROVE Goal
  BY <1>2 DEF OpenPage, ClosePage, Collect, store
<1>3. ASSUME NEW w \in Pages, NEW b \in Blobs, Attach(w, b) PROVE Goal
  BY <1>3 DEF Attach, PutBlob
<1>4. ASSUME NEW w \in Pages, NEW k \in Keys, StartLoad(w, k) \/ Loading(w, k) PROVE Goal
  BY <1>4 DEF StartLoad, Loading, ReadCurrent, LookUp, Migrated, store
<1>5. ASSUME NEW w \in Pages, NEW k \in Keys, RemoveItem(w, k) PROVE Goal
  BY <1>5 DEF RemoveItem, SetSome, Doc
<1>6. ASSUME NEW w \in Pages, NEW k \in Keys, NEW b \in Blobs \cup {NoBlob}, NEW raw \in BOOLEAN,
             Type(w, k, b, raw)
      PROVE  Goal
  BY <1>6 DEF Type, store
<1>7. ASSUME NEW r \in inflight, PutRaw(r) PROVE Goal
  <2>1. r \in Write /\ r.doc.blob # NoBlob
    BY <1>7 DEF PageTypes, PutRaw, RawHasBlob
  <2>2. r.doc.blob \in Blobs
    BY <2>1 DEF Write, Docs
  <2> QED
    BY <1>7, <2>2 DEF PutRaw, PutBlob
<1>8. ASSUME NEW r \in inflight, Encoded(r) PROVE Goal
  <2>1. r.key \in Keys /\ r.doc \in Doc
    BY DEF PageTypes, Write, Doc
  <2> QED
    BY <1>8, <2>1 DEF Encoded, SetSome
<1>9. CASE UNCHANGED vars
  BY <1>9 DEF vars, store
<1> QED
  BY <1>1, <1>2, <1>3, <1>4, <1>5, <1>6, <1>7, <1>8, <1>9 DEF Next, Encoding

-----------------------------------------------------------------------------
(* The types of the pages.                                                 *)
LEMMA SetItemTypes ==
  ASSUME PageTypes, RawHasBlob, NEW w \in Pages, NEW k \in Keys, page[w] = "open",
         NEW d \in Docs, NEW raw \in BOOLEAN, raw => d.blob # NoBlob,
         NEW from \in {"user", "load"}, SetItem(w, k, d, raw, from)
  PROVE  /\ versions' \in [Pages -> [Keys -> Nat]]
         /\ inflight' \subseteq Write
         /\ \A r \in inflight' : page[r.page] = "open" /\ (r.raw => r.doc.blob # NoBlob)
<1> DEFINE new == [page |-> w, key |-> k, version |-> versions[w][k] + 1, doc |-> d,
                   raw |-> raw, from |-> from]
<1>1. new \in Write /\ page[new.page] = "open" /\ (new.raw => new.doc.blob # NoBlob)
  BY DEF PageTypes, Write
<1>2. inflight' = inflight \cup {new}
  BY DEF SetItem
<1> QED
  BY <1>1, <1>2 DEF SetItem, PageTypes, RawHasBlob

LEMMA ClosedTypes ==
  ASSUME PageTypes, RawHasBlob, NEW ws \in SUBSET Pages, Closed(ws)
  PROVE  PageTypes' /\ RawHasBlob'
<1>1. inflight' \subseteq inflight /\ \A r \in inflight' : page'[r.page] = "open"
  BY DEF Closed, PageTypes, Write
<1>2. 0 \in 0..MaxWrites
  BY DraftAssumption
<1>3. /\ page' \in [Pages -> {"new", "open", "gone"}]
      /\ refs' \in [Pages -> SUBSET Blobs]
      /\ versions' \in [Pages -> [Keys -> Nat]]
      /\ load' \in [Pages -> [Keys -> Stages]]
  BY DEF Closed, PageTypes, Without, Stages
<1>4. /\ found' \in [Pages -> [Keys -> Doc]]
      /\ latest' \in [Pages -> [Keys -> [doc : Docs, raw : BOOLEAN] \cup {NoDoc}]]
      /\ said' \in [Pages -> [Keys -> 0..MaxWrites]]
  BY <1>2 DEF Closed, PageTypes, Without, Doc
<1>5. RawHasBlob'
  BY <1>1 DEF Closed, RawHasBlob, Without
<1> QED
  BY <1>1, <1>3, <1>4, <1>5 DEF Closed, PageTypes

LEMMA PageStep ==
  ASSUME StoreTypes, PageTypes, RawHasBlob, [Next]_vars
  PROVE  PageTypes' /\ RawHasBlob'
<1>1. CASE Main
  <2>1. CASE Crash /\ AllGone
    BY <2>1, ClosedTypes DEF AllGone
  <2>2. CASE Idle
    BY <2>2 DEF Idle, pages, PageTypes, RawHasBlob
  <2>3. CASE Undone
    BY <2>3 DEF Undone, PageTypes, RawHasBlob
  <2> QED
    BY <1>1, <2>1, <2>2, <2>3 DEF Main
<1>2. ASSUME NEW w \in Pages, OpenPage(w) PROVE PageTypes' /\ RawHasBlob'
  BY <1>2 DEF OpenPage, PageTypes, RawHasBlob, StoreTypes
<1>3. ASSUME NEW w \in Pages, ClosePage(w) PROVE PageTypes' /\ RawHasBlob'
  BY <1>3, ClosedTypes DEF ClosePage
<1>4. ASSUME NEW w \in Pages, NEW b \in Blobs, Attach(w, b) PROVE PageTypes' /\ RawHasBlob'
  BY <1>4 DEF Attach, PageTypes, RawHasBlob
<1>5. ASSUME NEW w \in Pages, NEW k \in Keys, NEW b \in Blobs \cup {NoBlob}, NEW raw \in BOOLEAN,
             Type(w, k, b, raw)
      PROVE  PageTypes' /\ RawHasBlob'
  <2> DEFINE d == [n |-> writes + 1, by |-> w, blob |-> b]
  <2>1. writes + 1 \in 0..MaxWrites /\ page[w] = "open"
    BY <1>5, DraftAssumption DEF Type, Open, PageTypes
  <2>2. d \in Docs
    BY <2>1 DEF Docs
  <2>3. raw => d.blob # NoBlob
    BY <1>5, DraftAssumption DEF Type
  <2>4. SetItem(w, k, d, raw, "user")
    BY <1>5 DEF Type
  <2>5. [doc |-> d, raw |-> raw] \in [doc : Docs, raw : BOOLEAN]
    BY <2>2
  <2>6. latest' = [latest EXCEPT ![w][k] = [doc |-> d, raw |-> raw]]
    BY <1>5 DEF Type
  <2>7. /\ latest' \in [Pages -> [Keys -> [doc : Docs, raw : BOOLEAN] \cup {NoDoc}]]
        /\ \A v \in Pages, x \in Keys :
             latest'[v][x] # NoDoc /\ latest'[v][x].raw => latest'[v][x].doc.blob # NoBlob
    BY <2>3, <2>5, <2>6 DEF PageTypes, RawHasBlob
  <2> QED
    BY <1>5, <2>1, <2>2, <2>3, <2>4, <2>7, SetItemTypes DEF Type, PageTypes, RawHasBlob
<1>6. ASSUME NEW w \in Pages, NEW k \in Keys, RemoveItem(w, k) PROVE PageTypes' /\ RawHasBlob'
  <2>1. writes + 1 \in 0..MaxWrites
    BY <1>6, DraftAssumption DEF RemoveItem, PageTypes
  <2> QED
    BY <1>6, <2>1 DEF RemoveItem, Supersede, PageTypes, RawHasBlob
<1>7. ASSUME NEW r \in inflight, PutRaw(r) PROVE PageTypes' /\ RawHasBlob'
  <2>1. [r EXCEPT !.raw = FALSE] \in Write /\ [r EXCEPT !.raw = FALSE].page = r.page
        /\ ~[r EXCEPT !.raw = FALSE].raw
    BY DEF PageTypes, Write
  <2> QED
    BY <1>7, <2>1 DEF PutRaw, PageTypes, RawHasBlob
<1>8. ASSUME NEW r \in inflight, Encoded(r) PROVE PageTypes' /\ RawHasBlob'
  BY <1>8 DEF Encoded, PageTypes, RawHasBlob
<1>9. ASSUME NEW w \in Pages, NEW k \in Keys, StartLoad(w, k) PROVE PageTypes' /\ RawHasBlob'
  <2>1. Current(k) \in Doc
    BY CurrentIsDoc
  <2> QED
    BY <1>9, <2>1 DEF StartLoad, PageTypes, RawHasBlob, Stages
<1>10. ASSUME NEW w \in Pages, NEW k \in Keys, ReadCurrent(w, k) PROVE PageTypes' /\ RawHasBlob'
  <2>1. found[w][k] \in Docs /\ found[w][k].n \in 0..MaxWrites /\ page[w] = "open"
        /\ Refs(found[w][k]) \subseteq Blobs
    BY <1>10 DEF ReadCurrent, PageTypes, Doc, Docs, Open, Refs
  <2>2. [found[w][k] EXCEPT !.by = w] \in Docs
    BY <2>1 DEF Docs
  <2>3. /\ versions' \in [Pages -> [Keys -> Nat]]
        /\ inflight' \subseteq Write
        /\ \A r \in inflight' : page[r.page] = "open" /\ (r.raw => r.doc.blob # NoBlob)
    <3>1. CASE SetItem(w, k, [found[w][k] EXCEPT !.by = w], FALSE, "load")
      BY <2>1, <2>2, <3>1, SetItemTypes
    <3>2. CASE UNCHANGED <<versions, inflight>>
      BY <3>2 DEF PageTypes, RawHasBlob
    <3> QED
      BY <1>10, <3>1, <3>2 DEF ReadCurrent
  <2>4. said' = said \/ said' = [said EXCEPT ![w][k] = found[w][k].n]
    BY <1>10 DEF ReadCurrent
  <2>5. said' \in [Pages -> [Keys -> 0..MaxWrites]]
    <3>1. CASE said' = said
      BY <3>1 DEF PageTypes
    <3>2. CASE said' = [said EXCEPT ![w][k] = found[w][k].n]
      BY <2>1, <3>2 DEF PageTypes
    <3> QED
      BY <2>4, <3>1, <3>2
  <2>6. excused' = excused \/ excused' = excused \cup {<<w, k>>}
    BY <1>10 DEF ReadCurrent
  <2>7. excused' \subseteq Pages \X Keys
    BY <2>6 DEF PageTypes
  <2> QED
    BY <1>10, <2>1, <2>3, <2>5, <2>7 DEF ReadCurrent, PageTypes, RawHasBlob, Stages, Doc
<1>11. ASSUME NEW w \in Pages, NEW k \in Keys, LookUp(w, k) PROVE PageTypes' /\ RawHasBlob'
  <2>1. page[w] = "open" /\ 0 \in 0..MaxWrites
    BY <1>11, DraftAssumption DEF LookUp, Open
  <2>2. /\ versions' \in [Pages -> [Keys -> Nat]]
        /\ inflight' \subseteq Write
        /\ \A r \in inflight' : page[r.page] = "open" /\ (r.raw => r.doc.blob # NoBlob)
    <3>1. ASSUME NEW b \in Blobs \cup {NoBlob},
                 SetItem(w, k, [n |-> 0, by |-> w, blob |-> b], b # NoBlob, "load")
          PROVE  /\ versions' \in [Pages -> [Keys -> Nat]]
                 /\ inflight' \subseteq Write
                 /\ \A r \in inflight' : page[r.page] = "open" /\ (r.raw => r.doc.blob # NoBlob)
      <4>1. [n |-> 0, by |-> w, blob |-> b] \in Docs
        BY <2>1 DEF Docs
      <4> QED
        BY <2>1, <3>1, <4>1, SetItemTypes
    <3>2. CASE UNCHANGED <<versions, inflight>>
      BY <3>2 DEF PageTypes, RawHasBlob
    <3> QED
      BY <1>11, <3>1, <3>2 DEF LookUp
  <2>3. said' = said \/ said' = [said EXCEPT ![w][k] = 0]
    BY <1>11 DEF LookUp
  <2>4. said' \in [Pages -> [Keys -> 0..MaxWrites]]
    <3>1. CASE said' = said
      BY <3>1 DEF PageTypes
    <3>2. CASE said' = [said EXCEPT ![w][k] = 0]
      BY <2>1, <3>2 DEF PageTypes
    <3> QED
      BY <2>3, <3>1, <3>2
  <2> QED
    BY <1>11, <2>2, <2>4 DEF LookUp, PageTypes, RawHasBlob, Stages
<1>12. ASSUME NEW w \in Pages, NEW k \in Keys, Migrated(w, k) PROVE PageTypes' /\ RawHasBlob'
  <2>1. page[w] = "open" /\ Current(k) \in Doc
    BY <1>12, CurrentIsDoc DEF Migrated, Open
  <2>2. Refs(Current(k)) \subseteq Blobs
    BY <2>1 DEF Refs, Doc, Docs
  <2>3. /\ versions' \in [Pages -> [Keys -> Nat]]
        /\ inflight' \subseteq Write
        /\ \A r \in inflight' : page[r.page] = "open" /\ (r.raw => r.doc.blob # NoBlob)
        /\ said' \in [Pages -> [Keys -> 0..MaxWrites]]
    <3>1. CASE latest[w][k] = NoDoc
      BY <1>12, <3>1 DEF Migrated, WriteAgain, PageTypes, RawHasBlob
    <3>2. CASE latest[w][k] # NoDoc
      <4>1. latest[w][k].doc \in Docs /\ latest[w][k].raw \in BOOLEAN
            /\ (latest[w][k].raw => latest[w][k].doc.blob # NoBlob)
        BY <3>2 DEF PageTypes, RawHasBlob
      <4>2. SetItem(w, k, latest[w][k].doc, latest[w][k].raw, "load")
            /\ said' = [said EXCEPT ![w][k] = latest[w][k].doc.n]
        BY <1>12, <3>2 DEF Migrated, WriteAgain
      <4>3. latest[w][k].doc.n \in 0..MaxWrites
        BY <4>1 DEF Docs
      <4> QED
        BY <2>1, <4>1, <4>2, <4>3, SetItemTypes DEF PageTypes
    <3> QED
      BY <3>1, <3>2
  <2> QED
    BY <1>12, <2>2, <2>3 DEF Migrated, PageTypes, RawHasBlob, Stages
<1>13. CASE UNCHANGED vars
  BY <1>13 DEF vars, pages, PageTypes, RawHasBlob
<1> QED
  BY <1>1, <1>2, <1>3, <1>4, <1>5, <1>6, <1>7, <1>8, <1>9, <1>10, <1>11, <1>12, <1>13
  DEF Next, Encoding, Loading

LEMMA InitTypes == Init => StoreTypes /\ PageTypes /\ RawHasBlob
<1> SUFFICES ASSUME Init PROVE StoreTypes /\ PageTypes /\ RawHasBlob
  OBVIOUS
<1>1. StoreTypes
  BY DraftAssumption DEF Init, StoreInit, StoreTypes, Nothing, Lives, Doc
<1>2. 0 \in 0..MaxWrites
  BY DraftAssumption
<1>3. PageTypes
  BY <1>2 DEF Init, PageTypes, Doc, Stages
<1>4. RawHasBlob
  BY DEF Init, RawHasBlob
<1> QED
  BY <1>1, <1>3, <1>4

Types == StoreTypes /\ PageTypes /\ RawHasBlob

LEMMA TypesInvariant == Spec => []Types
<1>1. Types /\ [Next]_vars => Types'
  BY StoreStep, DocTypes, PageStep DEF Types
<1> QED
  BY <1>1, InitTypes, PTL DEF Spec, Types

(* Every variable keeps its type.                                          *)
THEOREM TypeCorrect == Spec => []TypeOK
<1>1. Types => TypeOK
  BY TypesSplit DEF Types
<1> QED
  BY <1>1, TypesInvariant, PTL

-----------------------------------------------------------------------------
(* The life of the process: without it there are no pages and no buffer.   *)
EndIsEmpty ==
  main \in {"ended", "crashed"} =>
    pending = Nothing /\ \A w \in Pages : page[w] # "open"

(* The pages leave the process alone, and do nothing without it.           *)
LEMMA PagesNeedMain ==
  ASSUME [Next]_vars, ~Main
  PROVE  main' = main /\ (main \in {"ended", "crashed"} => UNCHANGED <<doc, pending, page>>)
<1> DEFINE Goal ==
      main' = main /\ (main \in {"ended", "crashed"} => UNCHANGED <<doc, pending, page>>)
<1> USE DEF Open, Running
<1>1. ASSUME NEW w \in Pages, OpenPage(w) \/ ClosePage(w) PROVE Goal
  BY <1>1 DEF OpenPage, ClosePage, store
<1>2. ASSUME NEW w \in Pages, NEW b \in Blobs, Attach(w, b) PROVE Goal
  BY <1>2 DEF Attach
<1>3. ASSUME NEW w \in Pages, NEW k \in Keys, StartLoad(w, k) \/ Loading(w, k) PROVE Goal
  BY <1>3 DEF StartLoad, Loading, ReadCurrent, LookUp, Migrated, store
<1>4. ASSUME NEW w \in Pages, NEW k \in Keys, RemoveItem(w, k) PROVE Goal
  BY <1>4 DEF RemoveItem
<1>5. ASSUME NEW w \in Pages, NEW k \in Keys, NEW b \in Blobs \cup {NoBlob}, NEW raw \in BOOLEAN,
             Type(w, k, b, raw)
      PROVE  Goal
  BY <1>5 DEF Type, store
<1>6. ASSUME NEW r \in inflight, PutRaw(r) \/ Encoded(r) PROVE Goal
  BY <1>6 DEF PutRaw, Encoded
<1>7. CASE UNCHANGED vars
  BY <1>7 DEF vars, store, pages
<1> QED
  BY <1>1, <1>2, <1>3, <1>4, <1>5, <1>6, <1>7 DEF Next, Encoding

LEMMA EndStep == ASSUME Types, EndIsEmpty, [Next]_vars PROVE EndIsEmpty'
<1> USE DEF EndIsEmpty
<1>1. CASE Main
  <2>1. CASE Crash /\ AllGone
    BY <2>1 DEF Crash, AllGone, Closed, Types, PageTypes
  <2>2. CASE Start \/ TimerFires \/ FlushFails \/ SessionEnds \/ BeforeQuit
    <3>1. page' = page
      BY <1>1, <2>2 DEF Main, Idle, Undone, pages, Start, Crash, WillQuit, TimerFires,
                        FlushFails, SessionEnds, BeforeQuit, AllGone, Closed
    <3> QED
      BY <2>2, <3>1 DEF Start, TimerFires, FlushFails, SessionEnds, BeforeQuit, Flush
  <2>3. CASE WillQuit /\ (\A w \in Pages : page[w] # "open") /\ Idle
    BY <2>3 DEF WillQuit, Idle, pages, Flush
  <2> QED
    BY <1>1, <2>1, <2>2, <2>3 DEF Main
<1>2. CASE ~Main
  BY <1>2, PagesNeedMain
<1> QED
  BY <1>1, <1>2

LEMMA EndInvariant == Spec => []EndIsEmpty
<1>1. Init => EndIsEmpty
  BY DEF Init, StoreInit, EndIsEmpty
<1>2. Types /\ EndIsEmpty /\ [Next]_vars => EndIsEmpty'
  BY EndStep
<1> QED
  BY <1>1, <1>2, TypesInvariant, PTL DEF Spec

(* When the app has quit, the disk has what readers saw.                   *)
THEOREM QuitKeepsAll == Spec => QuitLosesNothing
<1>1. ASSUME EndIsEmpty, Types, Next, main' = "ended", NEW k \in Keys
      PROVE  doc'[k] = Current(k)
  <2>1. CASE WillQuit
    BY <2>1, FlushShows DEF WillQuit
  <2>2. CASE ~WillQuit
    <3>1. main = "ended" /\ ~timer /\ Current(k) = doc[k]
      <4>1. main = "ended"
        BY <1>1, <2>2, PagesNeedMain
        DEF Main, Start, Crash, BeforeQuit, TimerFires, FlushFails, SessionEnds
      <4> QED
        BY <1>1, <4>1 DEF EndIsEmpty, Types, StoreTypes, Current, Nothing
    <3>2. doc' = doc
      BY <1>1, <2>2, <3>1, PagesNeedMain
      DEF Main, Start, Crash, BeforeQuit, TimerFires, FlushFails, SessionEnds
    <3> QED
      BY <3>1, <3>2
  <2> QED
    BY <2>1, <2>2
<1>2. EndIsEmpty /\ Types /\ [Next]_vars =>
        [main' = "ended" => \A k \in Keys : doc'[k] = Current(k)]_vars
  BY <1>1
<1> QED
  BY <1>2, EndInvariant, TypesInvariant, PTL DEF Spec, QuitLosesNothing

-----------------------------------------------------------------------------
(* The store implements DurableMap.                                        *)
Now == [k \in Keys |-> Current(k)]

LEMMA MapStep == ASSUME Types, [Next]_vars PROVE [Map!Next]_(Map!vars)
<1>1. DocStep /\ UNCHANGED host
  BY StoreStep DEF Types
<1>2. CASE UNCHANGED <<doc, pending, timer>>
  BY <1>2 DEF Map!vars, Current
<1>3. ASSUME NEW k \in Keys, NEW d \in Doc, Set(k, d) PROVE Map!Next
  <2>1. Now' = [Now EXCEPT ![k] = d]
    BY <1>1, <1>3, SetShows DEF Now, Types
  <2>2. doc' = doc \/ (doc = Now /\ doc' = Now')
    <3>1. CASE host = "desktop"
      BY <1>3, <3>1 DEF Set
    <3>2. CASE host # "desktop"
      <4>1. DOMAIN pending = {}
        BY <3>2, DraftAssumption DEF Types, StoreTypes, Nothing
      <4>2. doc = Now
        BY <4>1 DEF Now, Current, Types, StoreTypes
      <4>3. doc' = [doc EXCEPT ![k] = d]
        BY <1>3, <3>2 DEF Set
      <4> QED
        BY <2>1, <4>2, <4>3
    <3> QED
      BY <3>1, <3>2
  <2>3. Map!Write(k, d)
    BY <2>1, <2>2 DEF Map!Write, Now
  <2> QED
    BY <2>3 DEF Map!Next, Doc
<1>4. CASE Flush
  <2>1. \A x \in Keys : Current(x)' = Current(x)
    BY <1>4, FlushShows
  <2>2. doc' = Now /\ Now' = Now
    BY <1>4, <2>1 DEF Flush, Flushed, Now
  <2> QED
    BY <2>2 DEF Map!Next, Map!Save, Now
<1>5. CASE Drop
  <2>1. \A x \in Keys : Current(x)' = doc[x]
    BY <1>5, DropShows
  <2>2. Now' = doc /\ doc' = doc
    BY <1>5, <2>1 DEF Drop, Now, Types, StoreTypes
  <2> QED
    BY <2>2 DEF Map!Next, Map!GoBack, Now
<1> QED
  BY <1>1, <1>2, <1>3, <1>4, <1>5 DEF DocStep, SetSome

(* Readers see a map at once and the disk follows as a whole, on the       *)
(* desktop and in the browser, with crashes and failed flushes.            *)
THEOREM ImplementsDurableMap == Spec => IsDurableMap
<1>1. Init => Map!Init
  <2> SUFFICES ASSUME Init PROVE Map!Init
    OBVIOUS
  <2>1. doc \in [Keys -> Docs \cup {NoDoc}] /\ DOMAIN pending = {}
    BY DEF Init, StoreInit, Nothing
  <2>2. [k \in Keys |-> Current(k)] = doc
    BY <2>1 DEF Current
  <2> QED
    BY <2>1, <2>2 DEF Map!Init
<1>2. Types /\ [Next]_vars => [Map!Next]_(Map!vars)
  BY MapStep
<1> QED
  BY <1>1, <1>2, TypesInvariant, PTL DEF Spec, IsDurableMap, Map!Spec

-----------------------------------------------------------------------------
(* Attachments.  A page that is not open holds nothing.                    *)
IdlePages ==
  \A w \in Pages : page[w] # "open" =>
    refs[w] = {} /\ \A k \in Keys : found[w][k] = NoDoc /\ latest[w][k] = NoDoc

(* The blobs that documents, and that pages, count on.                     *)
Here == blob \cup swept

DocRefs == \A k \in Keys : Refs(doc[k]) \cup Refs(Current(k)) \subseteq Here

PageRefs ==
  /\ \A w \in Pages : refs[w] \subseteq Here
  /\ \A w \in Pages, k \in Keys : Refs(found[w][k]) \subseteq Here
  /\ \A w \in Pages, k \in Keys :
       latest[w][k] = NoDoc \/ latest[w][k].raw \/ Refs(latest[w][k].doc) \subseteq Here
  /\ \A r \in inflight : r.raw \/ Refs(r.doc) \subseteq Here

RefsInv == IdlePages /\ DocRefs /\ PageRefs /\ (host = "desktop" => swept = {})

LEMMA DocsStayHere ==
  ASSUME StoreTypes, DocRefs, UNCHANGED host, Here \subseteq Here',
         \/ UNCHANGED <<doc, pending, timer>> \/ Flush \/ Drop
         \/ \E k \in Keys, d \in Doc : Set(k, d) /\ Refs(d) \subseteq Here
  PROVE  DocRefs'
<1> USE DEF DocRefs
<1>1. CASE UNCHANGED <<doc, pending, timer>>
  BY <1>1 DEF Current
<1>2. CASE Flush
  BY <1>2, FlushShows
<1>3. CASE Drop
  BY <1>3, DropShows DEF Drop
<1>4. ASSUME NEW k \in Keys, NEW d \in Doc, Set(k, d), Refs(d) \subseteq Here PROVE DocRefs'
  <2>1. \A x \in Keys : Current(x)' = IF x = k THEN d ELSE Current(x)
    BY <1>4, SetShows
  <2>2. \A x \in Keys : doc'[x] = doc[x] \/ doc'[x] = d
    BY <1>4 DEF Set, StoreTypes
  <2> QED
    BY <1>4, <2>1, <2>2
<1> QED
  BY <1>1, <1>2, <1>3, <1>4

(* A new write refers to what is here.                                     *)
LEMMA SetItemRefs ==
  ASSUME PageRefs, NEW w \in Pages, NEW k \in Keys, NEW d \in Docs, NEW raw \in BOOLEAN,
         raw \/ Refs(d) \subseteq Here, NEW from, SetItem(w, k, d, raw, from)
  PROVE  \A r \in inflight' : r.raw \/ Refs(r.doc) \subseteq Here
BY DEF SetItem, PageRefs

(* When no page is open, only the documents on disk count.                 *)
LEMMA CollectKeepsRefs ==
  ASSUME Types, RefsInv, Collect, pending = Nothing, \A w \in Pages : page[w] # "open",
         UNCHANGED <<doc, pending, refs, found, latest, inflight, swept>>
  PROVE  DocRefs' /\ PageRefs'
<1>1. \A k \in Keys : Current(k) = doc[k] /\ Current(k)' = doc[k]
  BY DEF Current, Nothing
<1>2. \A k \in Keys : Refs(doc[k]) \subseteq Used
  BY DEF Used
<1>3. DocRefs'
  BY <1>1, <1>2 DEF DocRefs, RefsInv, Collect, Here
<1>4. inflight = {}
  BY DEF Types, PageTypes, Write
<1>5. PageRefs'
  BY <1>4 DEF PageRefs, RefsInv, IdlePages, Refs
<1> QED
  BY <1>3, <1>5

LEMMA RefsStep == ASSUME Types, EndIsEmpty, RefsInv, [Next]_vars PROVE RefsInv'
<1> USE DEF Types
<1>0. StoreTypes' /\ PageTypes'
  BY StoreStep, DocTypes, PageStep
<1>1. CASE Main
  <2>1. CASE Start /\ Idle
    <3>1. /\ Collect /\ pending = Nothing /\ \A w \in Pages : page[w] # "open"
          /\ UNCHANGED <<host, doc, pending, pages>>
      BY <2>1 DEF Start, Idle, EndIsEmpty
    <3> QED
      BY <3>1, CollectKeepsRefs DEF RefsInv, IdlePages, pages
  <2>2. CASE (TimerFires \/ SessionEnds \/ BeforeQuit \/ WillQuit) /\ Idle
    <3>1. Flush /\ UNCHANGED <<host, blob, pages>>
      BY <2>2 DEF TimerFires, SessionEnds, BeforeQuit, WillQuit, Idle
    <3> QED
      BY <3>1, DocsStayHere DEF RefsInv, IdlePages, PageRefs, Here, pages
  <2>3. CASE FlushFails /\ Undone
    <3>1. Drop /\ UNCHANGED <<host, blob, page, refs, inflight, found, latest, swept>>
      BY <2>3 DEF FlushFails, Undone, Drop
    <3> QED
      BY <3>1, DocsStayHere DEF RefsInv, IdlePages, PageRefs, Here
  <2>4. CASE Crash /\ AllGone
    <3>1. Drop /\ UNCHANGED <<host, blob, swept>>
      BY <2>4 DEF Crash, AllGone, Closed, Drop
    <3>2. DocRefs'
      BY <3>1, DocsStayHere DEF RefsInv, Here
    <3> QED
      BY <2>4, <3>1, <3>2
      DEF RefsInv, AllGone, Closed, Without, IdlePages, PageRefs, Here, Refs, PageTypes
  <2> QED
    BY <1>1, <2>1, <2>2, <2>3, <2>4 DEF Main
<1>2. ASSUME NEW w \in Pages, OpenPage(w) PROVE RefsInv'
  <2>1. IdlePages'
    BY <1>2 DEF OpenPage, IdlePages, RefsInv, PageTypes
  <2>2. CASE host = "browser" /\ ~(\E v \in Pages : page[v] = "open")
    <3>1. pending = Nothing /\ UNCHANGED <<host, doc, pending, refs, found, latest, inflight, swept>>
      BY <1>2, <2>2 DEF OpenPage, StoreTypes
    <3> QED
      BY <1>2, <2>1, <2>2, <3>1, CollectKeepsRefs DEF OpenPage, RefsInv
  <2>3. CASE host # "browser" \/ \E v \in Pages : page[v] = "open"
    <3>1. Here \subseteq Here' /\ (host # "browser" => swept' = swept)
      BY <1>2, <2>3 DEF OpenPage, Here, Collect
    <3>2. UNCHANGED <<host, doc, pending, timer, refs, found, latest, inflight>>
      BY <1>2 DEF OpenPage
    <3> QED
      BY <2>1, <3>1, <3>2, DocsStayHere DEF RefsInv, PageRefs
  <2> QED
    BY <2>2, <2>3
<1>3. ASSUME NEW w \in Pages, ClosePage(w) PROVE RefsInv'
  <2>1. UNCHANGED <<host, doc, pending, timer, blob, swept>> /\ Closed({w})
    BY <1>3 DEF ClosePage, store, Closed
  <2>2. DocRefs'
    BY <2>1, DocsStayHere DEF RefsInv, Here
  <2> QED
    BY <2>1, <2>2 DEF RefsInv, Closed, Without, IdlePages, PageRefs, Here, Refs, PageTypes
<1>4. ASSUME NEW w \in Pages, NEW b \in Blobs, Attach(w, b) PROVE RefsInv'
  <2>1. Here \subseteq Here' /\ b \in Here'
    BY <1>4 DEF Attach, PutBlob, Here
  <2>2. DocRefs'
    BY <1>4, <2>1, DocsStayHere DEF Attach, RefsInv
  <2> QED
    BY <1>4, <2>1, <2>2 DEF Attach, Open, RefsInv, IdlePages, PageRefs, PageTypes
<1>5. ASSUME NEW w \in Pages, NEW k \in Keys, NEW b \in Blobs \cup {NoBlob}, NEW raw \in BOOLEAN,
             Type(w, k, b, raw)
      PROVE  RefsInv'
  <2> DEFINE d == [n |-> writes + 1, by |-> w, blob |-> b]
  <2>1. UNCHANGED <<host, doc, pending, timer, blob, swept, page, refs, found>> /\ page[w] = "open"
        /\ SetItem(w, k, d, raw, "user") /\ latest' = [latest EXCEPT ![w][k] = [doc |-> d, raw |-> raw]]
    BY <1>5 DEF Type, store, Open
  <2>2. raw \/ Refs(d) \subseteq Here
    BY <1>5 DEF Type, Refs, RefsInv, PageRefs
  <2>3. d \in Docs
    BY <1>5, DraftAssumption DEF Type, PageTypes, Docs
  <2>4. \A r \in inflight' : r.raw \/ Refs(r.doc) \subseteq Here
    BY <2>1, <2>2, <2>3, SetItemRefs DEF RefsInv
  <2>5. \A v \in Pages, x \in Keys :
          latest'[v][x] = IF v = w /\ x = k THEN [doc |-> d, raw |-> raw] ELSE latest[v][x]
    BY <2>1 DEF PageTypes
  <2>6. DocRefs'
    BY <2>1, DocsStayHere DEF RefsInv, Here
  <2>7. PageRefs'
    BY <2>1, <2>2, <2>4, <2>5 DEF RefsInv, PageRefs, Here
  <2> QED
    BY <2>1, <2>5, <2>6, <2>7 DEF RefsInv, IdlePages
<1>6. ASSUME NEW w \in Pages, NEW k \in Keys, RemoveItem(w, k) PROVE RefsInv'
  <2>1. Set(k, NoDoc) /\ Refs(NoDoc) = {} /\ NoDoc \in Doc
        /\ UNCHANGED <<host, blob, swept, page, refs, found, latest, inflight>>
    BY <1>6 DEF RemoveItem, Refs, Doc
  <2>2. DocRefs'
    BY <2>1, DocsStayHere DEF RefsInv, Here
  <2> QED
    BY <2>1, <2>2 DEF RefsInv, IdlePages, PageRefs, Here
<1>7. ASSUME NEW r \in inflight, PutRaw(r) PROVE RefsInv'
  <2>1. Here \subseteq Here' /\ r.doc.blob \in Here'
        /\ UNCHANGED <<host, doc, pending, timer, page, refs, found, latest, swept>>
    BY <1>7 DEF PutRaw, PutBlob, Here
  <2>2. DocRefs'
    BY <2>1, DocsStayHere DEF RefsInv
  <2>3. Refs([r EXCEPT !.raw = FALSE].doc) \subseteq Here'
    BY <2>1 DEF Refs, PageTypes, Write
  <2> QED
    BY <1>7, <2>1, <2>2, <2>3 DEF PutRaw, RefsInv, IdlePages, PageRefs
<1>8. ASSUME NEW r \in inflight, Encoded(r) PROVE RefsInv'
  <2>1. UNCHANGED <<host, blob, page, refs, found, latest, swept>> /\ inflight' \subseteq inflight
        /\ r.key \in Keys /\ r.doc \in Doc /\ Refs(r.doc) \subseteq Here
    BY <1>8 DEF Encoded, IsEncoded, PageTypes, Write, RefsInv, PageRefs, Doc
  <2>2. UNCHANGED <<doc, pending, timer>> \/ Set(r.key, r.doc)
    BY <1>8 DEF Encoded
  <2>3. DocRefs'
    BY <2>1, <2>2, DocsStayHere DEF RefsInv, Here
  <2> QED
    BY <2>1, <2>3 DEF RefsInv, IdlePages, PageRefs, Here
<1>9. ASSUME NEW w \in Pages, NEW k \in Keys, StartLoad(w, k) \/ Loading(w, k) PROVE RefsInv'
  <2>1. UNCHANGED <<host, doc, pending, timer, blob, swept, page, latest>> /\ page[w] = "open"
    BY <1>9 DEF StartLoad, Loading, ReadCurrent, LookUp, Migrated, store, Open
  <2>2. DocRefs'
    BY <2>1, DocsStayHere DEF RefsInv, Here
  <2>3. \A v \in Pages, x \in Keys : \/ found'[v][x] \in {found[v][x], NoDoc}
                                     \/ v = w /\ x = k /\ found'[v][x] = Current(k)
    <3>1. PICK value \in {found[w][k], NoDoc, Current(k)} :
            found' = found \/ found' = [found EXCEPT ![w][k] = value]
      BY <1>9 DEF StartLoad, Loading, ReadCurrent, LookUp, Migrated
    <3> QED
      BY <3>1 DEF PageTypes
  <2>4. \A v \in Pages :
          \/ refs'[v] = refs[v]
          \/ v = w /\ refs'[v] \in {refs[v] \cup Refs(Current(k)), refs[v] \cup Refs(found[w][k])}
    BY <1>9 DEF StartLoad, Loading, ReadCurrent, LookUp, Migrated, PageTypes
  <2>5. \A r \in inflight' : r.raw \/ Refs(r.doc) \subseteq Here
    <3>1. CASE UNCHANGED inflight
      BY <3>1 DEF RefsInv, PageRefs
    <3>2. CASE ReadCurrent(w, k) /\ SetItem(w, k, [found[w][k] EXCEPT !.by = w], FALSE, "load")
      <4>1. found[w][k] \in Docs /\ Refs(found[w][k]) \subseteq Here
        BY <3>2 DEF ReadCurrent, PageTypes, Doc, RefsInv, PageRefs
      <4>2. [found[w][k] EXCEPT !.by = w] \in Docs
            /\ Refs([found[w][k] EXCEPT !.by = w]) \subseteq Here
        BY <4>1, NoDocIsNone DEF Docs, Refs
      <4> QED
        BY <3>2, <4>2, SetItemRefs DEF RefsInv
    <3>3. ASSUME NEW b \in Blobs \cup {NoBlob}, LookUp(w, k),
                 SetItem(w, k, [n |-> 0, by |-> w, blob |-> b], b # NoBlob, "load")
          PROVE  \A r \in inflight' : r.raw \/ Refs(r.doc) \subseteq Here
      <4>1. [n |-> 0, by |-> w, blob |-> b] \in Docs
        BY DraftAssumption DEF Docs
      <4>2. b # NoBlob \/ Refs([n |-> 0, by |-> w, blob |-> b]) \subseteq Here
        BY DEF Refs
      <4> QED
        BY <3>3, <4>1, <4>2, SetItemRefs DEF RefsInv
    <3>4. CASE Migrated(w, k) /\ latest[w][k] # NoDoc
               /\ SetItem(w, k, latest[w][k].doc, latest[w][k].raw, "load")
      <4>1. latest[w][k].doc \in Docs /\ latest[w][k].raw \in BOOLEAN
        BY <3>4 DEF PageTypes
      <4>2. latest[w][k].raw \/ Refs(latest[w][k].doc) \subseteq Here
        BY <3>4 DEF RefsInv, PageRefs
      <4> QED
        BY <3>4, <4>1, <4>2, SetItemRefs DEF RefsInv
    <3> QED
      BY <1>9, <3>1, <3>2, <3>3, <3>4 DEF StartLoad, Loading, ReadCurrent, LookUp, Migrated, WriteAgain
  <2>6. PageRefs'
    BY <2>1, <2>3, <2>4, <2>5 DEF RefsInv, PageRefs, DocRefs, Here, Refs
  <2>7. IdlePages'
    BY <2>1, <2>3, <2>4 DEF RefsInv, IdlePages
  <2> QED
    BY <2>1, <2>2, <2>6, <2>7 DEF RefsInv
<1>10. CASE UNCHANGED vars
  BY <1>10 DEF vars, store, pages, RefsInv, IdlePages, DocRefs, PageRefs, Here, Current
<1> QED
  BY <1>1, <1>2, <1>3, <1>4, <1>5, <1>6, <1>7, <1>8, <1>9, <1>10 DEF Next, Encoding

LEMMA RefsInvariant == Spec => []RefsInv
<1>1. Init => RefsInv
  BY DEF Init, StoreInit, RefsInv, IdlePages, DocRefs, PageRefs, Here, Current, Refs, Nothing
<1>2. Types /\ EndIsEmpty /\ RefsInv /\ [Next]_vars => RefsInv'
  BY RefsStep
<1> QED
  BY <1>1, <1>2, TypesInvariant, EndInvariant, PTL DEF Spec

(* No draft, on disk, buffered or on a page, refers to a blob that is gone *)
(* but for those another tab's opening has swept.                          *)
THEOREM RefsAlwaysResolve == Spec => []RefsResolve
<1>1. RefsInv => RefsResolve
  BY DEF RefsInv, DocRefs, PageRefs, Here, RefsResolve
<1> QED
  BY <1>1, RefsInvariant, PTL

-----------------------------------------------------------------------------
(* The last word.  A document says which page wrote it, ...                *)
ByTheirPages ==
  /\ \A r \in inflight : r.doc.by = r.page /\ r.version <= versions[r.page][r.key]
  /\ \A w \in Pages, k \in Keys : latest[w][k] # NoDoc => latest[w][k].doc.by = w
  /\ \A w \in Pages, k \in Keys : page[w] = "new" =>
       /\ doc[k] = NoDoc \/ doc[k].by # w
       /\ Current(k) = NoDoc \/ Current(k).by # w

(* ... and the page's last write on its way, or if there is none what it   *)
(* left, is its last word; not while a migration will write that again.    *)
IsLast(r, w, k) == r.page = w /\ r.key = k /\ r.version = versions[w][k]

Counts(w, k) ==
  /\ page[w] = "open" /\ <<w, k>> \notin excused
  /\ load[w][k] # "migrating" \/ latest[w][k] = NoDoc

Settles(w, k) ==
  Counts(w, k) =>
    /\ \A r \in inflight : IsLast(r, w, k) => r.doc.n = said[w][k]
    /\ \/ Current(k) = NoDoc \/ Current(k).by # w \/ Current(k).n = said[w][k]
       \/ \E r \in inflight : IsLast(r, w, k)

WordInv == ByTheirPages /\ \A w \in Pages, k \in Keys : Settles(w, k)

(* What another page or key does: readers may come to see its document.    *)
LEMMA OthersSettle ==
  ASSUME NEW w \in Pages, NEW k \in Keys, Settles(w, k), Counts(w, k)' => Counts(w, k),
         \A r : r.page = w /\ r.key = k => (r \in inflight' <=> r \in inflight),
         versions'[w][k] = versions[w][k], said'[w][k] = said[w][k],
         Counts(w, k)' =>
           \/ Current(k)' = Current(k) \/ Current(k)' = NoDoc \/ Current(k)'.by # w
  PROVE  Settles(w, k)'
BY DEF Settles, IsLast

(* What a page does when it writes: the new write is the last.             *)
LEMMA WriterSettles ==
  ASSUME Types, ByTheirPages, NEW w \in Pages, NEW k \in Keys, NEW d \in Docs, NEW raw, NEW from,
         SetItem(w, k, d, raw, from), Counts(w, k)' => d.n = said'[w][k]
  PROVE  Settles(w, k)'
<1>1. PICK new : /\ inflight' = inflight \cup {new} /\ new.version = versions[w][k] + 1
                 /\ new.page = w /\ new.key = k /\ new.doc = d
  <2> DEFINE it == [page |-> w, key |-> k, version |-> versions[w][k] + 1, doc |-> d,
                    raw |-> raw, from |-> from]
  <2>1. inflight' = inflight \cup {it} /\ it.version = versions[w][k] + 1
        /\ it.page = w /\ it.key = k /\ it.doc = d
    BY DEF SetItem
  <2> QED
    BY <2>1
<1>2. versions'[w][k] = versions[w][k] + 1
  BY DEF SetItem, Types, PageTypes
<1>3. \A r \in inflight : r.page = w /\ r.key = k => r.version # versions[w][k] + 1
  BY DEF ByTheirPages, Types, PageTypes, Write
<1>4. \A r \in inflight' : IsLast(r, w, k)' => r = new
  BY <1>1, <1>2, <1>3 DEF IsLast
<1>5. new \in inflight' /\ IsLast(new, w, k)'
  BY <1>1, <1>2 DEF IsLast
<1> QED
  BY <1>1, <1>4, <1>5 DEF Settles

(* A write that is on its way is its page's, and bears a number given out. *)
LEMMA SetItemBy ==
  ASSUME Types, ByTheirPages, NEW w \in Pages, NEW k \in Keys, NEW d \in Docs, d.by = w,
         NEW raw, NEW from, SetItem(w, k, d, raw, from)
  PROVE  \A r \in inflight' : r.doc.by = r.page /\ r.version <= versions'[r.page][r.key]
<1> SUFFICES ASSUME NEW r \in inflight'
             PROVE  r.doc.by = r.page /\ r.version <= versions'[r.page][r.key]
  OBVIOUS
<1>1. \A v \in Pages, x \in Keys :
        versions'[v][x] = IF v = w /\ x = k THEN versions[w][k] + 1 ELSE versions[v][x]
  BY DEF SetItem, Types, PageTypes
<1>2. versions \in [Pages -> [Keys -> Nat]]
  BY DEF Types, PageTypes
<1>3. CASE r \in inflight
  <2>1. r.page \in Pages /\ r.key \in Keys /\ r.version \in Nat
    BY <1>3 DEF Types, PageTypes, Write
  <2> QED
    BY <1>1, <1>2, <1>3, <2>1 DEF ByTheirPages
<1>4. CASE r \notin inflight
  BY <1>1, <1>2, <1>4 DEF SetItem
<1> QED
  BY <1>3, <1>4

(* A page's write keeps the invariant, when it is said to be the last.     *)
LEMMA WriterKeepsWords ==
  ASSUME Types, WordInv, NEW w \in Pages, NEW k \in Keys, NEW d \in Docs, d.by = w,
         NEW raw, NEW from, SetItem(w, k, d, raw, from), UNCHANGED <<doc, pending, page>>,
         Counts(w, k)' => d.n = said'[w][k],
         \A v \in Pages, x \in Keys : v # w \/ x # k =>
           said'[v][x] = said[v][x] /\ (Counts(v, x)' => Counts(v, x)),
         \A v \in Pages, x \in Keys : latest'[v][x] # NoDoc => latest'[v][x].doc.by = v
  PROVE  WordInv'
<1> USE DEF WordInv
<1>1. ByTheirPages'
  BY SetItemBy DEF ByTheirPages, Current
<1>2. ASSUME NEW v \in Pages, NEW x \in Keys PROVE Settles(v, x)'
  <2>1. CASE v = w /\ x = k
    BY <2>1, WriterSettles
  <2>2. CASE v # w \/ x # k
    <3>1. \A r : r.page = v /\ r.key = x => (r \in inflight' <=> r \in inflight)
      BY <2>2 DEF SetItem
    <3>2. versions'[v][x] = versions[v][x]
      BY <2>2 DEF SetItem, Types, PageTypes
    <3> QED
      BY <2>2, <3>1, <3>2, OthersSettle DEF Current
  <2> QED
    BY <2>1, <2>2
<1> QED
  BY <1>1, <1>2

(* The main process: only a failed flush changes what readers see.         *)
LEMMA MainKeepsWords ==
  ASSUME Types, WordInv, Main
  PROVE  WordInv'
<1> USE DEF WordInv
<1>1. CASE Idle /\ UNCHANGED doc /\ UNCHANGED pending
  BY <1>1, OthersSettle DEF Idle, pages, ByTheirPages, Current, Counts
<1>2. CASE Idle /\ Flush
  <2>1. \A k \in Keys : Current(k)' = Current(k) /\ doc'[k] = Current(k)
    BY <1>2, FlushShows
  <2>2. \A w \in Pages, k \in Keys : Settles(w, k)'
    BY <1>2, <2>1, OthersSettle DEF Idle, pages, Counts
  <2> QED
    BY <1>2, <2>1, <2>2 DEF Idle, pages, ByTheirPages
<1>3. CASE FlushFails /\ Undone
  <2>1. Drop
    BY <1>3 DEF FlushFails, Drop
  <2>2. \A k \in Keys : Current(k)' = doc[k] /\ (k \notin DOMAIN pending => Current(k)' = Current(k))
    BY <2>1, DropShows
  <2>3. ASSUME NEW w \in Pages, NEW k \in Keys PROVE Settles(w, k)'
    <3>1. Counts(w, k)' => Counts(w, k) /\ k \notin DOMAIN pending
      BY <1>3 DEF Undone, Counts
    <3> QED
      BY <1>3, <2>2, <3>1, OthersSettle DEF Undone
  <2> QED
    BY <1>3, <2>1, <2>2, <2>3 DEF Undone, Drop, ByTheirPages
<1>4. CASE Crash /\ AllGone
  <2>1. \A w \in Pages : page'[w] # "open" /\ (page'[w] = "new" => page[w] = "new")
    BY <1>4 DEF AllGone, Closed, Types, PageTypes
  <2>2. inflight' = {} /\ Drop
    BY <1>4 DEF Crash, AllGone, Closed, Types, PageTypes, Write, Drop
  <2>3. \A w \in Pages, k \in Keys : latest'[w][k] = NoDoc \/ latest'[w][k] = latest[w][k]
    BY <1>4 DEF AllGone, Closed, Without
  <2>4. \A k \in Keys : Current(k)' = doc[k] /\ doc'[k] = doc[k]
    BY <2>2, DropShows DEF Drop
  <2> QED
    BY <2>1, <2>2, <2>3, <2>4 DEF ByTheirPages, Settles, Counts
<1> QED
  BY <1>1, <1>2, <1>3, <1>4
  DEF Main, Start, TimerFires, SessionEnds, BeforeQuit, WillQuit

LEMMA WordStep == ASSUME Types, IdlePages, WordInv, [Next]_vars PROVE WordInv'
<1> USE DEF WordInv
<1>1. CASE Main
  BY <1>1, MainKeepsWords
<1>2. ASSUME NEW w \in Pages, OpenPage(w) PROVE WordInv'
  <2>1. /\ UNCHANGED <<doc, pending, versions, inflight, load, latest, said, excused>>
        /\ \A k \in Keys : Current(k)' = Current(k)
        /\ \A v \in Pages : page'[v] = IF v = w THEN "open" ELSE page[v]
        /\ page[w] = "new"
    BY <1>2 DEF OpenPage, Current, Types, PageTypes
  <2>2. ASSUME NEW v \in Pages, NEW k \in Keys PROVE Settles(v, k)'
    <3>1. CASE v = w
      <4>1. \A r \in inflight : r.page # w
        BY <2>1 DEF Types, PageTypes
      <4>2. Current(k) = NoDoc \/ Current(k).by # w
        BY <2>1 DEF ByTheirPages
      <4> QED
        BY <2>1, <3>1, <4>1, <4>2 DEF Settles, IsLast
    <3>2. CASE v # w
      BY <2>1, <3>2, OthersSettle DEF Counts
    <3> QED
      BY <3>1, <3>2
  <2> QED
    BY <2>1, <2>2 DEF ByTheirPages
<1>3. ASSUME NEW w \in Pages, ClosePage(w) PROVE WordInv'
  <2>1. Closed({w}) /\ UNCHANGED <<doc, pending>> /\ page[w] = "open"
    BY <1>3 DEF ClosePage, store, Open
  <2>2. /\ \A v \in Pages : page'[v] = IF v = w THEN "gone" ELSE page[v]
        /\ \A r : r \in inflight' <=> r \in inflight /\ r.page # w
        /\ \A v \in Pages, k \in Keys : v # w =>
             /\ versions'[v][k] = versions[v][k] /\ said'[v][k] = said[v][k]
             /\ load'[v][k] = load[v][k] /\ latest'[v][k] = latest[v][k]
             /\ <<v, k>> \in excused' <=> <<v, k>> \in excused
        /\ \A k \in Keys : latest'[w][k] = NoDoc /\ Current(k)' = Current(k)
    BY <2>1 DEF Closed, Without, Current, Types, PageTypes
  <2>3. ASSUME NEW v \in Pages, NEW k \in Keys PROVE Settles(v, k)'
    <3>1. CASE v = w
      BY <2>2, <3>1 DEF Settles, Counts
    <3>2. CASE v # w
      <4>1. Counts(v, k)' => Counts(v, k)
        BY <2>2, <3>2 DEF Counts
      <4> QED
        BY <2>2, <3>2, <4>1, OthersSettle
    <3> QED
      BY <3>1, <3>2
  <2>4. ByTheirPages'
    <3>1. \A r \in inflight' : r.page \in Pages /\ r.key \in Keys /\ r.page # w /\ r \in inflight
      BY <2>2 DEF Types, PageTypes, Write
    <3>2. \A r \in inflight' : r.doc.by = r.page /\ r.version <= versions'[r.page][r.key]
      BY <2>2, <3>1 DEF ByTheirPages
    <3>3. ASSUME NEW v \in Pages, NEW k \in Keys, latest'[v][k] # NoDoc
          PROVE  latest'[v][k].doc.by = v
      <4>1. latest'[v][k] = latest[v][k]
        BY <2>2, <3>3
      <4> QED
        BY <3>3, <4>1 DEF ByTheirPages
    <3>4. \A v \in Pages : page'[v] = "new" => page[v] = "new"
      BY <2>2
    <3> QED
      BY <2>1, <2>2, <3>2, <3>3, <3>4 DEF ByTheirPages
  <2> QED
    BY <2>3, <2>4
<1>4. ASSUME NEW w \in Pages, NEW b \in Blobs, Attach(w, b) PROVE WordInv'
  BY <1>4, OthersSettle DEF Attach, ByTheirPages, Current, Counts
<1>5. ASSUME NEW w \in Pages, NEW k \in Keys, StartLoad(w, k) PROVE WordInv'
  <2>1. UNCHANGED <<doc, pending, page, versions, inflight, latest, said, excused>>
        /\ \A v \in Pages, x \in Keys : Counts(v, x)' => Counts(v, x)
    BY <1>5 DEF StartLoad, store, Counts, Types, PageTypes
  <2> QED
    BY <2>1, OthersSettle DEF ByTheirPages, Current
<1>6. ASSUME NEW r \in inflight, PutRaw(r) PROVE WordInv'
  <2> DEFINE put == [r EXCEPT !.raw = FALSE]
  <2>1. /\ UNCHANGED <<doc, pending, page, versions, latest, said, excused, load>>
        /\ inflight' = (inflight \ {r}) \cup {put}
    BY <1>6 DEF PutRaw
  <2>2. put.page = r.page /\ put.key = r.key /\ put.version = r.version /\ put.doc = r.doc
    BY DEF Types, PageTypes, Write
  <2> HIDE DEF put
  <2>3. ByTheirPages'
    BY <2>1, <2>2 DEF ByTheirPages, Current
  <2>4. ASSUME NEW v \in Pages, NEW k \in Keys PROVE Settles(v, k)'
    <3>1. (\E q \in inflight : IsLast(q, v, k)) => \E q \in inflight' : IsLast(q, v, k)'
      BY <2>1, <2>2 DEF IsLast
    <3>2. \A q \in inflight' : IsLast(q, v, k)' => \E o \in inflight : IsLast(o, v, k) /\ o.doc = q.doc
      BY <2>1, <2>2 DEF IsLast
    <3>3. Counts(v, k)' = Counts(v, k) /\ Current(k)' = Current(k) /\ Settles(v, k)
      BY <2>1 DEF Counts, Current
    <3> QED
      BY <2>1, <3>1, <3>2, <3>3 DEF Settles
  <2> QED
    BY <2>3, <2>4
<1>7. ASSUME NEW r \in inflight, Encoded(r) PROVE WordInv'
  <2>1. /\ UNCHANGED <<host, page, versions, latest, said, excused, load>>
        /\ inflight' = inflight \ {r}
        /\ r.page \in Pages /\ r.key \in Keys /\ r.doc \in Docs /\ page[r.page] = "open"
        /\ r.doc.by = r.page /\ r.doc # NoDoc
    BY <1>7, NoDocIsNone DEF Encoded, Types, PageTypes, Write, ByTheirPages
  <2>2. CASE IsLast(r, r.page, r.key)
    <3>1. Set(r.key, r.doc)
      BY <1>7, <2>2 DEF Encoded, IsLast
    <3>2. \A x \in Keys : Current(x)' = IF x = r.key THEN r.doc ELSE Current(x)
      BY <2>1, <3>1, SetShows DEF Types, Doc
    <3>3. \A x \in Keys : doc'[x] = doc[x] \/ doc'[x] = r.doc
      BY <3>1 DEF Set, Types, StoreTypes
    <3>4. ByTheirPages'
      BY <2>1, <3>2, <3>3 DEF ByTheirPages
    <3>5. ASSUME NEW v \in Pages, NEW k \in Keys PROVE Settles(v, k)'
      <4>1. CASE v = r.page /\ k = r.key
        <5>1. Settles(v, k) /\ Counts(v, k)' = Counts(v, k)
          BY <2>1 DEF Counts
        <5>2. Counts(v, k) => r.doc.n = said[v][k]
          BY <2>2, <4>1, <5>1 DEF Settles
        <5> QED
          BY <2>1, <3>2, <4>1, <5>1, <5>2 DEF Settles, IsLast
      <4>2. CASE v # r.page \/ k # r.key
        <5>1. Current(k)' = Current(k) \/ Current(k)'.by # v
          BY <2>1, <3>2, <4>2
        <5> QED
          BY <2>1, <4>2, <5>1, OthersSettle DEF Counts
      <4> QED
        BY <4>1, <4>2
    <3> QED
      BY <3>4, <3>5
  <2>3. CASE ~IsLast(r, r.page, r.key)
    <3>1. UNCHANGED <<doc, pending>>
      BY <1>7, <2>3 DEF Encoded, IsLast
    <3>2. ByTheirPages'
      BY <2>1, <3>1 DEF ByTheirPages, Current
    <3>3. ASSUME NEW v \in Pages, NEW k \in Keys PROVE Settles(v, k)'
      <4>1. \A q : IsLast(q, v, k)' = IsLast(q, v, k) /\ (IsLast(r, v, k) => v = r.page /\ k = r.key)
        BY <2>1 DEF IsLast
      <4> QED
        BY <2>1, <2>3, <3>1, <4>1 DEF Settles, Counts, Current
    <3> QED
      BY <3>2, <3>3
  <2> QED
    BY <2>2, <2>3
<1>8. ASSUME NEW w \in Pages, NEW k \in Keys, RemoveItem(w, k) PROVE WordInv'
  <2>1. /\ UNCHANGED <<host, page, latest, load, inflight>> /\ Set(k, NoDoc)
        /\ \A v \in Pages, x \in Keys :
             versions'[v][x] = IF v = w /\ x = k THEN versions[v][x] + 1 ELSE versions[v][x]
        /\ \A v \in Pages, x \in Keys : v # w \/ x # k =>
             said'[v][x] = said[v][x] /\ (<<v, x>> \in excused' <=> <<v, x>> \in excused)
    BY <1>8 DEF RemoveItem, Supersede, Types, PageTypes
  <2>2. \A x \in Keys : Current(x)' = IF x = k THEN NoDoc ELSE Current(x)
    BY <2>1, SetShows DEF Types, Doc
  <2>3. \A x \in Keys : doc'[x] = doc[x] \/ doc'[x] = NoDoc
    BY <2>1 DEF Set, Types, StoreTypes
  <2>4. \A r \in inflight : r.page \in Pages /\ r.key \in Keys /\ r.version \in Nat
        /\ versions[r.page][r.key] \in Nat
    BY DEF Types, PageTypes, Write
  <2>5. ByTheirPages'
    BY <2>1, <2>2, <2>3, <2>4 DEF ByTheirPages
  <2>6. ASSUME NEW v \in Pages, NEW x \in Keys PROVE Settles(v, x)'
    <3>1. CASE v = w /\ x = k
      <4>1. \A r \in inflight' : ~IsLast(r, v, x)'
        BY <2>1, <2>4, <3>1 DEF IsLast, ByTheirPages
      <4> QED
        BY <2>2, <3>1, <4>1 DEF Settles
    <3>2. CASE v # w \/ x # k
      BY <2>1, <2>2, <3>2, OthersSettle DEF Counts
    <3> QED
      BY <3>1, <3>2
  <2> QED
    BY <2>5, <2>6
<1>9. ASSUME NEW w \in Pages, NEW k \in Keys, NEW b \in Blobs \cup {NoBlob}, NEW raw \in BOOLEAN,
             Type(w, k, b, raw)
      PROVE  WordInv'
  <2> DEFINE d == [n |-> writes + 1, by |-> w, blob |-> b]
  <2>1. d \in Docs /\ d.by = w
    BY <1>9, DraftAssumption DEF Type, Types, PageTypes, Docs
  <2>2. UNCHANGED <<doc, pending, page, load>> /\ SetItem(w, k, d, raw, "user")
    BY <1>9 DEF Type, store
  <2>3. \A v \in Pages, x \in Keys :
          /\ said'[v][x] = IF v = w /\ x = k THEN d.n ELSE said[v][x]
          /\ latest'[v][x] = IF v = w /\ x = k THEN [doc |-> d, raw |-> raw] ELSE latest[v][x]
          /\ (v # w \/ x # k) => (<<v, x>> \in excused' <=> <<v, x>> \in excused)
    BY <1>9 DEF Type, Types, PageTypes
  <2>4. \A v \in Pages, x \in Keys : v # w \/ x # k => (Counts(v, x)' => Counts(v, x))
    BY <2>2, <2>3 DEF Counts
  <2>5. [doc |-> d, raw |-> raw].doc.by = w
    OBVIOUS
  <2> HIDE DEF d
  <2>6. \A v \in Pages, x \in Keys : latest'[v][x] # NoDoc => latest'[v][x].doc.by = v
    <3> SUFFICES ASSUME NEW v \in Pages, NEW x \in Keys, latest'[v][x] # NoDoc
                 PROVE  latest'[v][x].doc.by = v
      OBVIOUS
    <3>1. CASE v = w /\ x = k
      BY <2>3, <2>5, <3>1
    <3>2. CASE v # w \/ x # k
      <4>1. latest'[v][x] = latest[v][x]
        BY <2>3, <3>2
      <4> QED
        BY <4>1 DEF ByTheirPages
    <3> QED
      BY <3>1, <3>2
  <2>7. d.n = said'[w][k] /\ \A v \in Pages, x \in Keys : v # w \/ x # k => said'[v][x] = said[v][x]
    BY <2>3
  <2> QED
    BY <2>1, <2>2, <2>4, <2>6, <2>7, WriterKeepsWords
<1>10. ASSUME NEW w \in Pages, NEW k \in Keys, ReadCurrent(w, k) PROVE WordInv'
  <2> DEFINE d == [found[w][k] EXCEPT !.by = w]
  <2>1. found[w][k] \in Docs
    BY <1>10 DEF ReadCurrent, Types, PageTypes, Doc
  <2>2. d \in Docs /\ d.by = w /\ d.n = found[w][k].n
    BY <2>1 DEF Docs
  <2>3. UNCHANGED <<doc, pending, page, latest>> /\ load' = [load EXCEPT ![w][k] = "done"]
        /\ load[w][k] = "reading"
    BY <1>10 DEF ReadCurrent, store
  <2> HIDE DEF d
  <2>4. CASE UNCHANGED <<versions, inflight, said, excused>>
    <3>1. \A v \in Pages, x \in Keys : Counts(v, x)' => Counts(v, x)
      BY <2>3, <2>4 DEF Counts, Types, PageTypes
    <3> QED
      BY <2>3, <2>4, <3>1, OthersSettle DEF ByTheirPages, Current
  <2>5. CASE /\ SetItem(w, k, d, FALSE, "load")
             /\ IF latest[w][k] = NoDoc
                  THEN said' = [said EXCEPT ![w][k] = found[w][k].n] /\ UNCHANGED excused
                  ELSE excused' = excused \cup {<<w, k>>} /\ UNCHANGED said
    <3>1. Counts(w, k)' => d.n = said'[w][k]
      BY <2>2, <2>5 DEF Counts, Types, PageTypes
    <3>2. \A v \in Pages, x \in Keys : v # w \/ x # k =>
            said'[v][x] = said[v][x] /\ (Counts(v, x)' => Counts(v, x))
      BY <2>3, <2>5 DEF Counts, Types, PageTypes
    <3>3. \A v \in Pages, x \in Keys : latest'[v][x] # NoDoc => latest'[v][x].doc.by = v
      BY <2>3 DEF ByTheirPages
    <3> QED
      BY <2>2, <2>3, <2>5, <3>1, <3>2, <3>3, WriterKeepsWords
  <2> QED
    BY <1>10, <2>4, <2>5 DEF ReadCurrent, d
<1>11. ASSUME NEW w \in Pages, NEW k \in Keys, LookUp(w, k) PROVE WordInv'
  <2>1. /\ UNCHANGED <<doc, pending, page, latest, excused>>
        /\ load' = [load EXCEPT ![w][k] = "migrating"] /\ load[w][k] = "reading"
    BY <1>11 DEF LookUp, store
  <2>2. \A v \in Pages, x \in Keys : Counts(v, x)' => Counts(v, x)
    BY <2>1 DEF Counts, Types, PageTypes
  <2>3. CASE UNCHANGED <<versions, inflight, said>>
    BY <2>1, <2>2, <2>3, OthersSettle DEF ByTheirPages, Current
  <2>4. ASSUME NEW b \in Blobs \cup {NoBlob},
               SetItem(w, k, [n |-> 0, by |-> w, blob |-> b], b # NoBlob, "load"),
               said' = IF latest[w][k] = NoDoc THEN [said EXCEPT ![w][k] = 0] ELSE said
        PROVE  WordInv'
    <3> DEFINE d == [n |-> 0, by |-> w, blob |-> b]
    <3>1. d \in Docs /\ d.by = w /\ d.n = 0
      BY DraftAssumption DEF Docs
    <3>2. Counts(w, k)' => d.n = said'[w][k]
      BY <2>1, <2>4, <3>1 DEF Counts, Types, PageTypes
    <3>3. \A v \in Pages, x \in Keys : v # w \/ x # k => said'[v][x] = said[v][x]
      BY <2>4 DEF Types, PageTypes
    <3>4. \A v \in Pages, x \in Keys : latest'[v][x] # NoDoc => latest'[v][x].doc.by = v
      BY <2>1 DEF ByTheirPages
    <3> QED
      BY <2>1, <2>2, <2>4, <3>1, <3>2, <3>3, <3>4, WriterKeepsWords
  <2> QED
    BY <1>11, <2>3, <2>4 DEF LookUp
<1>12. ASSUME NEW w \in Pages, NEW k \in Keys, Migrated(w, k) PROVE WordInv'
  <2>1. /\ UNCHANGED <<doc, pending, page, latest, excused>>
        /\ load' = [load EXCEPT ![w][k] = "done"] /\ load[w][k] = "migrating"
    BY <1>12 DEF Migrated, store
  <2>2. \A v \in Pages, x \in Keys : (v # w \/ x # k) \/ latest[w][k] = NoDoc =>
          (Counts(v, x)' => Counts(v, x))
    BY <2>1 DEF Counts, Types, PageTypes
  <2>3. CASE latest[w][k] = NoDoc
    <3>1. UNCHANGED <<versions, inflight, said>>
      BY <1>12, <2>3 DEF Migrated, WriteAgain
    <3> QED
      BY <2>1, <2>2, <2>3, <3>1, OthersSettle DEF ByTheirPages, Current
  <2>4. CASE latest[w][k] # NoDoc
    <3> DEFINE d == latest[w][k].doc
    <3>1. SetItem(w, k, d, latest[w][k].raw, "load") /\ said' = [said EXCEPT ![w][k] = d.n]
      BY <1>12, <2>4 DEF Migrated, WriteAgain
    <3>2. d \in Docs /\ d.by = w
      BY <2>4 DEF Types, PageTypes, ByTheirPages
    <3> HIDE DEF d
    <3>3. said'[w][k] = d.n /\ \A v \in Pages, x \in Keys : v # w \/ x # k => said'[v][x] = said[v][x]
      BY <3>1 DEF Types, PageTypes
    <3>4. \A v \in Pages, x \in Keys : latest'[v][x] # NoDoc => latest'[v][x].doc.by = v
      BY <2>1 DEF ByTheirPages
    <3> QED
      BY <2>1, <2>2, <3>1, <3>2, <3>3, <3>4, WriterKeepsWords
  <2> QED
    BY <2>3, <2>4
<1>13. CASE UNCHANGED vars
  BY <1>13, OthersSettle DEF vars, store, pages, ByTheirPages, Current, Counts
<1> QED
  BY <1>1, <1>2, <1>3, <1>4, <1>5, <1>6, <1>7, <1>8, <1>9, <1>10, <1>11, <1>12, <1>13
  DEF Next, Encoding, Loading

(* What a page leaves is its last word, whatever was on its way.           *)
THEOREM LastWordAlwaysStands == Spec => []LastWordStands
<1>1. Init => WordInv
  BY DEF Init, StoreInit, WordInv, ByTheirPages, Settles, Current, Counts, Nothing
<1>2. Types /\ RefsInv /\ WordInv /\ [Next]_vars => WordInv'
  BY WordStep DEF RefsInv
<1>3. WordInv => LastWordStands
  <2> SUFFICES ASSUME WordInv, NEW w \in Pages, NEW k \in Keys,
                      Open(w), Of(w, k) = {}, load[w][k] \notin {"reading", "migrating"},
                      <<w, k>> \notin excused, Current(k) # NoDoc, Current(k).by = w
               PROVE  Current(k).n = said[w][k]
    BY DEF LastWordStands
  <2>1. Settles(w, k) /\ Counts(w, k)
    BY DEF WordInv, Counts, Open
  <2>2. \A r \in inflight : ~IsLast(r, w, k)
    BY DEF Of, IsLast
  <2> QED
    BY <2>1, <2>2 DEF Settles
<1> QED
  BY <1>1, <1>2, <1>3, TypesInvariant, RefsInvariant, PTL DEF Spec

=============================================================================
