---------------------------- MODULE EngineProofs ----------------------------
(***************************************************************************)
(* Proofs about the engine, for every set of keys, events and ids, both    *)
(* stores, every time to live and any number of restarts.                  *)
(***************************************************************************)
EXTENDS EngineProperties, TLAPS

USE BackendAssumption, NoneAssumption, KeyAssumption, EventAssumption, TimeAssumption

-----------------------------------------------------------------------------
(* Operators. *)

\* What NewIds offers a handler: three different ids in use nowhere.
LEMMA NewIdsAreFresh ==
    ASSUME NEW new \in NewIds
    PROVE  /\ new.root \in SpanId /\ new.grab \in SpanId /\ new.download \in SpanId
           /\ new.root # new.grab /\ new.root # new.download /\ new.grab # new.download
           /\ \A x \in {new.root, new.grab, new.download} :
                 /\ open[x] = None
                 /\ x \notin ClosedIds
                 /\ \A k \in Live : byKey[k].TraceID # x
<1> DEFINE free   == SpanId \ UsedIds
           triple == [root : free, grab : free, download : free]
<1>1. Fresh(new, free)
  <2>1. \E n \in triple : Fresh(n, free)
    BY DEF NewIds
  <2>2. new = CHOOSE n \in triple : Fresh(n, free)
    BY <2>1 DEF NewIds
  <2>. HIDE DEF triple
  <2>. QED  BY <2>1, <2>2
<1>2. \A x \in free : /\ x \in SpanId /\ open[x] = None /\ x \notin ClosedIds
                      /\ \A k \in Live : byKey[k].TraceID # x
  BY DEF UsedIds
<1>3. new.root \in free /\ new.grab \in free /\ new.download \in free
  BY <1>1 DEF Fresh
<1>. HIDE DEF free
<1>. QED  BY <1>1, <1>2, <1>3 DEF Fresh

\* The trace an event resolves to is in flight.
LEMMA ResolvedIsLive ==
    ASSUME NEW k \in MediaKey, ResolveTrace(k) # None
    PROVE  ResolveTrace(k) \in Live
BY DEF ResolveTrace, Live

\* An event that resolves to no trace finds its own key free.
LEMMA UnresolvedIsNotLive ==
    ASSUME NEW k \in MediaKey, ResolveTrace(k) = None
    PROVE  k \notin Live
BY DEF ResolveTrace, Live

\* The trace a download id leads to is in flight.
LEMMA DownloadIsLive ==
    ASSUME NEW d, GetByDownloadID(d) # None
    PROVE  GetByDownloadID(d) \in Live
BY DEF GetByDownloadID

\* Get returns a trace of the declared type for a key in flight.
LEMMA LiveTraceType ==
    ASSUME TypeOK, NEW k \in Live
    PROVE  k \in MediaKey /\ byKey[k] \in TraceState
BY DEF TypeOK, StoreTypeOK, Live

\* The context of a trace in flight leads to its root span.
LEMMA ContextRootType ==
    ASSUME TypeOK, ContextsMatchTraces, NEW k \in Live
    PROVE  ctxByKey[k].Root = byKey[k].TraceID /\ ctxByKey[k].Root \in SpanId
<1>1. k \in MediaKey /\ byKey[k] \in TraceState
  BY LiveTraceType
<1>2. ctxByKey[k] = [Root |-> byKey[k].TraceID, Remote |-> byKey[k].Resumed]
  BY <1>1 DEF ContextsMatchTraces
<1>3. byKey[k].TraceID \in SpanId
  BY <1>1 DEF TraceState
<1>. QED  BY <1>2, <1>3

-----------------------------------------------------------------------------
(* Types. *)

\* SeenEvent, on either store, leaves a time or nothing for every event.
LEMMA RecordEventType ==
    ASSUME TypeOK, NEW id \in DedupKey, NEW t \in Int,
           RecordEvent(id, t) \/ RejectEvent(id, t)
    PROVE  dedup' \in [DedupKey -> Int \cup {None}]
<1>1. dedup \in [DedupKey -> Int \cup {None}]
  BY DEF TypeOK, StoreTypeOK
<1>2. MemoryDedup(t) \in [DedupKey -> Int \cup {None}]
  BY <1>1 DEF MemoryDedup
<1>3. CASE RecordEvent(id, t)
  BY <1>1, <1>2, <1>3 DEF RecordEvent
<1>4. CASE RejectEvent(id, t)
  BY <1>1, <1>2, <1>4 DEF RejectEvent
<1>. QED  BY <1>3, <1>4

\* Put leaves traces and index typed.
LEMMA PutType ==
    ASSUME TypeOK, NEW k \in MediaKey, NEW s \in TraceState, Put(k, s)
    PROVE  /\ byKey' \in [MediaKey -> TraceState \cup {None}]
           /\ byDLID' \in [DownloadID -> MediaKey \cup {None}]
BY DEF TypeOK, StoreTypeOK, Put, TraceState

\* The handlers that only update a trace leave everything typed.
LEMMA TouchType ==
    ASSUME TypeOK, NEW k \in Live, NEW s \in TraceState, NEW t \in Int, NEW S,
           Touch(k, s, t, S), dedup' \in [DedupKey -> Int \cup {None}], clock' \in Nat
    PROVE  TypeOK'
<1>1. [s EXCEPT !.UpdatedAt = t] \in TraceState
  BY DEF TraceState
<1>2. k \in MediaKey
  BY DEF Live
<1>3. /\ byKey' \in [MediaKey -> TraceState \cup {None}]
      /\ byDLID' \in [DownloadID -> MediaKey \cup {None}]
  BY <1>1, <1>2, PutType DEF Touch
<1>. QED  BY <1>3 DEF TypeOK, StoreTypeOK, Touch, EndSpans

\* The handlers and the janitor that close traces leave everything typed.
LEMMA CloseTracesType ==
    ASSUME TypeOK, NEW K \in SUBSET Live, NEW outcome \in Outcome, NEW t \in Int,
           CloseTraces(K, outcome, t),
           dedup' \in [DedupKey -> Int \cup {None}], clock' \in Nat
    PROVE  TypeOK'
<1>1. closed' \in [MediaKey -> ClosedTrace \cup {None}]
  <2>1. \A k \in K : byKey[k] \in TraceState
    BY LiveTraceType
  <2>. QED  BY <2>1 DEF TypeOK, StoreTypeOK, CloseTraces, RememberClosed, TraceState,
                        ClosedTrace
<1>2. rooted' \in SUBSET SpanId
  <2>1. \A x \in ClosedIds' : x \in SpanId
    BY <1>1 DEF ClosedIds, ClosedTrace
  <2>. QED  BY <2>1 DEF CloseTraces, ExportRoots
<1>3. /\ byKey' \in [MediaKey -> TraceState \cup {None}]
      /\ byDLID' \in [DownloadID -> MediaKey \cup {None}]
  BY DEF TypeOK, StoreTypeOK, CloseTraces, Delete
<1>4. /\ ctxByKey' \in [MediaKey -> RootContext \cup {None}]
      /\ open' \in [SpanId -> Span \cup {None}]
      /\ pendingDL' \in [DownloadID -> Int \cup {None}]
  BY DEF TypeOK, CloseTraces, EndSpans
<1>. QED  BY <1>1, <1>2, <1>3, <1>4 DEF TypeOK, StoreTypeOK

\* openRoot leaves records and contexts typed, and makes a trace and a span.
LEMMA OpenRootType ==
    ASSUME TypeOK, NEW ev \in Event, ev.Key \in MediaKey, NEW t \in Int,
           NEW new \in NewIds, OpenRoot(ev, t, new)
    PROVE  /\ closed' \in [MediaKey -> ClosedTrace \cup {None}]
           /\ rooted' \in SUBSET SpanId
           /\ ctxByKey' \in [MediaKey -> RootContext \cup {None}]
           /\ NewTrace(ev, t, new) \in TraceState
           /\ SpansWithRoot(new) \in [SpanId -> Span \cup {None}]
<1>1. closed' \in [MediaKey -> ClosedTrace \cup {None}]
  BY DEF TypeOK, StoreTypeOK, OpenRoot, ForgetExpired
<1>2. rooted' \in SUBSET SpanId
  <2>1. \A x \in ClosedIds' : x \in SpanId
    BY <1>1 DEF ClosedIds, ClosedTrace
  <2>. QED  BY <2>1 DEF OpenRoot, ExportRoots
<1>3. new.root \in SpanId
  BY NewIdsAreFresh
<1>4. ctxByKey' \in [MediaKey -> RootContext \cup {None}]
  BY <1>3 DEF TypeOK, OpenRoot, RootContext
<1>5. NextAttempt(ev.Key, t) \in Nat
  BY DEF TypeOK, StoreTypeOK, NextAttempt, RecallClosed, RecallKey, ClosedTrace
<1>6. NewTrace(ev, t, new) \in TraceState
  BY <1>3, <1>5 DEF NewTrace, TraceState
<1>7. SpansWithRoot(new) \in [SpanId -> Span \cup {None}]
  BY <1>3 DEF TypeOK, SpansWithRoot, RootSpan, Span
<1>. QED  BY <1>1, <1>2, <1>4, <1>6, <1>7

\* A grab, with or without a replay, leaves trace, spans and buffer typed.
LEMMA GrabOntoType ==
    ASSUME TypeOK, NEW k \in MediaKey, NEW s \in TraceState, NEW root \in SpanId,
           NEW spans \in [SpanId -> Span \cup {None}], NEW ev \in Event,
           NEW t \in Int, NEW new \in NewIds,
           GrabOnto(k, s, root, spans, ev, t, new)
    PROVE  /\ byKey' \in [MediaKey -> TraceState \cup {None}]
           /\ byDLID' \in [DownloadID -> MediaKey \cup {None}]
           /\ open' \in [SpanId -> Span \cup {None}]
           /\ pendingDL' \in [DownloadID -> Int \cup {None}]
<1> DEFINE replay == Replays(ev.DownloadID, s)
           after  == [s EXCEPT
              !.Grab = new.grab,
              !.DownloadID = IF ev.DownloadID # None THEN ev.DownloadID ELSE @,
              !.Download = IF replay THEN new.download ELSE @,
              !.UpdatedAt = IF replay THEN pendingDL[ev.DownloadID] ELSE t]
<1>1. new.grab \in SpanId /\ new.download \in SpanId
  BY NewIdsAreFresh
<1>2. replay => pendingDL[ev.DownloadID] \in Int
  BY DEF TypeOK, Parked, Replays
<1>3. after \in TraceState
  BY <1>1, <1>2 DEF TraceState
<1>4. Put(k, after)
  BY DEF GrabOnto
<1>5. /\ byKey' \in [MediaKey -> TraceState \cup {None}]
      /\ byDLID' \in [DownloadID -> MediaKey \cup {None}]
  <2>. HIDE DEF after
  <2>. QED  BY <1>3, <1>4, PutType
<1>6. ChildSpan("grab", root) \in Span /\ ChildSpan("download.transfer", root) \in Span
  BY DEF ChildSpan, Span
<1>7. open' \in [SpanId -> Span \cup {None}]
  BY <1>6 DEF GrabOnto
<1>8. pendingDL' \in [DownloadID -> Int \cup {None}]
  BY DEF TypeOK, GrabOnto
<1>. QED  BY <1>5, <1>7, <1>8

\* Engine.Process keeps every type, handler by handler.
LEMMA ProcessType ==
    ASSUME TypeOK, ContextsMatchTraces, NEW ev \in Event, NEW t \in Int,
           NEW new \in NewIds, Process(ev, t, new), clock' \in Nat
    PROVE  TypeOK'
<1>1. DedupKeyOf(ev) \in DedupKey
  OBVIOUS
<1>2. dedup' \in [DedupKey -> Int \cup {None}]
  BY <1>1, RecordEventType DEF Process, DropDuplicate, OnRequestOpened,
     OnRequestApproved, OnRequestClosed, OnGrabbed, OnDownloadStart, OnDownloadDone,
     OnImported, OnManualNeeded, Accept
<1>3. Return => TypeOK'
  BY <1>2 DEF Return, TypeOK, StoreTypeOK
<1>4. CASE DropDuplicate(ev, t)
  BY <1>3, <1>4 DEF DropDuplicate
<1>5. CASE OnRequestOpened(ev, t, new)
  <2>1. ev.Key \in MediaKey
    BY <1>5 DEF OnRequestOpened, Accept
  <2>2. CASE Return
    BY <1>3, <2>2
  <2>3. CASE /\ OpenRoot(ev, t, new)
             /\ Put(ev.Key, NewTrace(ev, t, new))
             /\ open' = SpansWithRoot(new)
             /\ UNCHANGED pendingDL
    BY <1>2, <2>1, <2>3, OpenRootType, PutType DEF TypeOK, StoreTypeOK
  <2>. QED  BY <1>5, <2>2, <2>3 DEF OnRequestOpened
<1>6. CASE OnRequestApproved(ev, t)
  <2>1. ev.Key \in MediaKey
    BY <1>6 DEF OnRequestApproved, Accept
  <2> DEFINE k == ResolveTrace(ev.Key)
  <2>2. CASE Return
    BY <1>3, <2>2
  <2>3. CASE k # None /\ Touch(k, byKey[k], t, {})
    BY <1>2, <2>1, <2>3, ResolvedIsLive, LiveTraceType, TouchType
  <2>. QED  BY <1>6, <2>2, <2>3 DEF OnRequestApproved
<1>7. CASE OnRequestClosed(ev, t)
  <2>1. ev.Key \in MediaKey /\ ev.Outcome \in Outcome
    BY <1>7 DEF OnRequestClosed, Accept
  <2> DEFINE k == ResolveTrace(ev.Key)
  <2>2. CASE Return
    BY <1>3, <2>2
  <2>3. CASE k # None /\ CloseTraces({k}, ev.Outcome, t)
    BY <1>2, <2>1, <2>3, ResolvedIsLive, CloseTracesType
  <2>. QED  BY <1>7, <2>2, <2>3 DEF OnRequestClosed
<1>8. CASE OnGrabbed(ev, t, new)
  <2>1. ev.Key \in MediaKey
    BY <1>8 DEF OnGrabbed, Accept
  <2> DEFINE k == ResolveTrace(ev.Key)
  <2>2. CASE /\ k # None
             /\ GrabOnto(k, byKey[k], ctxByKey[k].Root, open, ev, t, new)
             /\ UNCHANGED <<closed, ctxByKey, rooted>>
    <3>1. k \in Live /\ k \in MediaKey /\ byKey[k] \in TraceState
      BY <2>1, <2>2, ResolvedIsLive, LiveTraceType
    <3>2. ctxByKey[k].Root \in SpanId
      BY <3>1, ContextRootType
    <3>. QED  BY <1>2, <2>2, <3>1, <3>2, GrabOntoType DEF TypeOK, StoreTypeOK
  <2>3. CASE /\ OpenRoot(ev, t, new)
             /\ GrabOnto(ev.Key, NewTrace(ev, t, new), new.root,
                         SpansWithRoot(new), ev, t, new)
    <3>1. new.root \in SpanId
      BY NewIdsAreFresh
    <3>. QED  BY <1>2, <2>1, <2>3, <3>1, OpenRootType, GrabOntoType
              DEF TypeOK, StoreTypeOK
  <2>. QED  BY <1>8, <2>2, <2>3 DEF OnGrabbed
<1>9. CASE OnDownloadStart(ev, t, new)
  <2>1. ev.DownloadID \in DownloadID
    BY <1>9 DEF OnDownloadStart, Accept
  <2> DEFINE k == GetByDownloadID(ev.DownloadID)
  <2>2. CASE ParkDownload(ev, t)
    BY <1>2, <2>1, <2>2 DEF ParkDownload, TypeOK, StoreTypeOK
  <2>3. CASE Return
    BY <1>3, <2>3
  <2>4. CASE k # None /\ StartDownload(k, t, new)
    <3>1. k \in Live /\ k \in MediaKey /\ byKey[k] \in TraceState
      BY <2>4, DownloadIsLive, LiveTraceType
    <3>2. new.download \in SpanId
      BY NewIdsAreFresh
    <3>3. [byKey[k] EXCEPT !.Download = new.download, !.UpdatedAt = t] \in TraceState
      BY <3>1, <3>2 DEF TraceState
    <3>4. /\ byKey' \in [MediaKey -> TraceState \cup {None}]
          /\ byDLID' \in [DownloadID -> MediaKey \cup {None}]
      BY <2>4, <3>1, <3>3, PutType DEF StartDownload
    <3>5. ctxByKey[k].Root \in SpanId
      BY <3>1, ContextRootType
    <3>6. open' \in [SpanId -> Span \cup {None}]
      BY <2>4, <3>2, <3>5 DEF StartDownload, TypeOK, ChildSpan, Span
    <3>. QED  BY <1>2, <2>4, <3>4, <3>6 DEF StartDownload, TypeOK, StoreTypeOK
  <2>. QED  BY <1>9, <2>2, <2>3, <2>4 DEF OnDownloadStart
<1>10. CASE OnDownloadDone(ev, t)
  <2> DEFINE k == GetByDownloadID(ev.DownloadID)
             s == [byKey[k] EXCEPT !.Download = None]
  <2>1. CASE Return
    BY <1>3, <2>1
  <2>2. CASE k # None /\ Touch(k, s, t, {byKey[k].Download})
    <3>1. k \in Live /\ byKey[k] \in TraceState
      BY <2>2, DownloadIsLive, LiveTraceType
    <3>2. s \in TraceState
      BY <3>1 DEF TraceState
    <3>. HIDE DEF s
    <3>. QED  BY <1>2, <2>2, <3>1, <3>2, TouchType
  <2>. QED  BY <1>10, <2>1, <2>2 DEF OnDownloadDone
<1>11. CASE OnImported(ev, t)
  <2>1. ev.Key \in MediaKey
    BY <1>11 DEF OnImported, Accept
  <2> DEFINE k == ResolveTrace(ev.Key)
             s == [byKey[k] EXCEPT !.Grab = None, !.Download = None]
  <2>2. CASE Return
    BY <1>3, <2>2
  <2>3. CASE k # None /\ Touch(k, s, t, Handles(byKey[k]))
    <3>1. k \in Live /\ byKey[k] \in TraceState
      BY <2>1, <2>3, ResolvedIsLive, LiveTraceType
    <3>2. s \in TraceState
      BY <3>1 DEF TraceState
    <3>. HIDE DEF s
    <3>. QED  BY <1>2, <2>3, <3>1, <3>2, TouchType
  <2>4. CASE k # None /\ CloseTraces({k}, "available", t)
    <3>1. k \in Live
      BY <2>1, <2>4, ResolvedIsLive
    <3>2. "available" \in Outcome
      BY DEF Outcome
    <3>. QED  BY <1>2, <2>4, <3>1, <3>2, CloseTracesType
  <2>. QED  BY <1>11, <2>2, <2>3, <2>4 DEF OnImported
<1>12. CASE OnManualNeeded(ev, t)
  <2>1. ev.Key \in MediaKey
    BY <1>12 DEF OnManualNeeded, Accept
  <2> DEFINE k == ResolveTrace(ev.Key)
  <2>2. CASE Return
    BY <1>3, <2>2
  <2>3. CASE k # None /\ Touch(k, byKey[k], t, {})
    BY <1>2, <2>1, <2>3, ResolvedIsLive, LiveTraceType, TouchType
  <2>. QED  BY <1>12, <2>2, <2>3 DEF OnManualNeeded
<1>. QED  BY <1>4, <1>5, <1>6, <1>7, <1>8, <1>9, <1>10, <1>11, <1>12 DEF Process
-----------------------------------------------------------------------------
(* The inductive invariant.  A step that ends a span or opens one under a  *)
(* new id needs to know whose the other spans are, so the agreement of     *)
(* contexts, handles and open spans is inductive only as a whole; and that *)
(* a record is replaced by a later attempt needs that the attempt in       *)
(* flight was numbered above it when it was opened.                        *)

IInv ==
    /\ TypeOK
    /\ ContextsMatchTraces
    /\ TraceIdsUnique
    /\ HandlesAreOpen
    /\ NoLeakedSpan
    /\ AttemptsAscend

\* Put adds or replaces one trace and no other.
LEMMA PutEffect ==
    ASSUME TypeOK, NEW k \in MediaKey, NEW s \in TraceState, Put(k, s)
    PROVE  /\ Live' = Live \cup {k}
           /\ byKey'[k] = s
           /\ \A j \in MediaKey \ {k} : byKey'[j] = byKey[j]
<1>1. byKey'[k] = s /\ \A j \in MediaKey \ {k} : byKey'[j] = byKey[j]
  BY DEF TypeOK, StoreTypeOK, Put
<1>2. s # None
  OBVIOUS
<1>. QED  BY <1>1, <1>2 DEF Live

\* Two traces share no span, and no span has two roles in one trace.
LEMMA SpansApart ==
    ASSUME IInv, NEW j \in Live, NEW k \in Live
    PROVE  /\ byKey[j].TraceID \notin Handles(byKey[k])
           /\ j # k => Handles(byKey[j]) \cap Handles(byKey[k]) = {}
           /\ byKey[j].Grab # None => byKey[j].Grab # byKey[k].Download
<1>1. /\ open[byKey[j].TraceID] \in {None, RootSpan}
      /\ byKey[j].Grab # None => open[byKey[j].Grab] = ChildSpan("grab", byKey[j].TraceID)
      /\ byKey[j].Download # None =>
            open[byKey[j].Download] = ChildSpan("download.transfer", byKey[j].TraceID)
  BY DEF IInv, HandlesAreOpen
<1>2. /\ byKey[k].Grab # None => open[byKey[k].Grab] = ChildSpan("grab", byKey[k].TraceID)
      /\ byKey[k].Download # None =>
            open[byKey[k].Download] = ChildSpan("download.transfer", byKey[k].TraceID)
  BY DEF IInv, HandlesAreOpen
<1>3. byKey[j].TraceID = byKey[k].TraceID => j = k
  BY DEF IInv, TraceIdsUnique
<1>4. /\ byKey[k].TraceID \in SpanId /\ byKey[j].TraceID \in SpanId
  BY LiveTraceType DEF IInv, TraceState
<1>5. \A x, y \in SpanId :
        /\ ChildSpan("grab", x) # None /\ ChildSpan("download.transfer", x) # None
        /\ ChildSpan("grab", x) # RootSpan /\ ChildSpan("download.transfer", x) # RootSpan
        /\ ChildSpan("grab", x) # ChildSpan("download.transfer", y)
        /\ ChildSpan("grab", x) = ChildSpan("grab", y) => x = y
        /\ ChildSpan("download.transfer", x) = ChildSpan("download.transfer", y) => x = y
  <2>1. \A x \in SpanId : /\ ChildSpan("grab", x) \in Span
                          /\ ChildSpan("download.transfer", x) \in Span
    BY DEF ChildSpan, Span
  <2>. QED  BY <2>1 DEF ChildSpan, RootSpan
<1>. QED  BY <1>1, <1>2, <1>3, <1>4, <1>5 DEF Handles

\* A step that leaves traces, records, contexts and spans alone.
LEMMA IdleInv ==
    ASSUME IInv, TypeOK', UNCHANGED <<byKey, closed, ctxByKey, open>>
    PROVE  IInv'
BY DEF IInv, ContextsMatchTraces, TraceIdsUnique, HandlesAreOpen, NoLeakedSpan,
       AttemptsAscend, Live, ClosedIds

\* A trace keeps its identity and gives up the handles of the spans that end.
LEMMA TouchInv ==
    ASSUME IInv, TypeOK', NEW k \in Live, NEW s \in TraceState, NEW t \in Int, NEW S,
           s.TraceID = byKey[k].TraceID, s.Attempt = byKey[k].Attempt,
           s.Resumed = byKey[k].Resumed,
           s.Grab \in {None, byKey[k].Grab}, s.Download \in {None, byKey[k].Download},
           S \subseteq Handles(byKey[k]) \cup {None},
           Handles(s) \cap S = {}, Handles(byKey[k]) \subseteq Handles(s) \cup S,
           Touch(k, s, t, S)
    PROVE  IInv'
<1> DEFINE u == [s EXCEPT !.UpdatedAt = t]
<1>1. /\ u \in TraceState /\ u.TraceID = s.TraceID /\ u.Attempt = s.Attempt
      /\ u.Resumed = s.Resumed /\ u.Grab = s.Grab /\ u.Download = s.Download
  BY DEF TraceState
<1>2. Put(k, u)
  BY DEF Touch
<1>. HIDE DEF u
<1>3. TypeOK /\ k \in MediaKey
  BY DEF IInv, Live
<1>4. /\ Live' = Live /\ byKey'[k] = u
      /\ \A j \in MediaKey \ {k} : byKey'[j] = byKey[j]
  <2>1. /\ Live' = Live \cup {k} /\ byKey'[k] = u
        /\ \A j \in MediaKey \ {k} : byKey'[j] = byKey[j]
    BY <1>1, <1>2, <1>3, PutEffect
  <2>2. Live \cup {k} = Live
    OBVIOUS
  <2>. QED  BY <2>1, <2>2
<1>5. \A j \in Live : /\ byKey'[j].TraceID = byKey[j].TraceID
                      /\ byKey'[j].Attempt = byKey[j].Attempt
                      /\ byKey'[j].Resumed = byKey[j].Resumed
                      /\ byKey'[j].Grab \in {None, byKey[j].Grab}
                      /\ byKey'[j].Download \in {None, byKey[j].Download}
  BY <1>1, <1>4 DEF Live
<1>6. ClosedIds' = ClosedIds
  BY DEF Touch, ClosedIds
<1>7. \A j \in Live : /\ byKey'[j].TraceID \in SpanId
                      /\ byKey'[j].Grab \in SpanId \cup {None}
                      /\ byKey'[j].Download \in SpanId \cup {None}
  BY <1>4, <1>5, LiveTraceType DEF IInv, TraceState
<1>8. \A x \in SpanId : open'[x] = IF x \in S THEN None ELSE open[x]
  BY DEF Touch, EndSpans
<1>9. ContextsMatchTraces'
  BY <1>4, <1>5 DEF IInv, ContextsMatchTraces, Touch
<1>10. TraceIdsUnique'
  BY <1>4, <1>5, <1>6 DEF IInv, TraceIdsUnique
<1>11. HandlesAreOpen'
  <2>. SUFFICES ASSUME NEW j \in Live
                PROVE  /\ open'[byKey'[j].TraceID] =
                              IF byKey'[j].Resumed THEN None ELSE RootSpan
                       /\ byKey'[j].Grab # None =>
                             open'[byKey'[j].Grab] = ChildSpan("grab", byKey'[j].TraceID)
                       /\ byKey'[j].Download # None =>
                             open'[byKey'[j].Download] =
                                ChildSpan("download.transfer", byKey'[j].TraceID)
    BY <1>4 DEF HandlesAreOpen
  <2>1. byKey'[j].TraceID \notin S
    BY <1>5, <1>7, SpansApart
  <2>2. byKey'[j].Grab # None => byKey'[j].Grab \notin S
    <3>1. CASE j = k
      BY <1>1, <1>4, <3>1 DEF Handles
    <3>2. CASE j # k
      BY <1>5, <3>2, SpansApart DEF Handles
    <3>. QED  BY <3>1, <3>2
  <2>3. byKey'[j].Download # None => byKey'[j].Download \notin S
    <3>1. CASE j = k
      BY <1>1, <1>4, <3>1 DEF Handles
    <3>2. CASE j # k
      BY <1>5, <3>2, SpansApart DEF Handles
    <3>. QED  BY <3>1, <3>2
  <2>4. /\ open[byKey[j].TraceID] = IF byKey[j].Resumed THEN None ELSE RootSpan
        /\ byKey[j].Grab # None => open[byKey[j].Grab] = ChildSpan("grab", byKey[j].TraceID)
        /\ byKey[j].Download # None =>
              open[byKey[j].Download] = ChildSpan("download.transfer", byKey[j].TraceID)
    BY DEF IInv, HandlesAreOpen
  <2>. QED  BY <1>5, <1>7, <1>8, <2>1, <2>2, <2>3, <2>4
<1>12. NoLeakedSpan'
  <2>. SUFFICES ASSUME NEW x \in SpanId, open'[x] # None
                PROVE  \E j \in Live :
                          x \in Handles(byKey'[j]) \cup {byKey'[j].TraceID}
    BY <1>4 DEF NoLeakedSpan
  <2>1. x \notin S /\ open[x] # None
    BY <1>8
  <2>2. PICK j \in Live : x \in Handles(byKey[j]) \cup {byKey[j].TraceID}
    BY <2>1 DEF IInv, NoLeakedSpan
  <2>3. CASE j = k
    BY <1>1, <1>4, <1>5, <2>1, <2>2, <2>3 DEF Handles
  <2>4. CASE j # k
    BY <1>4, <2>2, <2>4 DEF Live
  <2>. QED  BY <2>3, <2>4
<1>13. AttemptsAscend'
  BY <1>4, <1>5 DEF IInv, AttemptsAscend, Touch
<1>. QED  BY <1>9, <1>10, <1>11, <1>12, <1>13 DEF IInv

\* Traces that are closed take their spans with them.
LEMMA CloseTracesInv ==
    ASSUME IInv, TypeOK', NEW K \in SUBSET Live, NEW outcome \in Outcome, NEW t \in Int,
           CloseTraces(K, outcome, t)
    PROVE  IInv'
<1> DEFINE S == UNION {Handles(byKey[k]) \cup EndedRoot(k) : k \in K}
<1>1. \A k \in MediaKey : byKey'[k] = IF k \in K THEN None ELSE byKey[k]
  BY DEF CloseTraces, Delete
<1>2. Live' = Live \ K
  BY <1>1 DEF Live
<1>3. \A k \in Live : k \in MediaKey /\ byKey[k] \in TraceState
  BY LiveTraceType DEF IInv
<1>4. \A k \in Live : EndedRoot(k) = IF byKey[k].Resumed THEN {} ELSE {byKey[k].TraceID}
  <2>. SUFFICES ASSUME NEW k \in Live
                PROVE  EndedRoot(k) = IF byKey[k].Resumed THEN {} ELSE {byKey[k].TraceID}
    OBVIOUS
  <2>1. ctxByKey[k] = [Root |-> byKey[k].TraceID, Remote |-> byKey[k].Resumed]
    BY <1>3 DEF IInv, ContextsMatchTraces
  <2>2. ctxByKey[k].Root = byKey[k].TraceID /\ ctxByKey[k].Remote = byKey[k].Resumed
    BY <2>1
  <2>. QED  BY <2>2 DEF EndedRoot
<1>5. \A x \in SpanId : open'[x] = IF x \in S THEN None ELSE open[x]
  BY DEF CloseTraces, EndSpans
<1>6. \A k \in MediaKey :
         closed'[k] # None =>
            \/ k \in K /\ closed'[k].TraceID = byKey[k].TraceID
            \/ k \notin K /\ closed'[k] = closed[k]
  BY DEF CloseTraces, RememberClosed
<1>7. ContextsMatchTraces'
  BY <1>1, <1>2 DEF IInv, ContextsMatchTraces, CloseTraces, Live
<1>8. TraceIdsUnique'
  <2>. SUFFICES ASSUME NEW k \in Live \ K
                PROVE  /\ byKey[k].TraceID \notin ClosedIds'
                       /\ \A j \in Live \ K : byKey[j].TraceID = byKey[k].TraceID => j = k
    BY <1>1, <1>2, <1>3 DEF TraceIdsUnique
  <2>1. \A j \in Live : byKey[j].TraceID = byKey[k].TraceID => j = k
    BY DEF IInv, TraceIdsUnique
  <2>2. \A j \in MediaKey : closed[j] # None => closed[j].TraceID # byKey[k].TraceID
    BY DEF IInv, TraceIdsUnique, ClosedIds
  <2>3. \A j \in MediaKey : closed'[j] # None => closed'[j].TraceID # byKey[k].TraceID
    BY <1>6, <2>1, <2>2
  <2>. QED  BY <2>1, <2>3 DEF ClosedIds
<1>9. HandlesAreOpen'
  <2>. SUFFICES ASSUME NEW j \in Live \ K
                PROVE  /\ open'[byKey[j].TraceID] =
                              IF byKey[j].Resumed THEN None ELSE RootSpan
                       /\ byKey[j].Grab # None =>
                             open'[byKey[j].Grab] = ChildSpan("grab", byKey[j].TraceID)
                       /\ byKey[j].Download # None =>
                             open'[byKey[j].Download] =
                                ChildSpan("download.transfer", byKey[j].TraceID)
    BY <1>1, <1>2, <1>3 DEF HandlesAreOpen
  <2>1. /\ open[byKey[j].TraceID] = IF byKey[j].Resumed THEN None ELSE RootSpan
        /\ byKey[j].Grab # None => open[byKey[j].Grab] = ChildSpan("grab", byKey[j].TraceID)
        /\ byKey[j].Download # None =>
              open[byKey[j].Download] = ChildSpan("download.transfer", byKey[j].TraceID)
    BY DEF IInv, HandlesAreOpen
  <2>2. /\ byKey[j].TraceID \in SpanId
        /\ byKey[j].Grab \in SpanId \cup {None}
        /\ byKey[j].Download \in SpanId \cup {None}
    BY <1>3 DEF TraceState
  <2>3. \A k \in K : byKey[k].TraceID # byKey[j].TraceID
    BY DEF IInv, TraceIdsUnique
  <2>4. byKey[j].TraceID \notin S
    BY <1>4, <2>3, SpansApart
  <2>5. /\ byKey[j].Grab # None => byKey[j].Grab \notin S
        /\ byKey[j].Download # None => byKey[j].Download \notin S
    <3>1. \A k \in K : Handles(byKey[j]) \cap Handles(byKey[k]) = {}
      BY SpansApart
    <3>2. \A k \in K : Handles(byKey[j]) \cap EndedRoot(k) = {}
      BY <1>4, SpansApart
    <3>. QED  BY <3>1, <3>2 DEF Handles
  <2>. HIDE DEF S
  <2>. QED  BY <1>5, <2>1, <2>2, <2>4, <2>5
<1>10. NoLeakedSpan'
  <2>. SUFFICES ASSUME NEW x \in SpanId, open'[x] # None
                PROVE  \E j \in Live \ K :
                          x \in Handles(byKey[j]) \cup {byKey[j].TraceID}
    BY <1>1, <1>2, <1>3 DEF NoLeakedSpan
  <2>1. x \notin S /\ open[x] # None
    <3>. HIDE DEF S
    <3>. QED  BY <1>5
  <2>2. PICK j \in Live : x \in Handles(byKey[j]) \cup {byKey[j].TraceID}
    BY <2>1 DEF IInv, NoLeakedSpan
  <2>3. j \notin K
    <3>. SUFFICES ASSUME j \in K PROVE FALSE
      OBVIOUS
    <3>1. x \notin Handles(byKey[j]) /\ x \notin EndedRoot(j)
      BY <2>1
    <3>2. byKey[j].Resumed /\ x = byKey[j].TraceID
      BY <1>3, <1>4, <2>2, <3>1 DEF TraceState
    <3>. QED  BY <2>1, <3>2 DEF IInv, HandlesAreOpen
  <2>. QED  BY <2>2, <2>3
<1>11. AttemptsAscend'
  BY <1>1, <1>2, <1>3, <1>6 DEF IInv, AttemptsAscend
<1>. QED  BY <1>7, <1>8, <1>9, <1>10, <1>11 DEF IInv

\* A trace gains child spans under new ids; a new grab ends the old one.
LEMMA ExtendInv ==
    ASSUME IInv, TypeOK', NEW k \in Live, NEW s \in TraceState, NEW new \in NewIds,
           s.TraceID = byKey[k].TraceID, s.Attempt = byKey[k].Attempt,
           s.Resumed = byKey[k].Resumed,
           s.Grab \in {byKey[k].Grab, new.grab},
           s.Download \in {byKey[k].Download, new.download},
           s.Download = new.download => byKey[k].Download = None,
           Put(k, s), UNCHANGED <<closed, ctxByKey>>,
           \A x \in SpanId :
              open'[x] = IF x = new.grab /\ s.Grab = x
                            THEN ChildSpan("grab", s.TraceID)
                         ELSE IF x = new.download /\ s.Download = x
                            THEN ChildSpan("download.transfer", s.TraceID)
                         ELSE IF x = byKey[k].Grab /\ s.Grab = new.grab THEN None
                         ELSE open[x]
    PROVE  IInv'
<1>1. TypeOK /\ k \in MediaKey
  BY DEF IInv, Live
<1>2. /\ Live' = Live /\ byKey'[k] = s
      /\ \A j \in MediaKey \ {k} : byKey'[j] = byKey[j]
  <2>1. /\ Live' = Live \cup {k} /\ byKey'[k] = s
        /\ \A j \in MediaKey \ {k} : byKey'[j] = byKey[j]
    BY <1>1, PutEffect
  <2>2. Live \cup {k} = Live
    OBVIOUS
  <2>. QED  BY <2>1, <2>2
<1>3. \A j \in Live : /\ byKey'[j].TraceID = byKey[j].TraceID
                      /\ byKey'[j].Attempt = byKey[j].Attempt
                      /\ byKey'[j].Resumed = byKey[j].Resumed
  BY <1>2 DEF Live
<1>4. ClosedIds' = ClosedIds
  BY DEF ClosedIds
<1>5. /\ new.grab \in SpanId /\ new.download \in SpanId /\ new.grab # new.download
      /\ open[new.grab] = None /\ open[new.download] = None
      /\ \A j \in Live : byKey[j].TraceID \notin {new.grab, new.download}
  BY NewIdsAreFresh
<1>6. new.grab # None /\ new.download # None
  BY <1>5
<1>7. \A j \in Live :
        /\ byKey[j].TraceID \in SpanId
        /\ byKey[j].Grab \in SpanId \cup {None}
        /\ byKey[j].Download \in SpanId \cup {None}
        /\ open[byKey[j].TraceID] = IF byKey[j].Resumed THEN None ELSE RootSpan
        /\ byKey[j].Grab # None => open[byKey[j].Grab] = ChildSpan("grab", byKey[j].TraceID)
        /\ byKey[j].Download # None =>
              open[byKey[j].Download] = ChildSpan("download.transfer", byKey[j].TraceID)
  BY <1>1, LiveTraceType DEF IInv, HandlesAreOpen, TraceState
<1>8. \A x \in SpanId : ChildSpan("grab", x) # None /\ ChildSpan("download.transfer", x) # None
  <2>1. \A x \in SpanId : /\ ChildSpan("grab", x) \in Span
                          /\ ChildSpan("download.transfer", x) \in Span
    BY DEF ChildSpan, Span
  <2>. QED  BY <2>1
\* The handles in use are none of the new ids.
<1>9. \A j \in Live : Handles(byKey[j]) \cap {new.grab, new.download} = {}
  BY <1>5, <1>7, <1>8 DEF Handles
<1>10. ContextsMatchTraces'
  BY <1>2, <1>3 DEF IInv, ContextsMatchTraces
<1>11. TraceIdsUnique'
  BY <1>2, <1>3, <1>4 DEF IInv, TraceIdsUnique
<1>12. HandlesAreOpen'
  <2>. SUFFICES ASSUME NEW j \in Live
                PROVE  /\ open'[byKey'[j].TraceID] =
                              IF byKey'[j].Resumed THEN None ELSE RootSpan
                       /\ byKey'[j].Grab # None =>
                             open'[byKey'[j].Grab] = ChildSpan("grab", byKey'[j].TraceID)
                       /\ byKey'[j].Download # None =>
                             open'[byKey'[j].Download] =
                                ChildSpan("download.transfer", byKey'[j].TraceID)
    BY <1>2 DEF HandlesAreOpen
  <2>1. open'[byKey[j].TraceID] = open[byKey[j].TraceID]
    <3>1. byKey[k].Grab # byKey[j].TraceID
      BY <1>6, <1>7, SpansApart DEF Handles
    <3>. QED  BY <1>5, <1>7, <3>1
  <2>2. CASE j = k
    <3>1. s.Grab = new.grab => open'[s.Grab] = ChildSpan("grab", s.TraceID)
      BY <1>5
    <3>2. s.Grab # new.grab /\ s.Grab # None => open'[s.Grab] = open[byKey[k].Grab]
      BY <1>7, <1>9 DEF Handles
    <3>3. s.Download = new.download =>
             open'[s.Download] = ChildSpan("download.transfer", s.TraceID)
      BY <1>5
    <3>4. s.Download # new.download /\ s.Download # None =>
             open'[s.Download] = open[byKey[k].Download]
      <4>1. byKey[k].Grab # None => byKey[k].Grab # byKey[k].Download
        BY SpansApart
      <4>. QED  BY <1>7, <1>9, <4>1 DEF Handles
    <3>. QED  BY <1>2, <1>3, <1>7, <2>1, <2>2, <3>1, <3>2, <3>3, <3>4
  <2>3. CASE j # k
    <3>1. byKey'[j] = byKey[j]
      BY <1>2, <2>3 DEF Live
    <3>2. Handles(byKey[j]) \cap Handles(byKey[k]) = {}
      BY <2>3, SpansApart
    <3>3. \A x \in Handles(byKey[j]) : x \in SpanId => open'[x] = open[x]
      <4>. SUFFICES ASSUME NEW x \in Handles(byKey[j]), x \in SpanId
                    PROVE  open'[x] = open[x]
        OBVIOUS
      <4>1. x # new.grab /\ x # new.download
        BY <1>9
      <4>2. x # byKey[k].Grab
        BY <3>2 DEF Handles
      <4>. QED  BY <4>1, <4>2
    <3>. QED  BY <1>7, <2>1, <3>1, <3>3 DEF Handles
  <2>. QED  BY <2>2, <2>3
<1>13. NoLeakedSpan'
  <2>. SUFFICES ASSUME NEW x \in SpanId, open'[x] # None
                PROVE  \E j \in Live :
                          x \in Handles(byKey'[j]) \cup {byKey'[j].TraceID}
    BY <1>2 DEF NoLeakedSpan
  <2>1. CASE x = new.grab /\ s.Grab = x
    BY <1>2, <1>6, <2>1 DEF Handles
  <2>2. CASE x = new.download /\ s.Download = x
    BY <1>2, <1>6, <2>2 DEF Handles
  <2>3. CASE /\ ~(x = new.grab /\ s.Grab = x)
             /\ ~(x = new.download /\ s.Download = x)
    <3>1. open[x] # None /\ ~(x = byKey[k].Grab /\ s.Grab = new.grab)
      BY <2>3
    <3>2. PICK j \in Live : x \in Handles(byKey[j]) \cup {byKey[j].TraceID}
      BY <3>1 DEF IInv, NoLeakedSpan
    <3>3. CASE j = k
      BY <1>2, <1>3, <3>1, <3>2, <3>3 DEF Handles
    <3>4. CASE j # k
      BY <1>2, <3>2, <3>4 DEF Live
    <3>. QED  BY <3>3, <3>4
  <2>. QED  BY <2>1, <2>2, <2>3
<1>14. AttemptsAscend'
  BY <1>2, <1>3 DEF IInv, AttemptsAscend
<1>. QED  BY <1>10, <1>11, <1>12, <1>13, <1>14 DEF IInv

\* The spans after a trace s is opened with the ids of new: the root and, where
\* s holds their handles, the children, beside what was open.
SpansOpened(new, s) ==
    \A x \in SpanId :
         open'[x] = IF x = new.root THEN RootSpan
                    ELSE IF x = new.grab /\ s.Grab = x
                       THEN ChildSpan("grab", new.root)
                    ELSE IF x = new.download /\ s.Download = x
                       THEN ChildSpan("download.transfer", new.root)
                    ELSE open[x]

\* A key without a trace gets one, with all its spans new.
LEMMA OpenInv ==
    ASSUME IInv, TypeOK', NEW k \in MediaKey, k \notin Live, NEW s \in TraceState,
           NEW new \in NewIds,
           s.TraceID = new.root, s.Resumed = FALSE,
           s.Grab \in {None, new.grab}, s.Download \in {None, new.download},
           Put(k, s),
           ctxByKey' = [ctxByKey EXCEPT ![k] = [Root |-> new.root, Remote |-> FALSE]],
           \A j \in MediaKey : closed'[j] \in {closed[j], None},
           closed'[k] # None => closed'[k].Attempt < s.Attempt,
           SpansOpened(new, s)
    PROVE  IInv'
<1>. USE DEF SpansOpened
<1>1. TypeOK
  BY DEF IInv
<1>2. /\ Live' = Live \cup {k} /\ byKey'[k] = s
      /\ \A j \in MediaKey \ {k} : byKey'[j] = byKey[j]
  BY <1>1, PutEffect
<1>3. \A j \in Live : j \in MediaKey /\ j # k /\ byKey'[j] = byKey[j]
  BY <1>2 DEF Live
<1>4. /\ new.root \in SpanId /\ new.grab \in SpanId /\ new.download \in SpanId
      /\ new.root # new.grab /\ new.root # new.download /\ new.grab # new.download
      /\ open[new.root] = None /\ open[new.grab] = None /\ open[new.download] = None
      /\ new.root \notin ClosedIds
      /\ \A j \in Live : byKey[j].TraceID \notin {new.root, new.grab, new.download}
  BY NewIdsAreFresh
<1>5. \A x \in ClosedIds' : x \in ClosedIds
  BY DEF ClosedIds
<1>6. \A j \in Live :
        /\ byKey[j].TraceID \in SpanId
        /\ byKey[j].Grab \in SpanId \cup {None}
        /\ byKey[j].Download \in SpanId \cup {None}
        /\ open[byKey[j].TraceID] = IF byKey[j].Resumed THEN None ELSE RootSpan
        /\ byKey[j].Grab # None => open[byKey[j].Grab] = ChildSpan("grab", byKey[j].TraceID)
        /\ byKey[j].Download # None =>
              open[byKey[j].Download] = ChildSpan("download.transfer", byKey[j].TraceID)
  BY <1>1, LiveTraceType DEF IInv, HandlesAreOpen, TraceState
<1>7. \A x \in SpanId : ChildSpan("grab", x) # None /\ ChildSpan("download.transfer", x) # None
  <2>1. \A x \in SpanId : /\ ChildSpan("grab", x) \in Span
                          /\ ChildSpan("download.transfer", x) \in Span
    BY DEF ChildSpan, Span
  <2>. QED  BY <2>1
<1>8. \A j \in Live : \A x \in Handles(byKey[j]) :
         x \notin {new.root, new.grab, new.download}
  BY <1>4, <1>6, <1>7 DEF Handles
<1>9. ContextsMatchTraces'
  <2>1. \A j \in MediaKey \ {k} : ctxByKey'[j] = ctxByKey[j]
    BY <1>1 DEF TypeOK
  <2>2. ctxByKey'[k] = [Root |-> s.TraceID, Remote |-> s.Resumed]
    BY <1>1 DEF TypeOK
  <2>. QED  BY <1>2, <1>3, <2>1, <2>2 DEF IInv, ContextsMatchTraces
<1>10. TraceIdsUnique'
  BY <1>2, <1>3, <1>4, <1>5 DEF IInv, TraceIdsUnique
<1>11. HandlesAreOpen'
  <2>1. ASSUME NEW j \in Live
        PROVE  /\ open'[byKey[j].TraceID] = open[byKey[j].TraceID]
               /\ byKey[j].Grab # None => open'[byKey[j].Grab] = open[byKey[j].Grab]
               /\ byKey[j].Download # None =>
                     open'[byKey[j].Download] = open[byKey[j].Download]
    BY <1>4, <1>6, <1>8 DEF Handles
  <2>2. /\ open'[s.TraceID] = IF s.Resumed THEN None ELSE RootSpan
        /\ s.Grab # None => open'[s.Grab] = ChildSpan("grab", s.TraceID)
        /\ s.Download # None => open'[s.Download] = ChildSpan("download.transfer", s.TraceID)
    BY <1>4
  <2>. QED  BY <1>2, <1>3, <1>6, <2>1, <2>2 DEF HandlesAreOpen
<1>12. NoLeakedSpan'
  <2>. SUFFICES ASSUME NEW x \in SpanId, open'[x] # None
                PROVE  \E j \in Live \cup {k} :
                          x \in Handles(byKey'[j]) \cup {byKey'[j].TraceID}
    BY <1>2 DEF NoLeakedSpan
  <2>1. CASE \/ x = new.root
             \/ x = new.grab /\ s.Grab = x
             \/ x = new.download /\ s.Download = x
    BY <1>2, <1>4, <2>1 DEF Handles
  <2>2. CASE open[x] # None
    <3>1. PICK j \in Live : x \in Handles(byKey[j]) \cup {byKey[j].TraceID}
      BY <2>2 DEF IInv, NoLeakedSpan
    <3>. QED  BY <1>3, <3>1
  <2>. QED  BY <2>1, <2>2
<1>13. AttemptsAscend'
  BY <1>2, <1>3 DEF IInv, AttemptsAscend
<1>. QED  BY <1>9, <1>10, <1>11, <1>12, <1>13 DEF IInv

\* Recalling the last attempt forgets it or is outnumbered by the new one.
LEMMA RecallNumbers ==
    ASSUME TypeOK, NEW k \in MediaKey, NEW t \in Int, ForgetExpired(k, t)
    PROVE  /\ \A j \in MediaKey : closed'[j] \in {closed[j], None}
           /\ closed'[k] # None => closed'[k].Attempt < NextAttempt(k, t)
<1>1. \A j \in MediaKey : closed'[j] \in {closed[j], None}
  BY DEF TypeOK, StoreTypeOK, ForgetExpired
<1>2. ASSUME closed'[k] # None PROVE closed'[k].Attempt < NextAttempt(k, t)
  <2>1. closed'[k] = closed[k] /\ closed[k] # None
    BY <1>1, <1>2
  <2>2. RecallKey(k) = k
    BY <2>1 DEF RecallKey
  <2>3. ~Expired(closed[k], t)
    BY <1>2, <2>1, <2>2 DEF TypeOK, StoreTypeOK, ForgetExpired
  <2>4. NextAttempt(k, t) = closed[k].Attempt + 1
    BY <2>1, <2>2, <2>3 DEF NextAttempt, RecallClosed
  <2>5. closed[k].Attempt \in Nat
    BY <2>1 DEF TypeOK, StoreTypeOK, ClosedTrace
  <2>. QED  BY <2>1, <2>4, <2>5
<1>. QED  BY <1>1, <1>2

\* The memory store forgets everything; the bolt store keeps the identity of
\* every trace and gives up every handle, as no span is open any more.
LEMMA ResumedTraceType ==
    ASSUME NEW s \in TraceState
    PROVE  /\ ResumedTrace(s) \in TraceState
           /\ ResumedTrace(s).TraceID = s.TraceID /\ ResumedTrace(s).Attempt = s.Attempt
           /\ ResumedTrace(s).Grab = None /\ ResumedTrace(s).Download = None
           /\ ResumedTrace(s).Resumed = TRUE
BY DEF ResumedTrace, TraceState

\* Restore leaves everything typed, on either store.
LEMMA RestartType ==
    ASSUME TypeOK, Restart
    PROVE  TypeOK'
<1>1. StoreTypeOK'
  <2>1. CASE Backend = "memory"
    BY <2>1 DEF Restart, Resume, Reload, ReloadMemory, StoreTypeOK
  <2>2. CASE Backend # "memory"
    <3>1. \A k \in Live : ResumedTrace(byKey[k]) \in TraceState
      BY LiveTraceType, ResumedTraceType
    <3>. QED  BY <2>2, <3>1 DEF Restart, Resume, Reload, ReloadBolt, TypeOK, StoreTypeOK
  <2>. QED  BY <2>1, <2>2
<1>2. ctxByKey' \in [MediaKey -> RootContext \cup {None}]
  BY <1>1 DEF Restart, Resume, StoreTypeOK, RootContext, TraceState
<1>3. rooted' \in SUBSET SpanId
  <2>1. \A x \in ClosedIds' : x \in SpanId
    BY <1>1 DEF StoreTypeOK, ClosedIds, ClosedTrace
  <2>. QED  BY <2>1 DEF Restart, Resume, ExportRoots
<1>. QED  BY <1>1, <1>2, <1>3 DEF Restart, Resume, TypeOK

\* A restart keeps the invariant: no span is left open, and no handle.
LEMMA RestartInv ==
    ASSUME IInv, Restart
    PROVE  IInv'
<1>1. TypeOK /\ TypeOK'
  BY RestartType DEF IInv
<1>2. \A x \in SpanId : open'[x] = None
  BY DEF Restart, Resume
<1>3. NoLeakedSpan'
  BY <1>2 DEF NoLeakedSpan
<1>4. CASE Backend = "memory"
  <2>1. Live' = {} /\ \A k \in MediaKey : byKey'[k] = None
    BY <1>4 DEF Restart, Resume, Reload, ReloadMemory, Live
  <2>. QED  BY <1>1, <1>3, <2>1 DEF IInv, Restart, Resume, ContextsMatchTraces, TraceIdsUnique,
                HandlesAreOpen, AttemptsAscend
<1>5. CASE Backend # "memory"
  <2>1. \A k \in MediaKey : byKey'[k] = IF k \in Live THEN ResumedTrace(byKey[k]) ELSE None
    BY <1>5 DEF Restart, Resume, Reload, ReloadBolt
  <2>2. \A k \in Live : k \in MediaKey /\ byKey[k] \in TraceState
    BY <1>1, LiveTraceType
  <2>3. \A k \in Live :
           /\ byKey'[k] \in TraceState
           /\ byKey'[k].TraceID = byKey[k].TraceID /\ byKey'[k].Attempt = byKey[k].Attempt
           /\ byKey'[k].Grab = None /\ byKey'[k].Download = None
           /\ byKey'[k].Resumed = TRUE
           /\ byKey'[k].TraceID \in SpanId
    <3>. TAKE k \in Live
    <3> DEFINE r == ResumedTrace(byKey[k])
    <3>1. k \in MediaKey /\ byKey[k] \in TraceState
      BY <2>2
    <3>2. byKey'[k] = r
      BY <2>1, <3>1
    <3>3. /\ r \in TraceState
          /\ r.TraceID = byKey[k].TraceID /\ r.Attempt = byKey[k].Attempt
          /\ r.Grab = None /\ r.Download = None /\ r.Resumed = TRUE
      BY <3>1, ResumedTraceType
    <3>. HIDE DEF r
    <3>4. r.TraceID \in SpanId
      BY <3>3 DEF TraceState
    <3>. QED  BY <3>2, <3>3, <3>4
  <2>4. Live' = Live
    BY <2>1, <2>2, <2>3 DEF Live
  <2>5. closed' = closed /\ ClosedIds' = ClosedIds
    BY <1>5 DEF Restart, Resume, Reload, ReloadBolt, ClosedIds
  <2>6. ContextsMatchTraces'
    BY <2>1, <2>3, <2>4 DEF Restart, Resume, ContextsMatchTraces
  <2>7. TraceIdsUnique'
    BY <2>3, <2>4, <2>5 DEF IInv, TraceIdsUnique
  <2>8. HandlesAreOpen'
    BY <1>2, <2>3, <2>4 DEF HandlesAreOpen
  <2>9. AttemptsAscend'
    BY <2>3, <2>4, <2>5 DEF IInv, AttemptsAscend
  <2>. QED  BY <1>1, <1>3, <2>6, <2>7, <2>8, <2>9 DEF IInv
<1>. QED  BY <1>4, <1>5

\* onGrabbed on a trace in flight: the old grab ends, the new one is held.
LEMMA GrabOntoInv ==
    ASSUME IInv, TypeOK', NEW k \in Live, NEW ev \in Event, NEW t \in Int,
           NEW new \in NewIds,
           GrabOnto(k, byKey[k], ctxByKey[k].Root, open, ev, t, new),
           UNCHANGED <<closed, ctxByKey, rooted>>
    PROVE  IInv'
<1> DEFINE replay == Replays(ev.DownloadID, byKey[k])
           s == [byKey[k] EXCEPT
              !.Grab = new.grab,
              !.DownloadID = IF ev.DownloadID # None THEN ev.DownloadID ELSE @,
              !.Download = IF replay THEN new.download ELSE @,
              !.UpdatedAt = IF replay THEN pendingDL[ev.DownloadID] ELSE t]
<1>1. byKey[k] \in TraceState /\ ctxByKey[k].Root = byKey[k].TraceID
  BY LiveTraceType, ContextRootType DEF IInv
<1>2. /\ new.grab \in SpanId /\ new.download \in SpanId /\ new.grab # new.download
      /\ open[new.grab] = None /\ open[new.download] = None
  BY NewIdsAreFresh
<1>3. replay => pendingDL[ev.DownloadID] \in Int
  BY DEF IInv, TypeOK, Parked, Replays
<1>4. /\ s \in TraceState /\ s.TraceID = byKey[k].TraceID
      /\ s.Attempt = byKey[k].Attempt /\ s.Resumed = byKey[k].Resumed
      /\ s.Grab = new.grab
      /\ s.Download = IF replay THEN new.download ELSE byKey[k].Download
  BY <1>1, <1>2, <1>3 DEF TraceState
<1>5. Put(k, s)
  BY DEF GrabOnto
<1>6. byKey[k].Download # new.download /\ byKey[k].Grab # new.grab
      /\ byKey[k].Grab # new.download
  <2>1. \A x \in SpanId : ChildSpan("grab", x) # None /\ ChildSpan("download.transfer", x) # None
    <3>1. \A x \in SpanId : /\ ChildSpan("grab", x) \in Span
                            /\ ChildSpan("download.transfer", x) \in Span
      BY DEF ChildSpan, Span
    <3>. QED  BY <3>1
  <2>2. byKey[k].TraceID \in SpanId
    BY <1>1 DEF TraceState
  <2>. QED  BY <1>2, <2>1, <2>2 DEF IInv, HandlesAreOpen
<1>7. \A x \in SpanId :
         open'[x] = IF x = new.grab /\ s.Grab = x
                       THEN ChildSpan("grab", s.TraceID)
                    ELSE IF x = new.download /\ s.Download = x
                       THEN ChildSpan("download.transfer", s.TraceID)
                    ELSE IF x = byKey[k].Grab /\ s.Grab = new.grab THEN None
                    ELSE open[x]
  <2>. SUFFICES ASSUME NEW x \in SpanId
                PROVE  open'[x] = IF x = new.grab THEN ChildSpan("grab", byKey[k].TraceID)
                                  ELSE IF x = new.download /\ replay
                                     THEN ChildSpan("download.transfer", byKey[k].TraceID)
                                  ELSE IF x = byKey[k].Grab THEN None
                                  ELSE open[x]
    BY <1>4, <1>6
  <2>. QED  BY <1>1, <1>2, <1>6 DEF GrabOnto
<1>8. s.Download = new.download => byKey[k].Download = None
  BY <1>4, <1>6 DEF Replays
<1>9. s.Download \in {byKey[k].Download, new.download}
  BY <1>4
<1>. HIDE DEF s
<1>. QED  BY <1>4, <1>5, <1>7, <1>8, <1>9, ExtendInv

\* onGrabbed without a trace: root and grab, and a replayed download, are held.
LEMMA GrabOrphanInv ==
    ASSUME IInv, TypeOK', NEW ev \in Event, ev.Key \in MediaKey, ev.Key \notin Live,
           NEW t \in Int, NEW new \in NewIds, OpenRoot(ev, t, new),
           GrabOnto(ev.Key, NewTrace(ev, t, new), new.root, SpansWithRoot(new), ev, t, new)
    PROVE  IInv'
<1> DEFINE base == NewTrace(ev, t, new)
           replay == Replays(ev.DownloadID, base)
           s == [base EXCEPT
              !.Grab = new.grab,
              !.DownloadID = IF ev.DownloadID # None THEN ev.DownloadID ELSE @,
              !.Download = IF replay THEN new.download ELSE @,
              !.UpdatedAt = IF replay THEN pendingDL[ev.DownloadID] ELSE t]
<1>1. TypeOK /\ base \in TraceState
  BY OpenRootType DEF IInv
<1>2. /\ new.root \in SpanId /\ new.grab \in SpanId /\ new.download \in SpanId
      /\ new.root # new.grab /\ new.root # new.download /\ new.grab # new.download
  BY NewIdsAreFresh
<1>3. replay => pendingDL[ev.DownloadID] \in Int
  BY <1>1 DEF TypeOK, Parked, Replays
<1>4. /\ base.TraceID = new.root /\ base.Resumed = FALSE /\ base.Grab = None
      /\ base.Download = None /\ base.Attempt = NextAttempt(ev.Key, t)
  BY DEF NewTrace
<1>5. Put(ev.Key, s)
  BY DEF GrabOnto
<1>6. /\ s \in TraceState /\ s.TraceID = new.root /\ s.Resumed = FALSE
      /\ s.Attempt = NextAttempt(ev.Key, t) /\ s.Grab = new.grab
      /\ s.Download = IF replay THEN new.download ELSE None
  <2>. HIDE DEF base
  <2>. QED  BY <1>1, <1>2, <1>3, <1>4 DEF TraceState
<1>7. SpansOpened(new, s)
  <2>. SUFFICES ASSUME NEW x \in SpanId
                PROVE  open'[x] = IF x = new.root THEN RootSpan
                                  ELSE IF x = new.grab THEN ChildSpan("grab", new.root)
                                  ELSE IF x = new.download /\ replay
                                     THEN ChildSpan("download.transfer", new.root)
                                  ELSE open[x]
    BY <1>2, <1>6 DEF SpansOpened
  <2>1. SpansWithRoot(new)[x] = IF x = new.root THEN RootSpan ELSE open[x]
    BY <1>1, <1>2 DEF TypeOK, SpansWithRoot
  <2>2. x # base.Grab
    BY <1>4
  <2>. HIDE DEF base
  <2>. QED  BY <1>2, <2>1, <2>2 DEF GrabOnto, base
<1>8. /\ \A j \in MediaKey : closed'[j] \in {closed[j], None}
      /\ closed'[ev.Key] # None => closed'[ev.Key].Attempt < s.Attempt
  BY <1>1, <1>6, RecallNumbers DEF OpenRoot
<1>9. ctxByKey' = [ctxByKey EXCEPT ![ev.Key] = [Root |-> new.root, Remote |-> FALSE]]
  BY DEF OpenRoot
<1>10. s.Grab \in {None, new.grab} /\ s.Download \in {None, new.download}
  BY <1>6
<1>. HIDE DEF s
<1>. QED  BY <1>5, <1>6, <1>7, <1>8, <1>9, <1>10, OpenInv

\* onRequestOpened: the root is held by the new trace.
LEMMA OpenRequestInv ==
    ASSUME IInv, TypeOK', NEW ev \in Event, ev.Key \in MediaKey, ev.Key \notin Live,
           NEW t \in Int, NEW new \in NewIds, OpenRoot(ev, t, new),
           Put(ev.Key, NewTrace(ev, t, new)), open' = SpansWithRoot(new)
    PROVE  IInv'
<1> DEFINE s == NewTrace(ev, t, new)
<1>1. TypeOK /\ s \in TraceState
  BY OpenRootType DEF IInv
<1>2. /\ s.TraceID = new.root /\ s.Resumed = FALSE /\ s.Grab = None
      /\ s.Download = None /\ s.Attempt = NextAttempt(ev.Key, t)
  BY DEF NewTrace
<1>3. /\ new.root \in SpanId /\ new.grab \in SpanId /\ new.download \in SpanId
  BY NewIdsAreFresh
<1>4. \A x \in SpanId : open'[x] = IF x = new.root THEN RootSpan ELSE open[x]
  BY <1>1, <1>3 DEF TypeOK, SpansWithRoot
<1>5. /\ \A j \in MediaKey : closed'[j] \in {closed[j], None}
      /\ closed'[ev.Key] # None => closed'[ev.Key].Attempt < s.Attempt
  BY <1>1, <1>2, RecallNumbers DEF OpenRoot
<1>6. ctxByKey' = [ctxByKey EXCEPT ![ev.Key] = [Root |-> new.root, Remote |-> FALSE]]
  BY DEF OpenRoot
<1>7. Put(ev.Key, s)
  OBVIOUS
<1>8. SpansOpened(new, s)
  BY <1>2, <1>4 DEF SpansOpened
<1>9. s.Grab \in {None, new.grab} /\ s.Download \in {None, new.download}
  BY <1>2
<1>. HIDE DEF s
<1>10. ev.Key \in MediaKey /\ ev.Key \notin Live /\ s \in TraceState
  BY <1>1
<1>. QED  BY <1>2, <1>5, <1>6, <1>7, <1>8, <1>9, <1>10, OpenInv

\* handleDownloadStart on a trace without a download span.
LEMMA StartDownloadInv ==
    ASSUME IInv, TypeOK', NEW k \in Live, byKey[k].Download = None, NEW t \in Int,
           NEW new \in NewIds, StartDownload(k, t, new)
    PROVE  IInv'
<1> DEFINE s == [byKey[k] EXCEPT !.Download = new.download, !.UpdatedAt = t]
<1>1. byKey[k] \in TraceState /\ ctxByKey[k].Root = byKey[k].TraceID
  BY LiveTraceType, ContextRootType DEF IInv
<1>2. /\ new.grab \in SpanId /\ new.download \in SpanId
      /\ open[new.grab] = None
  BY NewIdsAreFresh
<1>3. /\ s \in TraceState /\ s.TraceID = byKey[k].TraceID
      /\ s.Attempt = byKey[k].Attempt /\ s.Resumed = byKey[k].Resumed
      /\ s.Grab = byKey[k].Grab /\ s.Download = new.download
  BY <1>1, <1>2 DEF TraceState
<1>4. byKey[k].Grab # new.grab
  <2>1. byKey[k].TraceID \in SpanId
    BY <1>1 DEF TraceState
  <2>2. ChildSpan("grab", byKey[k].TraceID) \in Span
    BY <2>1 DEF ChildSpan, Span
  <2>. QED  BY <1>2, <2>2 DEF IInv, HandlesAreOpen
<1>5. Put(k, s) /\ UNCHANGED <<closed, ctxByKey>>
  BY DEF StartDownload
<1>6. \A x \in SpanId :
         open'[x] = IF x = new.download THEN ChildSpan("download.transfer", s.TraceID)
                    ELSE open[x]
  BY <1>1, <1>2, <1>3 DEF IInv, TypeOK, StartDownload
<1>7. \A x \in SpanId :
         open'[x] = IF x = new.grab /\ s.Grab = x
                       THEN ChildSpan("grab", s.TraceID)
                    ELSE IF x = new.download /\ s.Download = x
                       THEN ChildSpan("download.transfer", s.TraceID)
                    ELSE IF x = byKey[k].Grab /\ s.Grab = new.grab THEN None
                    ELSE open[x]
  BY <1>3, <1>4, <1>6
<1>. HIDE DEF s
<1>. QED  BY <1>3, <1>5, <1>7, ExtendInv

\* Engine.Process, handler by handler.
LEMMA ProcessInv ==
    ASSUME IInv, NEW ev \in Event, NEW t \in Int, NEW new \in NewIds,
           Process(ev, t, new), clock' \in Nat
    PROVE  IInv'
<1>1. TypeOK'
  BY ProcessType DEF IInv
<1>2. Return => IInv'
  BY <1>1, IdleInv DEF Return
<1>3. CASE DropDuplicate(ev, t)
  BY <1>2, <1>3 DEF DropDuplicate
<1>4. ASSUME NEW k \in Live, Touch(k, byKey[k], t, {})
      PROVE  IInv'
  <2>1. byKey[k] \in TraceState
    BY LiveTraceType DEF IInv
  <2>2. byKey[k].Grab \in {None, byKey[k].Grab} /\ byKey[k].Download \in {None, byKey[k].Download}
    OBVIOUS
  <2>. QED  BY <1>1, <1>4, <2>1, <2>2, TouchInv
<1>5. CASE OnRequestOpened(ev, t, new)
  <2>1. ev.Key \in MediaKey
    BY <1>5 DEF OnRequestOpened, Accept
  <2>2. CASE Return
    BY <1>2, <2>2
  <2>3. CASE /\ ResolveTrace(ev.Key) = None
             /\ OpenRoot(ev, t, new)
             /\ Put(ev.Key, NewTrace(ev, t, new))
             /\ open' = SpansWithRoot(new)
    BY <1>1, <2>1, <2>3, UnresolvedIsNotLive, OpenRequestInv
  <2>. QED  BY <1>5, <2>2, <2>3 DEF OnRequestOpened
<1>6. CASE OnRequestApproved(ev, t)
  <2>1. ev.Key \in MediaKey
    BY <1>6 DEF OnRequestApproved, Accept
  <2> DEFINE k == ResolveTrace(ev.Key)
  <2>2. CASE Return
    BY <1>2, <2>2
  <2>3. CASE k # None /\ Touch(k, byKey[k], t, {})
    BY <1>4, <2>1, <2>3, ResolvedIsLive
  <2>. QED  BY <1>6, <2>2, <2>3 DEF OnRequestApproved
<1>7. CASE OnRequestClosed(ev, t)
  <2>1. ev.Key \in MediaKey /\ ev.Outcome \in Outcome
    BY <1>7 DEF OnRequestClosed, Accept
  <2> DEFINE k == ResolveTrace(ev.Key)
  <2>2. CASE Return
    BY <1>2, <2>2
  <2>3. CASE k # None /\ CloseTraces({k}, ev.Outcome, t)
    BY <1>1, <2>1, <2>3, ResolvedIsLive, CloseTracesInv
  <2>. QED  BY <1>7, <2>2, <2>3 DEF OnRequestClosed
<1>8. CASE OnGrabbed(ev, t, new)
  <2>1. ev.Key \in MediaKey
    BY <1>8 DEF OnGrabbed, Accept
  <2> DEFINE k == ResolveTrace(ev.Key)
  <2>2. CASE /\ k # None
             /\ GrabOnto(k, byKey[k], ctxByKey[k].Root, open, ev, t, new)
             /\ UNCHANGED <<closed, ctxByKey, rooted>>
    BY <1>1, <2>1, <2>2, ResolvedIsLive, GrabOntoInv
  <2>3. CASE /\ k = None
             /\ OpenRoot(ev, t, new)
             /\ GrabOnto(ev.Key, NewTrace(ev, t, new), new.root,
                         SpansWithRoot(new), ev, t, new)
    BY <1>1, <2>1, <2>3, UnresolvedIsNotLive, GrabOrphanInv
  <2>. QED  BY <1>8, <2>2, <2>3 DEF OnGrabbed
<1>9. CASE OnDownloadStart(ev, t, new)
  <2> DEFINE k == GetByDownloadID(ev.DownloadID)
  <2>1. CASE ParkDownload(ev, t)
    BY <1>1, <2>1, IdleInv DEF ParkDownload
  <2>2. CASE Return
    BY <1>2, <2>2
  <2>3. CASE k # None /\ byKey[k].Download = None /\ StartDownload(k, t, new)
    BY <1>1, <2>3, DownloadIsLive, StartDownloadInv
  <2>. QED  BY <1>9, <2>1, <2>2, <2>3 DEF OnDownloadStart
<1>10. CASE OnDownloadDone(ev, t)
  <2> DEFINE k == GetByDownloadID(ev.DownloadID)
             s == [byKey[k] EXCEPT !.Download = None]
  <2>1. CASE Return
    BY <1>2, <2>1
  <2>2. CASE k # None /\ Touch(k, s, t, {byKey[k].Download})
    <3>1. k \in Live /\ byKey[k] \in TraceState
      BY <2>2, DownloadIsLive, LiveTraceType DEF IInv
    <3>2. /\ s \in TraceState /\ s.TraceID = byKey[k].TraceID
          /\ s.Attempt = byKey[k].Attempt /\ s.Resumed = byKey[k].Resumed
          /\ s.Grab = byKey[k].Grab /\ s.Download = None
      BY <3>1 DEF TraceState
    <3>3. byKey[k].Grab # None => byKey[k].Grab # byKey[k].Download
      BY <3>1, SpansApart
    <3>4. /\ {byKey[k].Download} \subseteq Handles(byKey[k]) \cup {None}
          /\ Handles(s) \cap {byKey[k].Download} = {}
          /\ Handles(byKey[k]) \subseteq Handles(s) \cup {byKey[k].Download}
      BY <3>2, <3>3 DEF Handles
    <3>. HIDE DEF s
    <3>. QED  BY <1>1, <2>2, <3>1, <3>2, <3>4, TouchInv
  <2>. QED  BY <1>10, <2>1, <2>2 DEF OnDownloadDone
<1>11. CASE OnImported(ev, t)
  <2>1. ev.Key \in MediaKey
    BY <1>11 DEF OnImported, Accept
  <2> DEFINE k == ResolveTrace(ev.Key)
             s == [byKey[k] EXCEPT !.Grab = None, !.Download = None]
  <2>2. CASE Return
    BY <1>2, <2>2
  <2>3. CASE k # None /\ Touch(k, s, t, Handles(byKey[k]))
    <3>1. k \in Live /\ byKey[k] \in TraceState
      BY <2>1, <2>3, ResolvedIsLive, LiveTraceType DEF IInv
    <3>2. /\ s \in TraceState /\ s.TraceID = byKey[k].TraceID
          /\ s.Attempt = byKey[k].Attempt /\ s.Resumed = byKey[k].Resumed
          /\ s.Grab = None /\ s.Download = None
      BY <3>1 DEF TraceState
    <3>3. Handles(s) = {}
      BY <3>2 DEF Handles
    <3>. HIDE DEF s
    <3>. QED  BY <1>1, <2>3, <3>1, <3>2, <3>3, TouchInv
  <2>4. CASE k # None /\ CloseTraces({k}, "available", t)
    <3>1. "available" \in Outcome
      BY DEF Outcome
    <3>. QED  BY <1>1, <2>1, <2>4, <3>1, ResolvedIsLive, CloseTracesInv
  <2>. QED  BY <1>11, <2>2, <2>3, <2>4 DEF OnImported
<1>12. CASE OnManualNeeded(ev, t)
  <2>1. ev.Key \in MediaKey
    BY <1>12 DEF OnManualNeeded, Accept
  <2> DEFINE k == ResolveTrace(ev.Key)
  <2>2. CASE Return
    BY <1>2, <2>2
  <2>3. CASE k # None /\ Touch(k, byKey[k], t, {})
    BY <1>4, <2>1, <2>3, ResolvedIsLive
  <2>. QED  BY <1>12, <2>2, <2>3 DEF OnManualNeeded
<1>. QED  BY <1>3, <1>5, <1>6, <1>7, <1>8, <1>9, <1>10, <1>11, <1>12 DEF Process

\* The initial state has no trace and no span.
LEMMA InitInv == Init => IInv
<1>. SUFFICES ASSUME Init PROVE IInv
  OBVIOUS
<1>1. Live = {} /\ \A k \in MediaKey : closed[k] = None
  BY DEF Init, StoreInit, Live
<1>2. TypeOK
  BY DEF Init, StoreInit, TypeOK, StoreTypeOK
<1>. QED  BY <1>1, <1>2 DEF Init, IInv, ContextsMatchTraces, TraceIdsUnique,
              HandlesAreOpen, NoLeakedSpan, AttemptsAscend

\* Every step of the engine, of the queue poller, of the janitor, of a
\* restart and of the clock.
LEMMA NextInv == IInv /\ [Next]_vars => IInv'
<1>. SUFFICES ASSUME IInv, [Next]_vars PROVE IInv'
  OBVIOUS
<1>1. TypeOK /\ clock \in Nat /\ clock \in Int
  BY DEF IInv, TypeOK
<1>2. CASE Deliver
  <2>1. PICK new \in NewIds, ev \in Event : \E t \in Stamps(ev) : Process(ev, t, new)
    BY <1>2 DEF Deliver
  <2>2. PICK t \in Stamps(ev) : Process(ev, t, new)
    BY <2>1
  <2>3. t \in Int
    BY <1>1 DEF Stamps
  <2>4. clock' \in Nat
    BY <1>1, <1>2 DEF Deliver
  <2>. QED  BY <2>2, <2>3, <2>4, ProcessInv
<1>3. CASE NoteQueueIssue
  <2>1. PICK d \in DownloadID, t \in (clock - Lag) .. clock :
           /\ GetByDownloadID(d) # None
           /\ Touch(GetByDownloadID(d), byKey[GetByDownloadID(d)], t, {})
    BY <1>3 DEF NoteQueueIssue, NoteIssue
  <2> DEFINE k == GetByDownloadID(d)
  <2>2. k \in Live /\ byKey[k] \in TraceState /\ t \in Int
    BY <1>1, <2>1, DownloadIsLive, LiveTraceType
  <2>3. dedup' \in [DedupKey -> Int \cup {None}] /\ clock' \in Nat
    BY <1>1, <1>3 DEF NoteQueueIssue, NoteIssue, TypeOK, StoreTypeOK
  <2>4. TypeOK'
    BY <1>1, <2>1, <2>2, <2>3, TouchType
  <2>5. byKey[k].Grab \in {None, byKey[k].Grab} /\ byKey[k].Download \in {None, byKey[k].Download}
    OBVIOUS
  <2>. HIDE DEF k
  <2>. QED  BY <2>1, <2>2, <2>4, <2>5, TouchInv DEF k
<1>4. CASE Sweep
  <2>1. Stale(maxTraceDuration, clock) \subseteq Live
    BY DEF Stale
  <2>2. "timeout" \in Outcome
    BY DEF Outcome
  <2>3. CloseTraces(Stale(maxTraceDuration, clock), "timeout", clock)
    BY <1>4 DEF Sweep
  <2>4. TypeOK'
    <3>1. dedup' \in [DedupKey -> Int \cup {None}] /\ clock' \in Nat
      BY <1>1, <1>4 DEF Sweep, TypeOK, StoreTypeOK
    <3>. QED  BY <1>1, <2>1, <2>2, <2>3, <3>1, CloseTracesType
  <2>. QED  BY <1>1, <2>1, <2>2, <2>3, <2>4, CloseTracesInv
<1>5. CASE Restart
  BY <1>5, RestartInv
<1>6. CASE Tick
  <2>1. TypeOK'
    BY <1>1, <1>6 DEF Tick, TypeOK, StoreTypeOK
  <2>. QED  BY <1>6, <2>1, IdleInv DEF Tick
<1>7. CASE UNCHANGED vars
  <2>1. TypeOK'
    BY <1>1, <1>7 DEF vars, TypeOK, StoreTypeOK
  <2>. QED  BY <1>7, <2>1, IdleInv DEF vars
<1>. QED  BY <1>2, <1>3, <1>4, <1>5, <1>6, <1>7 DEF Next

\* The whole invariant holds of the engine.
THEOREM Invariance == Spec => []IInv
<1>. QED  BY InitInv, NextInv, PTL DEF Spec
-----------------------------------------------------------------------------
(* What the invariant gives, property by property. *)

\* Traces, the index, the deduplication table, contexts, parked starts and
\* spans keep their types, whatever the handlers do.
THEOREM TypeCorrect == Spec => []TypeOK
<1>1. IInv => TypeOK
  BY DEF IInv
<1>. QED  BY <1>1, Invariance, PTL

\* Store.byKey and Engine.ctxByKey stay in step.
THEOREM ContextsInStep == Spec => []ContextsMatchTraces
<1>1. IInv => ContextsMatchTraces
  BY DEF IInv
<1>. QED  BY <1>1, Invariance, PTL

\* No trace id is taken twice, in flight or in a link to a closed trace.
THEOREM OneTracePerId == Spec => []TraceIdsUnique
<1>1. IInv => TraceIdsUnique
  BY DEF IInv
<1>. QED  BY <1>1, Invariance, PTL

\* HasGrab and HasDownload are set only while their spans are recording.
THEOREM HandlesStayOpen == Spec => []HandlesAreOpen
<1>1. IInv => HandlesAreOpen
  BY DEF IInv
<1>. QED  BY <1>1, Invariance, PTL

\* Supersede, import, close, sweep and restart end every span they let go of.
THEOREM NoSpanLeaks == Spec => []NoLeakedSpan
<1>1. IInv => NoLeakedSpan
  BY DEF IInv
<1>. QED  BY <1>1, Invariance, PTL

\* openRoot numbers an attempt above the one RecallClosed found.
THEOREM AttemptsNumbered == Spec => []AttemptsAscend
<1>1. IInv => AttemptsAscend
  BY DEF IInv
<1>. QED  BY <1>1, Invariance, PTL

==============================================================================
