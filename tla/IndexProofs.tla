----------------------------- MODULE IndexProofs -----------------------------
(***************************************************************************)
(* Proofs that what happens to a download is never told of other media,    *)
(* and that the latest download id of every in-flight trace leads to it,   *)
(* when no two media keys are grabbed under one download id.  Both rest on *)
(* a summary of what a step of the engine does to traces and index.        *)
(***************************************************************************)
EXTENDS EngineProofs

USE BackendAssumption, NoneAssumption, KeyAssumption, EventAssumption, TimeAssumption

-----------------------------------------------------------------------------
(* What a step does to the traces and the index. *)

\* The key whose trace a grab of the key k goes to.
GrabTarget(k) == IF ResolveTrace(k) = None THEN k ELSE ResolveTrace(k)

\* A trace in flight is put with the download id it has ...
PutsSame ==
    \E k \in Live, s \in TraceState : Put(k, s) /\ s.DownloadID = byKey[k].DownloadID

\* ... a new one without any ...
PutsNew ==
    \E k \in MediaKey, s \in TraceState :
        ResolveTrace(k) = None /\ s.DownloadID = None /\ Put(k, s)

\* ... or either with that of a grab ...
PutsGrabbed ==
    \E ev \in Event, s \in TraceState :
        /\ ev.Phase = "arr.grab" /\ ev.Key \in MediaKey
        /\ ev.DownloadID # None /\ s.DownloadID = ev.DownloadID
        /\ Put(GrabTarget(ev.Key), s)

\* ... or traces are deleted ...
Deletes == \E K \in SUBSET Live : Delete(K)

\* ... or neither changes.
LeavesIndex == UNCHANGED <<byKey, byDLID>>

IndexEffect == PutsSame \/ PutsNew \/ PutsGrabbed \/ Deletes \/ LeavesIndex

LEMMA TouchEffect ==
    ASSUME TypeOK, NEW k \in Live, NEW s \in TraceState, NEW t \in Int, NEW S,
           Touch(k, s, t, S), s.DownloadID = byKey[k].DownloadID
    PROVE  IndexEffect
<1> DEFINE u == [s EXCEPT !.UpdatedAt = t]
<1>1. u \in TraceState /\ u.DownloadID = s.DownloadID
  BY DEF TraceState
<1>2. Put(k, u)
  BY DEF Touch
<1> HIDE DEF u
<1>3. PutsSame
  BY <1>1, <1>2 DEF PutsSame
<1>. QED  BY <1>3 DEF IndexEffect

\* A grab goes to the trace its key resolves to.
LEMMA GrabTargetType ==
    ASSUME NEW k \in MediaKey
    PROVE  /\ GrabTarget(k) \in MediaKey
           /\ GrabTarget(k) \in Live <=> ResolveTrace(k) # None
<1>1. CASE ResolveTrace(k) = None
  BY <1>1, UnresolvedIsNotLive DEF GrabTarget
<1>2. CASE ResolveTrace(k) # None
  BY <1>2, ResolvedIsLive DEF GrabTarget, Live
<1>. QED  BY <1>1, <1>2

\* onGrabbed, on a trace in flight or on one just opened.
LEMMA GrabEffect ==
    ASSUME TypeOK, NEW ev \in Event, ev.Phase = "arr.grab", ev.Key \in MediaKey,
           NEW k, k = GrabTarget(ev.Key), NEW s \in TraceState,
           s.DownloadID = IF k \in Live THEN byKey[k].DownloadID ELSE None,
           NEW root, NEW spans, NEW t \in Int, NEW new \in NewIds,
           GrabOnto(k, s, root, spans, ev, t, new)
    PROVE  IndexEffect
<1> DEFINE replay == Replays(ev.DownloadID, s)
           u == [s EXCEPT
              !.Grab = new.grab,
              !.DownloadID = IF ev.DownloadID # None THEN ev.DownloadID ELSE @,
              !.Download = IF replay THEN new.download ELSE @,
              !.UpdatedAt = IF replay THEN pendingDL[ev.DownloadID] ELSE t]
<1>1. new.grab \in SpanId /\ new.download \in SpanId
  BY NewIdsAreFresh
<1>2. replay => pendingDL[ev.DownloadID] \in Int
  BY DEF Parked, Replays, TypeOK
<1>3. /\ u \in TraceState
      /\ u.DownloadID = IF ev.DownloadID # None THEN ev.DownloadID ELSE s.DownloadID
  BY <1>1, <1>2 DEF TraceState
<1>4. Put(k, u)
  BY DEF GrabOnto
<1>5. k \in MediaKey /\ (k \in Live <=> ResolveTrace(ev.Key) # None)
  BY GrabTargetType
<1>. HIDE DEF u
<1>6. CASE ev.DownloadID # None
  <2>1. PutsGrabbed
    BY <1>3, <1>4, <1>6 DEF PutsGrabbed
  <2>. QED  BY <2>1 DEF IndexEffect
<1>7. CASE ev.DownloadID = None /\ k \in Live
  <2>1. PutsSame
    BY <1>3, <1>4, <1>7 DEF PutsSame
  <2>. QED  BY <2>1 DEF IndexEffect
<1>8. CASE ev.DownloadID = None /\ k \notin Live
  <2>1. k = ev.Key /\ ResolveTrace(k) = None
    BY <1>5, <1>8 DEF GrabTarget
  <2>2. PutsNew
    BY <1>3, <1>4, <1>5, <1>8, <2>1 DEF PutsNew
  <2>. QED  BY <2>2 DEF IndexEffect
<1>. QED  BY <1>6, <1>7, <1>8

\* Closing a trace deletes it.
LEMMA CloseEffect ==
    ASSUME NEW K \in SUBSET Live, NEW outcome, NEW t, CloseTraces(K, outcome, t)
    PROVE  IndexEffect
<1>1. Deletes
  BY DEF CloseTraces, Deletes
<1>. QED  BY <1>1 DEF IndexEffect

\* Engine.Process.
LEMMA ProcessEffect ==
    ASSUME TypeOK, NEW ev \in Event, NEW t \in Int, NEW new \in NewIds,
           Process(ev, t, new)
    PROVE  IndexEffect
<1> DEFINE k == ResolveTrace(ev.Key)
           j == GetByDownloadID(ev.DownloadID)
<1>1. CASE LeavesIndex
  BY <1>1 DEF IndexEffect
<1>2. CASE OnRequestOpened(ev, t, new) /\ k = None
  <2>1. /\ ev.Key \in MediaKey
        /\ OpenRoot(ev, t, new) /\ Put(ev.Key, NewTrace(ev, t, new))
    BY <1>2 DEF OnRequestOpened, Accept
  <2>2. NewTrace(ev, t, new) \in TraceState
    BY <2>1, OpenRootType
  <2>3. NewTrace(ev, t, new).DownloadID = None
    BY DEF NewTrace
  <2>4. PutsNew
    BY <1>2, <2>1, <2>2, <2>3 DEF PutsNew
  <2>. QED  BY <2>4 DEF IndexEffect
<1>3. CASE (OnRequestApproved(ev, t) \/ OnManualNeeded(ev, t)) /\ k # None
  <2>1. ev.Key \in MediaKey /\ Touch(k, byKey[k], t, {})
    BY <1>3 DEF OnRequestApproved, OnManualNeeded, Accept
  <2>. QED  BY <1>3, <2>1, ResolvedIsLive, LiveTraceType, TouchEffect
<1>4. CASE OnRequestClosed(ev, t) /\ k # None
  <2>1. ev.Key \in MediaKey /\ CloseTraces({k}, ev.Outcome, t)
    BY <1>4 DEF OnRequestClosed, Accept
  <2>. QED  BY <1>4, <2>1, ResolvedIsLive, CloseEffect
<1>5. CASE OnGrabbed(ev, t, new)
  <2>1. ev.Key \in MediaKey /\ ev.Phase = "arr.grab"
    BY <1>5 DEF OnGrabbed, Accept
  <2>2. CASE k # None
    <3>1. k \in Live /\ byKey[k] \in TraceState /\ k = GrabTarget(ev.Key)
      BY <2>1, <2>2, ResolvedIsLive, LiveTraceType DEF GrabTarget
    <3>2. GrabOnto(k, byKey[k], ctxByKey[k].Root, open, ev, t, new)
      BY <1>5, <2>2 DEF OnGrabbed
    <3>. QED  BY <2>1, <3>1, <3>2, GrabEffect
  <2>3. CASE k = None
    <3>1. /\ OpenRoot(ev, t, new)
          /\ GrabOnto(ev.Key, NewTrace(ev, t, new), new.root, SpansWithRoot(new),
                      ev, t, new)
      BY <1>5, <2>3 DEF OnGrabbed
    <3>2. NewTrace(ev, t, new) \in TraceState
      BY <2>1, <3>1, OpenRootType
    <3>3. ev.Key \notin Live /\ ev.Key = GrabTarget(ev.Key)
      BY <2>1, <2>3, UnresolvedIsNotLive DEF GrabTarget
    <3>4. NewTrace(ev, t, new).DownloadID = None
      BY DEF NewTrace
    <3>. QED  BY <2>1, <3>1, <3>2, <3>3, <3>4, GrabEffect
  <2>. QED  BY <2>2, <2>3
<1>6. CASE j # None /\ StartDownload(j, t, new)
  <2> DEFINE s == [byKey[j] EXCEPT !.Download = new.download, !.UpdatedAt = t]
  <2>1. j \in Live /\ byKey[j] \in TraceState /\ new.download \in SpanId
    BY <1>6, DownloadIsLive, LiveTraceType, NewIdsAreFresh
  <2>2. s \in TraceState /\ s.DownloadID = byKey[j].DownloadID
    BY <2>1 DEF TraceState
  <2>3. Put(j, s)
    BY <1>6 DEF StartDownload
  <2> HIDE DEF s
  <2>4. PutsSame
    BY <2>1, <2>2, <2>3 DEF PutsSame
  <2>. QED  BY <2>4 DEF IndexEffect
<1>7. CASE OnDownloadDone(ev, t) /\ j # None
  <2> DEFINE s == [byKey[j] EXCEPT !.Download = None]
  <2>1. j \in Live /\ byKey[j] \in TraceState
    BY <1>7, DownloadIsLive, LiveTraceType
  <2>2. s \in TraceState /\ s.DownloadID = byKey[j].DownloadID
    BY <2>1 DEF TraceState
  <2>3. Touch(j, s, t, {byKey[j].Download})
    BY <1>7 DEF OnDownloadDone
  <2> HIDE DEF s
  <2>. QED  BY <2>1, <2>2, <2>3, TouchEffect
<1>8. CASE OnImported(ev, t) /\ k # None
  <2> DEFINE s == [byKey[k] EXCEPT !.Grab = None, !.Download = None]
  <2>1. k \in Live /\ byKey[k] \in TraceState
    BY <1>8, ResolvedIsLive, LiveTraceType DEF OnImported, Accept
  <2>2. s \in TraceState /\ s.DownloadID = byKey[k].DownloadID
    BY <2>1 DEF TraceState
  <2>3. CASE Touch(k, s, t, Handles(byKey[k]))
    <3> HIDE DEF s
    <3>. QED  BY <2>1, <2>2, <2>3, TouchEffect
  <2>4. CASE CloseTraces({k}, "available", t)
    BY <2>1, <2>4, CloseEffect
  <2>. QED  BY <1>8, <2>3, <2>4 DEF OnImported
<1>. QED  BY <1>1, <1>2, <1>3, <1>4, <1>5, <1>6, <1>7, <1>8
          DEF Process, DropDuplicate, OnRequestOpened, OnRequestApproved,
              OnRequestClosed, OnDownloadStart, OnDownloadDone, OnImported,
              OnManualNeeded, ParkDownload, Return, LeavesIndex

\* Every step but a restart.
LEMMA EngineEffect ==
    ASSUME TypeOK, [Next]_vars
    PROVE  IndexEffect \/ Restart
<1>1. CASE Deliver
  <2>1. PICK new \in NewIds, ev \in Event : \E t \in Stamps(ev) : Process(ev, t, new)
    BY <1>1 DEF Deliver
  <2>2. PICK t \in Stamps(ev) : Process(ev, t, new)
    BY <2>1
  <2>3. t \in Int
    BY DEF Stamps, TypeOK
  <2>. QED  BY <2>2, <2>3, ProcessEffect
<1>2. CASE NoteQueueIssue
  <2>1. PICK d \in DownloadID, t \in (clock - Lag) .. clock : NoteIssue(d, t)
    BY <1>2 DEF NoteQueueIssue
  <2>2. GetByDownloadID(d) \in Live /\ t \in Int
    BY <2>1, DownloadIsLive DEF NoteIssue, TypeOK
  <2>. QED  BY <2>1, <2>2, LiveTraceType, TouchEffect DEF NoteIssue
<1>3. CASE Sweep
  <2>1. Stale(maxTraceDuration, clock) \in SUBSET Live
    BY DEF Stale
  <2>. QED  BY <1>3, <2>1, CloseEffect DEF Sweep
<1>4. CASE Tick \/ UNCHANGED vars
  BY <1>4 DEF Tick, vars, IndexEffect, LeavesIndex
<1>. QED  BY <1>1, <1>2, <1>3, <1>4 DEF Next

-----------------------------------------------------------------------------
(* Downloads keep to their media. *)

\* A put of a trace with a download id that a grab gave it.
LEMMA PutKeepsMedia ==
    ASSUME TypeOK, DownloadsKeepToTheirMedia, NEW k \in MediaKey, NEW s \in TraceState,
           Put(k, s), s.DownloadID # None => GrabOf(s.DownloadID, k)
    PROVE  DownloadsKeepToTheirMedia'
<1>1. /\ Live' = Live \cup {k} /\ byKey'[k] = s
      /\ \A j \in MediaKey \ {k} : byKey'[j] = byKey[j]
  BY PutEffect
<1>2. ASSUME NEW d \in DownloadID, byDLID'[d] # None
      PROVE  GrabOf(d, byDLID'[d])
  <2>1. \/ byDLID'[d] = byDLID[d]
        \/ byDLID'[d] = k /\ s.DownloadID = d /\ s.DownloadID # None
    BY DEF Put, TypeOK, StoreTypeOK
  <2>. QED  BY <1>2, <2>1 DEF DownloadsKeepToTheirMedia
<1>3. ASSUME NEW j \in Live', byKey'[j].DownloadID # None
      PROVE  GrabOf(byKey'[j].DownloadID, j)
  <2>1. CASE j = k
    BY <1>1, <1>3, <2>1
  <2>2. CASE j # k
    <3>1. j \in Live /\ byKey'[j] = byKey[j]
      BY <1>1, <1>3, <2>2 DEF Live
    <3>. QED  BY <1>3, <3>1 DEF DownloadsKeepToTheirMedia
  <2>. QED  BY <2>1, <2>2
<1>. QED  BY <1>2, <1>3 DEF DownloadsKeepToTheirMedia, GrabOf

\* A grab is of the trace it goes to.
LEMMA GrabIsOfTarget ==
    ASSUME NEW ev \in Event, ev.Phase = "arr.grab", ev.Key \in MediaKey
    PROVE  GrabOf(ev.DownloadID, GrabTarget(ev.Key))
BY DEF GrabOf, GrabTarget, ResolveTrace

LEMMA EffectKeepsMedia ==
    ASSUME TypeOK, DownloadsKeepToTheirMedia, IndexEffect
    PROVE  DownloadsKeepToTheirMedia'
<1>1. CASE PutsSame
  <2>1. PICK k \in Live, s \in TraceState : Put(k, s) /\ s.DownloadID = byKey[k].DownloadID
    BY <1>1 DEF PutsSame
  <2>2. k \in MediaKey /\ (s.DownloadID # None => GrabOf(s.DownloadID, k))
    BY <2>1 DEF DownloadsKeepToTheirMedia, Live
  <2>. QED  BY <2>1, <2>2, PutKeepsMedia
<1>2. CASE PutsNew
  <2>1. PICK k \in MediaKey, s \in TraceState : s.DownloadID = None /\ Put(k, s)
    BY <1>2 DEF PutsNew
  <2>. QED  BY <2>1, PutKeepsMedia
<1>3. CASE PutsGrabbed
  <2>1. PICK ev \in Event, s \in TraceState :
           /\ ev.Phase = "arr.grab" /\ ev.Key \in MediaKey
           /\ s.DownloadID = ev.DownloadID /\ Put(GrabTarget(ev.Key), s)
    BY <1>3 DEF PutsGrabbed
  <2>2. GrabTarget(ev.Key) \in MediaKey /\ GrabOf(s.DownloadID, GrabTarget(ev.Key))
    BY <2>1, GrabTargetType, GrabIsOfTarget
  <2>. QED  BY <2>1, <2>2, PutKeepsMedia
<1>4. CASE Deletes
  <2>1. PICK K \in SUBSET Live : Delete(K)
    BY <1>4 DEF Deletes
  <2>2. /\ \A k \in Live' : k \in Live /\ byKey'[k] = byKey[k]
        /\ \A d \in DownloadID : byDLID'[d] \in {byDLID[d], None}
    BY <2>1 DEF Delete, Live
  <2>. QED  BY <2>2 DEF DownloadsKeepToTheirMedia, GrabOf
<1>5. CASE LeavesIndex
  <2>1. Live' = Live /\ byKey' = byKey /\ byDLID' = byDLID
    BY <1>5 DEF LeavesIndex, Live
  <2>. QED  BY <2>1 DEF DownloadsKeepToTheirMedia, GrabOf
<1>. QED  BY <1>1, <1>2, <1>3, <1>4, <1>5 DEF IndexEffect

\* What Restore does on the bolt store: every trace keeps its download id,
\* and the entry of an id goes to one of the traces that have it.
LEMMA ReloadedIndex ==
    ASSUME TypeOK, Restart, Backend # "memory"
    PROVE  /\ Live' = Live
           /\ \A k \in Live : byKey'[k].DownloadID = byKey[k].DownloadID
           /\ \A d \in DownloadID :
                 LET claims == {k \in Live : byKey[k].DownloadID = d}
                 IN  IF claims = {} THEN byDLID'[d] = byDLID[d] ELSE byDLID'[d] \in claims
<1>1. /\ byKey' = [k \in MediaKey |-> IF k \in Live THEN ResumedTrace(byKey[k]) ELSE None]
      /\ \A d \in DownloadID :
            LET claims == {k \in Live : byKey[k].DownloadID = d}
            IN  IF claims = {} THEN byDLID'[d] = byDLID[d] ELSE byDLID'[d] \in claims
  BY DEF Restart, Reload, ReloadBolt
<1>2. ASSUME NEW k \in Live
      PROVE  /\ ResumedTrace(byKey[k]) # None
             /\ ResumedTrace(byKey[k]).DownloadID = byKey[k].DownloadID
  <2>1. byKey[k] \in TraceState
    BY LiveTraceType
  <2>2. ResumedTrace(byKey[k]) \in TraceState
    BY <2>1, ResumedTraceType
  <2>3. ResumedTrace(byKey[k]).DownloadID = byKey[k].DownloadID
    BY <2>1 DEF ResumedTrace, TraceState
  <2>4. ResumedTrace(byKey[k]) # None
    BY <2>2 DEF TraceState
  <2>. QED  BY <2>3, <2>4
<1>3. Live' = Live /\ \A k \in Live : byKey'[k].DownloadID = byKey[k].DownloadID
  BY <1>1, <1>2 DEF Live
<1>. QED  BY <1>1, <1>3

LEMMA RestartKeepsMedia ==
    ASSUME TypeOK, DownloadsKeepToTheirMedia, Restart
    PROVE  DownloadsKeepToTheirMedia'
<1>1. CASE Backend = "memory"
  BY <1>1 DEF Restart, Reload, ReloadMemory, DownloadsKeepToTheirMedia, Live
<1>2. CASE Backend # "memory"
  <2>1. ASSUME NEW k \in Live', byKey'[k].DownloadID # None
        PROVE  GrabOf(byKey'[k].DownloadID, k)
    BY <1>2, <2>1, ReloadedIndex DEF DownloadsKeepToTheirMedia
  <2>2. ASSUME NEW d \in DownloadID, byDLID'[d] # None
        PROVE  GrabOf(d, byDLID'[d])
    <3> DEFINE claims == {k \in Live : byKey[k].DownloadID = d}
    <3>1. CASE claims = {}
      <4>1. byDLID'[d] = byDLID[d]
        BY <1>2, <3>1, ReloadedIndex
      <4>. QED  BY <2>2, <4>1 DEF DownloadsKeepToTheirMedia
    <3>2. CASE claims # {}
      <4>1. byDLID'[d] \in claims
        BY <1>2, <3>2, ReloadedIndex
      <4>. QED  BY <4>1 DEF DownloadsKeepToTheirMedia
    <3>. QED  BY <3>1, <3>2
  <2>. QED  BY <2>1, <2>2 DEF DownloadsKeepToTheirMedia, GrabOf
<1>. QED  BY <1>1, <1>2

\* However stale an entry of the index, it leads to media that were grabbed
\* under its download id.
THEOREM NoOtherMedia == Spec => []DownloadsKeepToTheirMedia
<1>1. Init => DownloadsKeepToTheirMedia
  BY DEF Init, StoreInit, DownloadsKeepToTheirMedia, Live
<1>2. TypeOK /\ DownloadsKeepToTheirMedia /\ [Next]_vars => DownloadsKeepToTheirMedia'
  BY EngineEffect, EffectKeepsMedia, RestartKeepsMedia
<1>. QED  BY <1>1, <1>2, TypeCorrect, PTL DEF Spec

-----------------------------------------------------------------------------
(* The latest download id leads to its trace. *)

\* A grab of the download d that its trace k may have been given: the one of
\* k itself, or of an episode that had no trace and resolved to its series.
\* While the series is in flight the episode gets no trace of its own.
GrabbedFor(e, k, d) ==
    /\ e.Phase = "arr.grab" /\ e.DownloadID = d
    /\ \/ e.Key = k
       \/ e.Key.Type = "tv" /\ SeriesKey(e.Key) = k /\ e.Key \notin Live

\* Index entries are written by grabs alone, so LiveDownloadIndexed needs to
\* know which grab gave a trace its download id: that is what keeps a second
\* trace from taking the entry over.
IndexedTrace(k) ==
    byKey[k].DownloadID # None =>
        /\ byDLID[byKey[k].DownloadID] = k
        /\ \E e \in Event : GrabbedFor(e, k, byKey[k].DownloadID)

IndexInv == \A k \in Live : IndexedTrace(k)

LEMMA DownloadIDType ==
    ASSUME TypeOK, NEW k \in Live, byKey[k].DownloadID # None
    PROVE  byKey[k].DownloadID \in DownloadID
BY LiveTraceType DEF TraceState

\* No trace comes or goes and none changes its download id.
LEMMA SameIndexInv ==
    ASSUME IndexInv, UNCHANGED <<byKey, byDLID>>
    PROVE  IndexInv'
BY DEF IndexInv, IndexedTrace, GrabbedFor, Live

\* Put of a trace in flight with the download id it has.
LEMMA PutSameInv ==
    ASSUME TypeOK, IndexInv, NEW k \in Live, NEW s \in TraceState, Put(k, s),
           s.DownloadID = byKey[k].DownloadID
    PROVE  IndexInv'
<1>1. k \in MediaKey /\ Live' = Live /\ byKey'[k] = s
      /\ \A j \in MediaKey \ {k} : byKey'[j] = byKey[j]
  BY PutEffect DEF Live
<1>2. \A j \in Live : byKey'[j].DownloadID = byKey[j].DownloadID
  BY <1>1 DEF Live
<1>3. byDLID' = byDLID
  <2>1. CASE s.DownloadID = None
    BY <2>1 DEF Put
  <2>2. CASE s.DownloadID # None
    <3>1. byDLID[s.DownloadID] = k
      BY <2>2 DEF IndexInv, IndexedTrace
    <3>. QED  BY <2>2, <3>1 DEF Put, TypeOK, StoreTypeOK
  <2>. QED  BY <2>1, <2>2
<1>. QED  BY <1>1, <1>2, <1>3 DEF IndexInv, IndexedTrace, GrabbedFor

\* A key that resolves to no trace may get one: no series that was given a
\* download of this episode is in flight.
LEMMA NewTraceSpares ==
    ASSUME NEW k \in MediaKey, ResolveTrace(k) = None, NEW j \in Live,
           NEW e, NEW d, GrabbedFor(e, j, d), Live' = Live \cup {k}
    PROVE  GrabbedFor(e, j, d)'
<1>1. CASE e.Key = j
  BY <1>1 DEF GrabbedFor
<1>2. CASE e.Key # j
  <2>1. e.Key.Type = "tv" /\ SeriesKey(e.Key) \in Live /\ e.Key \notin Live
    BY <1>2 DEF GrabbedFor
  <2>2. e.Key # k
    BY <2>1 DEF ResolveTrace
  <2>. QED  BY <1>2, <2>1, <2>2 DEF GrabbedFor
<1>. QED  BY <1>1, <1>2

\* A trace for a request has no download id yet.
LEMMA PutNewInv ==
    ASSUME TypeOK, IndexInv, NEW k \in MediaKey, ResolveTrace(k) = None,
           NEW s \in TraceState, s.DownloadID = None, Put(k, s)
    PROVE  IndexInv'
<1>1. /\ Live' = Live \cup {k} /\ byKey'[k] = s
      /\ \A j \in MediaKey \ {k} : byKey'[j] = byKey[j]
  BY PutEffect
<1>2. byDLID' = byDLID /\ k \notin Live
  BY UnresolvedIsNotLive DEF Put
<1>3. ASSUME NEW j \in Live PROVE IndexedTrace(j)'
  <2>1. j \in MediaKey \ {k} /\ byKey'[j] = byKey[j]
    BY <1>1, <1>2, <1>3 DEF Live
  <2>. QED  BY <1>1, <1>2, <1>3, <2>1, NewTraceSpares DEF IndexInv, IndexedTrace
<1>4. IndexedTrace(k)'
  BY <1>1 DEF IndexedTrace
<1>. QED  BY <1>1, <1>3, <1>4 DEF IndexInv

\* A grab gives its download id to one trace, and no other has it.
LEMMA PutGrabInv ==
    ASSUME TypeOK, IndexInv, OneGrabPerDownload,
           NEW ev \in Event, ev.Phase = "arr.grab", ev.Key \in MediaKey,
           ev.DownloadID # None, NEW k \in MediaKey,
           k = GrabTarget(ev.Key),
           NEW s \in TraceState, s.DownloadID = ev.DownloadID, Put(k, s)
    PROVE  IndexInv'
<1>1. /\ Live' = Live \cup {k} /\ byKey'[k] = s
      /\ \A j \in MediaKey \ {k} : byKey'[j] = byKey[j]
  BY PutEffect
<1>2. ev.DownloadID \in DownloadID
  OBVIOUS
<1>3. byDLID' = [byDLID EXCEPT ![ev.DownloadID] = k]
  BY DEF Put
<1>4. CASE ResolveTrace(ev.Key) = None
  <2>1. k = ev.Key /\ k \notin Live
    BY <1>4, UnresolvedIsNotLive DEF GrabTarget
  <2>2. \A j \in Live : byKey[j].DownloadID # ev.DownloadID
    <3>1. SUFFICES ASSUME NEW j \in Live, byKey[j].DownloadID = ev.DownloadID PROVE FALSE
      OBVIOUS
    <3>2. PICK e \in Event : GrabbedFor(e, j, ev.DownloadID)
      BY <3>1 DEF IndexInv, IndexedTrace
    <3>3. e.Key = ev.Key
      BY <3>2 DEF GrabbedFor, OneGrabPerDownload
    <3>. QED  BY <1>4, <2>1, <3>2, <3>3 DEF GrabbedFor, ResolveTrace
  <2>3. ASSUME NEW j \in Live PROVE IndexedTrace(j)'
    <3>1. byKey'[j] = byKey[j] /\ byKey[j].DownloadID # ev.DownloadID
      BY <1>1, <2>1, <2>2, <2>3 DEF Live
    <3>2. byKey[j].DownloadID # None => byDLID'[byKey[j].DownloadID] = j
      BY <1>2, <1>3, <2>3, <3>1, DownloadIDType DEF IndexInv, IndexedTrace, TypeOK, StoreTypeOK
    <3>. QED  BY <1>1, <1>4, <2>1, <2>3, <3>1, <3>2, NewTraceSpares
              DEF IndexInv, IndexedTrace
  <2>4. IndexedTrace(k)'
    BY <1>1, <1>2, <1>3, <2>1 DEF IndexedTrace, GrabbedFor, TypeOK, StoreTypeOK
  <2>. QED  BY <1>1, <2>3, <2>4 DEF IndexInv
<1>5. CASE ResolveTrace(ev.Key) # None
  <2>1. k \in Live /\ Live' = Live
    BY <1>1, <1>5, ResolvedIsLive DEF GrabTarget
  <2>2. GrabbedFor(ev, k, ev.DownloadID)
    BY <1>5 DEF GrabbedFor, GrabTarget, ResolveTrace
  <2>3. \A j \in Live : byKey[j].DownloadID = ev.DownloadID => j = k
    <3>1. SUFFICES ASSUME NEW j \in Live, byKey[j].DownloadID = ev.DownloadID PROVE j = k
      OBVIOUS
    <3>2. PICK e \in Event : GrabbedFor(e, j, ev.DownloadID)
      BY <3>1 DEF IndexInv, IndexedTrace
    <3>3. e.Key = ev.Key
      BY <3>2 DEF GrabbedFor, OneGrabPerDownload
    <3>. QED  BY <2>1, <2>2, <3>2, <3>3 DEF GrabbedFor
  <2>4. ASSUME NEW j \in Live, j # k PROVE IndexedTrace(j)'
    <3>1. byKey'[j] = byKey[j] /\ byKey[j].DownloadID # ev.DownloadID
      BY <1>1, <2>3, <2>4 DEF Live
    <3>2. byKey[j].DownloadID # None => byDLID'[byKey[j].DownloadID] = j
      BY <1>2, <1>3, <2>4, <3>1, DownloadIDType DEF IndexInv, IndexedTrace, TypeOK, StoreTypeOK
    <3>. QED  BY <2>1, <2>4, <3>1, <3>2 DEF IndexInv, IndexedTrace, GrabbedFor
  <2>5. IndexedTrace(k)'
    BY <1>1, <1>2, <1>3, <2>1, <2>2 DEF IndexedTrace, GrabbedFor, TypeOK, StoreTypeOK
  <2>. QED  BY <2>1, <2>4, <2>5 DEF IndexInv
<1>. QED  BY <1>4, <1>5

\* What is left in flight keeps its entry: only a trace with the same
\* download id could have taken it along, and there is none.
LEMMA DeleteIndexInv ==
    ASSUME TypeOK, IndexInv, NEW K \in SUBSET Live, Delete(K)
    PROVE  IndexInv'
<1>1. /\ \A k \in MediaKey : byKey'[k] = IF k \in K THEN None ELSE byKey[k]
      /\ \A d \in DownloadID : byDLID'[d] =
            IF \E k \in K \cap Live : byKey[k].DownloadID = d THEN None ELSE byDLID[d]
  BY DEF Delete
<1>2. Live' = Live \ K
  BY <1>1 DEF Live
<1>3. ASSUME NEW j \in Live', byKey'[j].DownloadID # None PROVE IndexedTrace(j)'
  <2>1. j \in Live /\ j \notin K /\ byKey'[j] = byKey[j]
    BY <1>1, <1>2, <1>3 DEF Live
  <2> DEFINE d == byKey[j].DownloadID
  <2>2. d \in DownloadID /\ byDLID[d] = j
    BY <1>3, <2>1, DownloadIDType DEF IndexInv, IndexedTrace
  <2>3. ~ \E k \in K \cap Live : byKey[k].DownloadID = d
    BY <1>3, <2>1, <2>2 DEF IndexInv, IndexedTrace
  <2>4. byDLID'[d] = j
    BY <1>1, <2>2, <2>3
  <2>5. \E e \in Event : GrabbedFor(e, j, d)'
    BY <1>2, <1>3, <2>1 DEF IndexInv, IndexedTrace, GrabbedFor
  <2>. QED  BY <2>1, <2>4, <2>5 DEF IndexedTrace
<1>. QED  BY <1>3 DEF IndexInv, IndexedTrace

\* Restore may put the traces back in any order.
LEMMA RestartIndexInv ==
    ASSUME TypeOK, IndexInv, Restart
    PROVE  IndexInv'
<1>1. CASE Backend = "memory"
  BY <1>1 DEF Restart, Reload, ReloadMemory, IndexInv, Live
<1>2. CASE Backend # "memory"
  <2>1. Live' = Live /\ \A k \in Live : byKey'[k].DownloadID = byKey[k].DownloadID
    BY <1>2, ReloadedIndex
  <2>2. ASSUME NEW k \in Live, byKey[k].DownloadID # None
        PROVE  byDLID'[byKey[k].DownloadID] = k
    <3> DEFINE d == byKey[k].DownloadID
    <3>1. {j \in Live : byKey[j].DownloadID = d} = {k}
      BY <2>2 DEF IndexInv, IndexedTrace
    <3>2. d \in DownloadID
      BY <2>2, DownloadIDType
    <3>. QED  BY <1>2, <3>1, <3>2, ReloadedIndex
  <2>. QED  BY <2>1, <2>2 DEF IndexInv, IndexedTrace, GrabbedFor
<1>. QED  BY <1>1, <1>2

LEMMA EffectIndexInv ==
    ASSUME TypeOK, IndexInv, OneGrabPerDownload, IndexEffect
    PROVE  IndexInv'
<1>1. CASE PutsSame
  BY <1>1, PutSameInv DEF PutsSame
<1>2. CASE PutsNew
  BY <1>2, PutNewInv DEF PutsNew
<1>3. CASE PutsGrabbed
  BY <1>3, GrabTargetType, PutGrabInv DEF PutsGrabbed
<1>4. CASE Deletes
  BY <1>4, DeleteIndexInv DEF Deletes
<1>5. CASE LeavesIndex
  BY <1>5, SameIndexInv DEF LeavesIndex
<1>. QED  BY <1>1, <1>2, <1>3, <1>4, <1>5 DEF IndexEffect

LEMMA IndexStep ==
    TypeOK /\ OneGrabPerDownload /\ IndexInv /\ [Next]_vars => IndexInv'
BY EngineEffect, EffectIndexInv, RestartIndexInv

\* GetByDownloadID finds the trace whose grab brought the download id, as
\* long as no two media keys are grabbed under one id.
THEOREM LiveDownloadsIndexed == Spec => []LiveDownloadIndexed
<1> DEFINE Inv == OneGrabPerDownload => IndexInv
<1>1. Init => Inv
  BY DEF Init, StoreInit, IndexInv, Live
<1>2. TypeOK /\ Inv /\ [Next]_vars => Inv'
  BY IndexStep
<1>3. Inv => LiveDownloadIndexed
  BY DEF IndexInv, IndexedTrace, LiveDownloadIndexed
<1>. QED  BY <1>1, <1>2, <1>3, TypeCorrect, PTL DEF Spec

=============================================================================
