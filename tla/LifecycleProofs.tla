--------------------------- MODULE LifecycleProofs ---------------------------
(***************************************************************************)
(* Proofs of how the engine's traces follow each other, from one summary   *)
(* of what a step does to traces and records: the engine, on either store, *)
(* implements Lifecycle, attempts count up, and a trace this process has   *)
(* opened exports its root span when it ends.  Then what the engine        *)
(* remembers between events: an event for the time to live, a parked       *)
(* download start until its grab comes.                                    *)
(***************************************************************************)
EXTENDS EngineProofs

USE BackendAssumption, NoneAssumption, KeyAssumption, EventAssumption, TimeAssumption

-----------------------------------------------------------------------------
(* A step of the engine is seen by what it does to the identity and the    *)
(* number of traces and of records, and to the roots of closed traces.     *)

KeepsTraces ==
    /\ closed' = closed
    /\ Live' = Live
    /\ \A k \in Live : /\ byKey'[k].TraceID = byKey[k].TraceID
                       /\ byKey'[k].Attempt = byKey[k].Attempt

OpensTrace(k) ==
    /\ k \notin Live
    /\ byKey'[k] \in TraceState
    /\ byKey'[k].TraceID \notin ClosedIds
    /\ \A j \in Live : byKey[j].TraceID # byKey'[k].TraceID
    /\ \A j \in MediaKey \ {k} : byKey'[j] = byKey[j] /\ closed'[j] = closed[j]
    /\ closed'[k] \in {closed[k], None}
    /\ closed'[k] # None => closed'[k].Attempt < byKey'[k].Attempt

ClosesTraces(K) ==
    /\ K \subseteq Live
    /\ \A k \in K :
          /\ byKey'[k] = None
          /\ closed'[k] # None
          /\ closed'[k].TraceID = byKey[k].TraceID
          /\ closed'[k].Attempt = byKey[k].Attempt
          /\ byKey[k].Resumed \/ byKey[k].TraceID \in rooted'
    /\ \A k \in MediaKey \ K : byKey'[k] = byKey[k] /\ closed'[k] \in {closed[k], None}

LosesTraces ==
    /\ Backend = "memory"
    /\ \A k \in MediaKey : byKey'[k] = None /\ closed'[k] = None

\* Putting a trace back under its own id and number.
LEMMA PutKeeps ==
    ASSUME TypeOK, NEW k \in Live, NEW s \in TraceState, Put(k, s), closed' = closed,
           s.TraceID = byKey[k].TraceID, s.Attempt = byKey[k].Attempt
    PROVE  KeepsTraces
<1>1. k \in MediaKey
  BY DEF Live
<1>2. /\ Live' = Live \cup {k} /\ byKey'[k] = s
      /\ \A j \in MediaKey \ {k} : byKey'[j] = byKey[j]
  BY <1>1, PutEffect
<1>3. Live \cup {k} = Live
  OBVIOUS
<1>4. \A j \in Live : j \in MediaKey
  BY DEF Live
<1>. QED  BY <1>2, <1>3, <1>4 DEF KeepsTraces

\* Approvals, manual interventions, imports, ends of downloads and queue
\* reports keep the trace they touch.
LEMMA TouchKeeps ==
    ASSUME TypeOK, NEW k \in Live, NEW s \in TraceState, NEW t \in Int, NEW S,
           s.TraceID = byKey[k].TraceID, s.Attempt = byKey[k].Attempt,
           Touch(k, s, t, S)
    PROVE  KeepsTraces
<1> DEFINE u == [s EXCEPT !.UpdatedAt = t]
<1>1. u \in TraceState /\ u.TraceID = s.TraceID /\ u.Attempt = s.Attempt
  BY DEF TraceState
<1>2. Put(k, u) /\ closed' = closed
  BY DEF Touch
<1>. HIDE DEF u
<1>. QED  BY <1>1, <1>2, PutKeeps

\* A new trace has a new id, and a number above the record it leaves.
LEMMA OpenRootOpens ==
    ASSUME TypeOK, NEW ev \in Event, ev.Key \in MediaKey, ev.Key \notin Live,
           NEW t \in Int, NEW new \in NewIds, OpenRoot(ev, t, new),
           NEW s \in TraceState, s.TraceID = new.root,
           s.Attempt = NextAttempt(ev.Key, t), Put(ev.Key, s)
    PROVE  OpensTrace(ev.Key)
<1>1. byKey'[ev.Key] = s /\ \A j \in MediaKey \ {ev.Key} : byKey'[j] = byKey[j]
  BY PutEffect
<1>2. ForgetExpired(ev.Key, t)
  BY DEF OpenRoot
<1>3. \A j \in MediaKey \ {ev.Key} : closed'[j] = closed[j]
  BY <1>2 DEF ForgetExpired, TypeOK, StoreTypeOK
<1>4. /\ closed'[ev.Key] \in {closed[ev.Key], None}
      /\ closed'[ev.Key] # None => closed'[ev.Key].Attempt < NextAttempt(ev.Key, t)
  BY <1>2, RecallNumbers
<1>5. new.root \notin ClosedIds /\ \A j \in Live : byKey[j].TraceID # new.root
  BY NewIdsAreFresh
<1>. QED  BY <1>1, <1>3, <1>4, <1>5 DEF OpensTrace

\* onRequestClosed, onImported and Sweep remember what they delete, and end
\* its root unless it is resumed.
LEMMA CloseTracesCloses ==
    ASSUME TypeOK, ContextsMatchTraces, NEW K \in SUBSET Live, NEW outcome \in Outcome, NEW t \in Int,
           CloseTraces(K, outcome, t)
    PROVE  ClosesTraces(K)
<1>1. \A k \in MediaKey : byKey'[k] = IF k \in K THEN None ELSE byKey[k]
  BY DEF CloseTraces, Delete
<1>2. \A k \in K : k \in MediaKey /\ byKey[k] \in TraceState
  BY LiveTraceType
<1>3. ASSUME NEW k \in K
      PROVE  /\ closed'[k] # None
             /\ closed'[k].TraceID = byKey[k].TraceID
             /\ closed'[k].Attempt = byKey[k].Attempt
  <2> DEFINE c == [TraceID |-> byKey[k].TraceID, Attempt |-> byKey[k].Attempt,
                   Outcome |-> outcome, ClosedAt |-> t]
  <2>1. closed'[k] = c
    BY <1>2 DEF CloseTraces, RememberClosed
  <2>2. c \in ClosedTrace
    <3>1. byKey[k].TraceID \in SpanId /\ byKey[k].Attempt \in Nat
      BY <1>2 DEF TraceState
    <3>. QED  BY <3>1 DEF ClosedTrace
  <2>3. c.TraceID = byKey[k].TraceID /\ c.Attempt = byKey[k].Attempt
    OBVIOUS
  <2>. HIDE DEF c
  <2>. QED  BY <2>1, <2>2, <2>3
<1>4. \A k \in MediaKey \ K : closed'[k] \in {closed[k], None}
  BY DEF CloseTraces, RememberClosed
<1>5. ASSUME NEW k \in K, ~byKey[k].Resumed
      PROVE  byKey[k].TraceID \in rooted'
  <2>1. k \in Live /\ k \in MediaKey
    BY <1>2
  <2>2. ctxByKey[k] = [Root |-> byKey[k].TraceID, Remote |-> byKey[k].Resumed]
    BY <2>1 DEF ContextsMatchTraces
  <2>3. EndedRoot(k) = {byKey[k].TraceID}
    BY <1>5, <2>2 DEF EndedRoot
  <2>4. byKey[k].TraceID \in ClosedIds'
    BY <1>3, <2>1 DEF ClosedIds
  <2>5. ExportRoots(UNION {EndedRoot(j) : j \in K})
    BY DEF CloseTraces
  <2>. QED  BY <2>3, <2>4, <2>5 DEF ExportRoots
<1>. QED  BY <1>1, <1>2, <1>3, <1>4, <1>5 DEF ClosesTraces

\* A step that leaves traces and records alone.
LEMMA IdleKeeps ==
    ASSUME byKey' = byKey, closed' = closed
    PROVE  KeepsTraces
BY DEF KeepsTraces, Live

\* A grab onto a trace in flight keeps the trace.
LEMMA GrabOntoKeeps ==
    ASSUME TypeOK, NEW k \in Live, NEW root, NEW ev \in Event, NEW t \in Int,
           NEW new \in NewIds, closed' = closed,
           GrabOnto(k, byKey[k], root, open, ev, t, new)
    PROVE  KeepsTraces
<1> DEFINE replay == Replays(ev.DownloadID, byKey[k])
           s == [byKey[k] EXCEPT
              !.Grab = new.grab,
              !.DownloadID = IF ev.DownloadID # None THEN ev.DownloadID ELSE @,
              !.Download = IF replay THEN new.download ELSE @,
              !.UpdatedAt = IF replay THEN pendingDL[ev.DownloadID] ELSE t]
<1>1. byKey[k] \in TraceState /\ new.grab \in SpanId /\ new.download \in SpanId
  BY LiveTraceType, NewIdsAreFresh
<1>2. replay => pendingDL[ev.DownloadID] \in Int
  BY DEF TypeOK, Parked, Replays
<1>3. s \in TraceState /\ s.TraceID = byKey[k].TraceID /\ s.Attempt = byKey[k].Attempt
  BY <1>1, <1>2 DEF TraceState
<1>4. Put(k, s)
  BY DEF GrabOnto
<1>. HIDE DEF s
<1>. QED  BY <1>3, <1>4, PutKeeps

\* An orphan grab opens a trace.
LEMMA GrabOrphanOpens ==
    ASSUME TypeOK, NEW ev \in Event, ev.Key \in MediaKey, ev.Key \notin Live,
           NEW t \in Int, NEW new \in NewIds, OpenRoot(ev, t, new),
           GrabOnto(ev.Key, NewTrace(ev, t, new), new.root, SpansWithRoot(new), ev, t, new)
    PROVE  OpensTrace(ev.Key)
<1> DEFINE base == NewTrace(ev, t, new)
           replay == Replays(ev.DownloadID, base)
           s == [base EXCEPT
              !.Grab = new.grab,
              !.DownloadID = IF ev.DownloadID # None THEN ev.DownloadID ELSE @,
              !.Download = IF replay THEN new.download ELSE @,
              !.UpdatedAt = IF replay THEN pendingDL[ev.DownloadID] ELSE t]
<1>1. base \in TraceState /\ new.grab \in SpanId /\ new.download \in SpanId
  BY OpenRootType, NewIdsAreFresh
<1>2. replay => pendingDL[ev.DownloadID] \in Int
  BY DEF TypeOK, Parked, Replays
<1>3. base.TraceID = new.root /\ base.Attempt = NextAttempt(ev.Key, t)
  BY DEF NewTrace
<1>4. Put(ev.Key, s)
  BY DEF GrabOnto
<1>5. s \in TraceState /\ s.TraceID = new.root /\ s.Attempt = NextAttempt(ev.Key, t)
  <2>. HIDE DEF base
  <2>. QED  BY <1>1, <1>2, <1>3 DEF TraceState
<1>. HIDE DEF s
<1>. QED  BY <1>4, <1>5, OpenRootOpens

\* A restart keeps every trace on the bolt store and none on the memory store.
LEMMA RestartKeepsOrLoses ==
    ASSUME TypeOK, Restart
    PROVE  KeepsTraces \/ LosesTraces
<1>1. CASE Backend = "memory"
  BY <1>1 DEF Restart, Resume, Reload, ReloadMemory, LosesTraces
<1>2. CASE Backend # "memory"
  <2>1. closed' = closed
    BY <1>2 DEF Restart, Resume, Reload, ReloadBolt
  <2>2. \A k \in MediaKey : byKey'[k] = IF k \in Live THEN ResumedTrace(byKey[k]) ELSE None
    BY <1>2 DEF Restart, Resume, Reload, ReloadBolt
  <2>3. \A k \in Live : k \in MediaKey /\ byKey[k] \in TraceState
    BY LiveTraceType
  <2>4. \A k \in Live : /\ ResumedTrace(byKey[k]) \in TraceState
                        /\ ResumedTrace(byKey[k]).TraceID = byKey[k].TraceID
                        /\ ResumedTrace(byKey[k]).Attempt = byKey[k].Attempt
    BY <2>3, ResumedTraceType
  <2>5. ASSUME NEW k \in Live
        PROVE  /\ byKey'[k] # None
               /\ byKey'[k].TraceID = byKey[k].TraceID
               /\ byKey'[k].Attempt = byKey[k].Attempt
    <3>1. byKey'[k] = ResumedTrace(byKey[k])
      BY <2>2, <2>3
    <3>. QED  BY <2>4, <3>1
  <2>6. Live' = Live
    BY <2>2, <2>3, <2>5 DEF Live
  <2>. QED  BY <2>1, <2>5, <2>6 DEF KeepsTraces
<1>. QED  BY <1>1, <1>2

\* What one call of Process does to the traces.
LEMMA ProcessSteps ==
    ASSUME IInv, NEW ev \in Event, NEW t \in Int, NEW new \in NewIds, Process(ev, t, new)
    PROVE  \/ KeepsTraces
           \/ \E k \in MediaKey : OpensTrace(k)
           \/ \E K \in SUBSET MediaKey : ClosesTraces(K)
<1>1. TypeOK
  BY DEF IInv
<1>2. Return => KeepsTraces
  BY IdleKeeps DEF Return
<1>3. ASSUME NEW k \in Live, Touch(k, byKey[k], t, {})
      PROVE  KeepsTraces
  BY <1>1, <1>3, LiveTraceType, TouchKeeps
<1>4. ASSUME NEW k \in Live, NEW outcome \in Outcome, CloseTraces({k}, outcome, t)
      PROVE  \E K \in SUBSET MediaKey : ClosesTraces(K)
  <2>1. ClosesTraces({k})
    BY <1>1, <1>4, CloseTracesCloses DEF IInv
  <2>2. {k} \in SUBSET MediaKey
    BY DEF Live
  <2>. QED  BY <2>1, <2>2
<1>5. CASE DropDuplicate(ev, t)
  BY <1>2, <1>5 DEF DropDuplicate
<1>6. CASE OnRequestOpened(ev, t, new)
  <2>1. ev.Key \in MediaKey
    BY <1>6 DEF OnRequestOpened, Accept
  <2>2. CASE Return
    BY <1>2, <2>2
  <2>3. CASE /\ ResolveTrace(ev.Key) = None
             /\ OpenRoot(ev, t, new)
             /\ Put(ev.Key, NewTrace(ev, t, new))
    <3>1. NewTrace(ev, t, new) \in TraceState
      BY <1>1, <2>1, <2>3, OpenRootType
    <3>2. /\ NewTrace(ev, t, new).TraceID = new.root
          /\ NewTrace(ev, t, new).Attempt = NextAttempt(ev.Key, t)
      BY DEF NewTrace
    <3>3. OpensTrace(ev.Key)
      BY <1>1, <2>1, <2>3, <3>1, <3>2, UnresolvedIsNotLive, OpenRootOpens
    <3>. QED  BY <2>1, <3>3
  <2>. QED  BY <1>6, <2>2, <2>3 DEF OnRequestOpened
<1>7. CASE OnRequestApproved(ev, t)
  <2>1. ev.Key \in MediaKey
    BY <1>7 DEF OnRequestApproved, Accept
  <2> DEFINE k == ResolveTrace(ev.Key)
  <2>2. CASE Return
    BY <1>2, <2>2
  <2>3. CASE k # None /\ Touch(k, byKey[k], t, {})
    BY <1>3, <2>1, <2>3, ResolvedIsLive
  <2>. QED  BY <1>7, <2>2, <2>3 DEF OnRequestApproved
<1>8. CASE OnRequestClosed(ev, t)
  <2>1. ev.Key \in MediaKey /\ ev.Outcome \in Outcome
    BY <1>8 DEF OnRequestClosed, Accept
  <2> DEFINE k == ResolveTrace(ev.Key)
  <2>2. CASE Return
    BY <1>2, <2>2
  <2>3. CASE k # None /\ CloseTraces({k}, ev.Outcome, t)
    BY <1>4, <2>1, <2>3, ResolvedIsLive
  <2>. QED  BY <1>8, <2>2, <2>3 DEF OnRequestClosed
<1>9. CASE OnGrabbed(ev, t, new)
  <2>1. ev.Key \in MediaKey
    BY <1>9 DEF OnGrabbed, Accept
  <2> DEFINE k == ResolveTrace(ev.Key)
  <2>2. CASE /\ k # None
             /\ GrabOnto(k, byKey[k], ctxByKey[k].Root, open, ev, t, new)
             /\ UNCHANGED <<closed, ctxByKey, rooted>>
    BY <1>1, <2>1, <2>2, ResolvedIsLive, GrabOntoKeeps
  <2>3. CASE /\ k = None
             /\ OpenRoot(ev, t, new)
             /\ GrabOnto(ev.Key, NewTrace(ev, t, new), new.root,
                         SpansWithRoot(new), ev, t, new)
    BY <1>1, <2>1, <2>3, UnresolvedIsNotLive, GrabOrphanOpens
  <2>. QED  BY <1>9, <2>2, <2>3 DEF OnGrabbed
<1>10. CASE OnDownloadStart(ev, t, new)
  <2> DEFINE k == GetByDownloadID(ev.DownloadID)
  <2>1. CASE ParkDownload(ev, t)
    BY <2>1, IdleKeeps DEF ParkDownload
  <2>2. CASE Return
    BY <1>2, <2>2
  <2>3. CASE k # None /\ StartDownload(k, t, new)
    <3> DEFINE s == [byKey[k] EXCEPT !.Download = new.download, !.UpdatedAt = t]
    <3>1. k \in Live /\ byKey[k] \in TraceState /\ new.download \in SpanId
      BY <1>1, <2>3, DownloadIsLive, LiveTraceType, NewIdsAreFresh
    <3>2. s \in TraceState /\ s.TraceID = byKey[k].TraceID /\ s.Attempt = byKey[k].Attempt
      BY <3>1 DEF TraceState
    <3>3. Put(k, s) /\ closed' = closed
      BY <2>3 DEF StartDownload
    <3>. HIDE DEF s
    <3>. QED  BY <1>1, <3>1, <3>2, <3>3, PutKeeps
  <2>. QED  BY <1>10, <2>1, <2>2, <2>3 DEF OnDownloadStart
<1>11. CASE OnDownloadDone(ev, t)
  <2> DEFINE k == GetByDownloadID(ev.DownloadID)
             s == [byKey[k] EXCEPT !.Download = None]
  <2>1. CASE Return
    BY <1>2, <2>1
  <2>2. CASE k # None /\ Touch(k, s, t, {byKey[k].Download})
    <3>1. k \in Live /\ byKey[k] \in TraceState
      BY <1>1, <2>2, DownloadIsLive, LiveTraceType
    <3>2. s \in TraceState /\ s.TraceID = byKey[k].TraceID /\ s.Attempt = byKey[k].Attempt
      BY <3>1 DEF TraceState
    <3>. HIDE DEF s
    <3>. QED  BY <1>1, <2>2, <3>1, <3>2, TouchKeeps
  <2>. QED  BY <1>11, <2>1, <2>2 DEF OnDownloadDone
<1>12. CASE OnImported(ev, t)
  <2>1. ev.Key \in MediaKey
    BY <1>12 DEF OnImported, Accept
  <2> DEFINE k == ResolveTrace(ev.Key)
             s == [byKey[k] EXCEPT !.Grab = None, !.Download = None]
  <2>2. CASE Return
    BY <1>2, <2>2
  <2>3. CASE k # None /\ Touch(k, s, t, Handles(byKey[k]))
    <3>1. k \in Live /\ byKey[k] \in TraceState
      BY <1>1, <2>1, <2>3, ResolvedIsLive, LiveTraceType
    <3>2. s \in TraceState /\ s.TraceID = byKey[k].TraceID /\ s.Attempt = byKey[k].Attempt
      BY <3>1 DEF TraceState
    <3>. HIDE DEF s
    <3>. QED  BY <1>1, <2>3, <3>1, <3>2, TouchKeeps
  <2>4. CASE k # None /\ CloseTraces({k}, "available", t)
    <3>1. "available" \in Outcome
      BY DEF Outcome
    <3>. QED  BY <1>4, <2>1, <2>4, <3>1, ResolvedIsLive
  <2>. QED  BY <1>12, <2>2, <2>3, <2>4 DEF OnImported
<1>13. CASE OnManualNeeded(ev, t)
  <2>1. ev.Key \in MediaKey
    BY <1>13 DEF OnManualNeeded, Accept
  <2> DEFINE k == ResolveTrace(ev.Key)
  <2>2. CASE Return
    BY <1>2, <2>2
  <2>3. CASE k # None /\ Touch(k, byKey[k], t, {})
    BY <1>3, <2>1, <2>3, ResolvedIsLive
  <2>. QED  BY <1>13, <2>2, <2>3 DEF OnManualNeeded
<1>. QED  BY <1>5, <1>6, <1>7, <1>8, <1>9, <1>10, <1>11, <1>12, <1>13 DEF Process

\* What any step of the engine does to the traces.
LEMMA NextSteps ==
    ASSUME IInv, [Next]_vars
    PROVE  \/ KeepsTraces
           \/ \E k \in MediaKey : OpensTrace(k)
           \/ \E K \in SUBSET MediaKey : ClosesTraces(K)
           \/ Restart /\ LosesTraces
<1>1. TypeOK /\ clock \in Int
  BY DEF IInv, TypeOK
<1>2. CASE Deliver
  <2>1. PICK new \in NewIds, ev \in Event : \E t \in Stamps(ev) : Process(ev, t, new)
    BY <1>2 DEF Deliver
  <2>2. PICK t \in Stamps(ev) : Process(ev, t, new)
    BY <2>1
  <2>3. t \in Int
    BY <1>1 DEF Stamps
  <2>. QED  BY <2>2, <2>3, ProcessSteps
<1>3. CASE NoteQueueIssue
  <2>1. PICK d \in DownloadID, t \in (clock - Lag) .. clock :
           /\ GetByDownloadID(d) # None
           /\ Touch(GetByDownloadID(d), byKey[GetByDownloadID(d)], t, {})
    BY <1>3 DEF NoteQueueIssue, NoteIssue
  <2> DEFINE k == GetByDownloadID(d)
  <2>2. k \in Live /\ byKey[k] \in TraceState /\ t \in Int
    BY <1>1, <2>1, DownloadIsLive, LiveTraceType
  <2>. HIDE DEF k
  <2>. QED  BY <1>1, <2>1, <2>2, TouchKeeps DEF k
<1>4. CASE Sweep
  <2> DEFINE K == Stale(maxTraceDuration, clock)
  <2>1. K \in SUBSET Live /\ K \in SUBSET MediaKey
    BY DEF Stale, Live
  <2>2. "timeout" \in Outcome
    BY DEF Outcome
  <2>3. CloseTraces(K, "timeout", clock)
    BY <1>4 DEF Sweep
  <2>4. ClosesTraces(K)
    <3>. HIDE DEF K
    <3>. QED  BY <1>1, <2>1, <2>2, <2>3, CloseTracesCloses DEF IInv
  <2>. QED  BY <2>1, <2>4
<1>5. CASE Restart
  BY <1>1, <1>5, RestartKeepsOrLoses
<1>6. CASE Tick
  BY <1>6, IdleKeeps DEF Tick
<1>7. CASE UNCHANGED vars
  BY <1>7, IdleKeeps DEF vars
<1>. QED  BY <1>2, <1>3, <1>4, <1>5, <1>6, <1>7 DEF Next

\* RememberClosed never replaces a record by one of the same or an earlier
\* attempt, on either store, across recalls, sweeps and restarts.
THEOREM RecordsGrow == Spec => ClosedAttemptsGrow
<1> DEFINE Grow == \A k \in MediaKey :
              (closed[k] # None /\ closed'[k] # None /\ closed'[k] # closed[k])
                 => closed[k].Attempt < closed'[k].Attempt
<1>1. IInv /\ [Next]_vars => [Grow]_vars
  <2>. SUFFICES ASSUME IInv, [Next]_vars,
                       NEW k \in MediaKey, closed[k] # None, closed'[k] # None,
                       closed'[k] # closed[k]
                PROVE  closed[k].Attempt < closed'[k].Attempt
    OBVIOUS
  <2>1. CASE KeepsTraces
    BY <2>1 DEF KeepsTraces
  <2>2. CASE \E j \in MediaKey : OpensTrace(j)
    BY <2>2 DEF OpensTrace
  <2>3. ASSUME NEW K \in SUBSET MediaKey, ClosesTraces(K)
        PROVE  closed[k].Attempt < closed'[k].Attempt
    <3>1. k \in K /\ k \in Live
      BY <2>3 DEF ClosesTraces
    <3>2. closed'[k].Attempt = byKey[k].Attempt
      BY <2>3, <3>1 DEF ClosesTraces
    <3>. QED  BY <3>1, <3>2 DEF IInv, AttemptsAscend
  <2>4. CASE LosesTraces
    BY <2>4 DEF LosesTraces
  <2>. QED  BY <2>1, <2>2, <2>3, <2>4, NextSteps
<1>. QED  BY <1>1, Invariance, PTL DEF Spec, ClosedAttemptsGrow

\* What Lifecycle sees of a trace or of a record.
Seen(s) == IF s = None THEN None ELSE [Id |-> s.TraceID, Attempt |-> s.Attempt]
Current == [k \in MediaKey |-> Seen(byKey[k])]
Last == [k \in MediaKey |-> Seen(closed[k])]

\* A trace and a record are seen as present, with their own id and number.
LEMMA SeenIsPresent ==
    ASSUME NEW s \in TraceState \cup ClosedTrace
    PROVE  /\ Seen(s) # None
           /\ Seen(s) \in L!Trace
           /\ Seen(s).Id = s.TraceID /\ Seen(s).Attempt = s.Attempt
<1>1. s # None
  OBVIOUS
<1>2. s.TraceID \in SpanId /\ s.Attempt \in Nat
  BY DEF TraceState, ClosedTrace
<1>3. Seen(s) = [Id |-> s.TraceID, Attempt |-> s.Attempt]
  BY <1>1 DEF Seen
<1>4. Seen(s) \in L!Trace
  BY <1>2, <1>3 DEF L!Trace
<1>5. Seen(s) # None
  BY <1>4, IdentityAssumption
<1>. QED  BY <1>3, <1>4, <1>5

\* The ids that Lifecycle takes to be in use belong to traces or to records.
LEMMA SeenInUse ==
    ASSUME TypeOK, NEW id,
           id \notin ClosedIds, \A j \in Live : byKey[j].TraceID # id,
           NEW k \in MediaKey
    PROVE  /\ Seen(byKey[k]) # None => Seen(byKey[k]).Id # id
           /\ Seen(closed[k]) # None => Seen(closed[k]).Id # id
<1>1. ASSUME Seen(byKey[k]) # None PROVE Seen(byKey[k]).Id # id
  <2>1. byKey[k] # None
    BY <1>1 DEF Seen
  <2>2. k \in Live /\ byKey[k] \in TraceState
    BY <2>1 DEF Live, TypeOK, StoreTypeOK
  <2>. QED  BY <2>2, SeenIsPresent
<1>2. ASSUME Seen(closed[k]) # None PROVE Seen(closed[k]).Id # id
  <2>1. closed[k] # None
    BY <1>2 DEF Seen
  <2>2. closed[k] \in ClosedTrace /\ closed[k].TraceID \in ClosedIds
    BY <2>1 DEF ClosedIds, TypeOK, StoreTypeOK
  <2>. QED  BY <2>2, SeenIsPresent
<1>. QED  BY <1>1, <1>2

\* A step that keeps the traces is not seen at all.
LEMMA KeepsIsStutter ==
    ASSUME TypeOK, TypeOK', KeepsTraces
    PROVE  UNCHANGED <<Current, Last>>
<1>1. \A k \in MediaKey : Seen(byKey'[k]) = Seen(byKey[k])
  <2>. SUFFICES ASSUME NEW k \in MediaKey PROVE Seen(byKey'[k]) = Seen(byKey[k])
    OBVIOUS
  <2>1. CASE k \in Live
    BY <2>1 DEF KeepsTraces, Live, Seen
  <2>2. CASE k \notin Live
    BY <2>2 DEF KeepsTraces, Live
  <2>. QED  BY <2>1, <2>2
<1>. QED  BY <1>1 DEF Current, Last, KeepsTraces

\* Opening a trace is Lifecycle's Open.
LEMMA OpensIsOpen ==
    ASSUME TypeOK, TypeOK', NEW k \in MediaKey, OpensTrace(k)
    PROVE  L!Open(k)
<1>1. Current[k] = None
  BY DEF OpensTrace, Live, Current, Seen
<1>2. /\ Current'[k] = Seen(byKey'[k]) /\ Seen(byKey'[k]) \in L!Trace
      /\ Seen(byKey'[k]).Id = byKey'[k].TraceID
      /\ Seen(byKey'[k]).Attempt = byKey'[k].Attempt
  BY SeenIsPresent DEF OpensTrace, Current
<1>3. \A j \in MediaKey :
         /\ Current[j] # None => Current[j].Id # Current'[k].Id
         /\ Last[j] # None => Last[j].Id # Current'[k].Id
  BY <1>2, SeenInUse DEF OpensTrace, Current, Last
<1>4. \A j \in MediaKey \ {k} : Current'[j] = Current[j] /\ Last'[j] = Last[j]
  BY DEF OpensTrace, Current, Last
<1>5. /\ Last'[k] \in {Last[k], None}
      /\ Last'[k] # None => Last'[k].Attempt < Current'[k].Attempt
  <2>1. CASE closed'[k] = None
    BY <2>1 DEF Last, Seen
  <2>2. CASE closed'[k] # None
    <3>1. closed'[k] = closed[k] /\ closed'[k] \in ClosedTrace
      BY <2>2 DEF OpensTrace, TypeOK, StoreTypeOK
    <3>2. Last'[k] = Last[k] /\ Last'[k].Attempt = closed'[k].Attempt
      BY <3>1, SeenIsPresent DEF Last
    <3>. QED  BY <1>2, <2>2, <3>2 DEF OpensTrace
  <2>. QED  BY <2>1, <2>2
<1>. QED  BY <1>1, <1>2, <1>3, <1>4, <1>5 DEF L!Open, L!InUse, Current, Last, Seen

\* Closing traces is Lifecycle's Close.
LEMMA ClosesIsClose ==
    ASSUME TypeOK, TypeOK', NEW K \in SUBSET MediaKey, ClosesTraces(K)
    PROVE  L!Close(K)
<1>. SUFFICES ASSUME NEW k \in MediaKey
              PROVE  IF k \in K
                     THEN Current[k] # None /\ Current'[k] = None /\ Last'[k] = Current[k]
                     ELSE Current'[k] = Current[k] /\ Last'[k] \in {Last[k], None}
  BY DEF L!Close, Current, Last, Seen
<1>1. CASE k \in K
  <2>1. /\ byKey[k] \in TraceState /\ closed'[k] \in ClosedTrace /\ byKey[k] # None
        /\ closed'[k] # None
        /\ closed'[k].TraceID = byKey[k].TraceID /\ closed'[k].Attempt = byKey[k].Attempt
        /\ byKey'[k] = None
    BY <1>1 DEF ClosesTraces, Live, TypeOK, StoreTypeOK
  <2>2. Current[k] # None
    BY <2>1, SeenIsPresent DEF Current
  <2>3. Current'[k] = None
    BY <2>1 DEF Current, Seen
  <2>4. Last'[k] = Current[k]
    BY <2>1 DEF Current, Last, Seen
  <2>. QED  BY <1>1, <2>2, <2>3, <2>4
<1>2. CASE k \notin K
  <2>1. byKey'[k] = byKey[k] /\ closed'[k] \in {closed[k], None}
    BY <1>2 DEF ClosesTraces
  <2>. QED  BY <1>2, <2>1 DEF Current, Last, Seen
<1>. QED  BY <1>1, <1>2

\* Every step of the engine is a step of Lifecycle, or is not seen.
LEMMA StepIsLifecycleStep ==
    ASSUME IInv, IInv', [Next]_vars
    PROVE  [L!Next]_<<Current, Last>>
<1>1. TypeOK /\ TypeOK'
  BY DEF IInv
<1>2. L!Shape
  BY DEF L!Shape
<1>3. CASE KeepsTraces
  BY <1>1, <1>3, KeepsIsStutter
<1>4. CASE \E k \in MediaKey : OpensTrace(k)
  BY <1>1, <1>2, <1>4, OpensIsOpen DEF L!Next
<1>5. CASE \E K \in SUBSET MediaKey : ClosesTraces(K)
  BY <1>1, <1>2, <1>5, ClosesIsClose DEF L!Next
<1>6. CASE LosesTraces
  <2>1. L!Lose
    BY <1>6 DEF LosesTraces, L!Lose
  <2>. QED  BY <1>2, <2>1 DEF L!Next
<1>. QED  BY <1>3, <1>4, <1>5, <1>6, NextSteps

\* The engine on either store implements Lifecycle.
THEOREM Refinement == Spec => ImplementsLifecycle
<1>1. Init => L!Init
  BY DEF Init, StoreInit, L!Init
<1>2. IInv /\ IInv' /\ [Next]_vars => [L!Next]_<<Current, Last>>
  BY StepIsLifecycleStep
<1>. QED  BY <1>1, <1>2, Invariance, PTL
          DEF Spec, ImplementsLifecycle, L!Spec, Current, Last, Seen

-----------------------------------------------------------------------------
(* Deduplication. *)

\* SeenEvent forgets what is past the time to live by the time of the event
\* at hand, to the instant that the store at hand does.
LEMMA SeenEventForgets ==
    ASSUME TypeOK, NEW id \in DedupKey, NEW t \in Int,
           RecordEvent(id, t) \/ RejectEvent(id, t),
           NEW i \in DedupKey, dedup[i] # None, dedup'[i] # dedup[i]
    PROVE  \/ dedup[i] < t - dedupTTL
           \/ Backend = "bolt" /\ dedup[i] <= t - dedupTTL
<1>1. dedup \in [DedupKey -> Int \cup {None}]
  BY DEF TypeOK, StoreTypeOK
<1>2. CASE Backend = "memory"
  <2>1. MemoryDedup(t) \in [DedupKey -> Int \cup {None}]
    BY <1>1 DEF MemoryDedup
  <2>2. MemoryDedup(t)[i] = None
    <3>1. CASE RejectEvent(id, t)
      BY <1>1, <1>2, <3>1 DEF RejectEvent, MemoryDedup
    <3>2. CASE RecordEvent(id, t) /\ i = id
      BY <1>2, <3>2 DEF RecordEvent, AlreadySeen, MemorySeen
    <3>3. CASE RecordEvent(id, t) /\ i # id
      <4>1. dedup'[i] = MemoryDedup(t)[i]
        BY <1>2, <2>1, <3>3 DEF RecordEvent
      <4>. QED  BY <1>1, <4>1 DEF MemoryDedup
    <3>. QED  BY <3>1, <3>2, <3>3
  <2>. QED  BY <1>1, <2>2 DEF MemoryDedup
<1>3. CASE Backend = "bolt"
  <2>1. RecordEvent(id, t)
    BY <1>3 DEF RejectEvent
  <2>2. ~BoltSeen(id, t) /\ dedup' = [dedup EXCEPT ![id] = t]
    BY <1>3, <2>1 DEF RecordEvent, AlreadySeen
  <2>3. i = id
    BY <1>1, <2>2
  <2>. QED  BY <1>1, <1>3, <2>2, <2>3 DEF BoltSeen
<1>. QED  BY <1>2, <1>3

\* No event is new again within the time to live, give or take the error of
\* the clocks, unless the memory store is emptied by a restart.
THEOREM Remembered == Spec => RememberedForTTL
<1> DEFINE Kept == \A i \in DedupKey :
              dedup[i] # None /\ dedup'[i] # dedup[i] =>
                 \/ dedup[i] < clock + Skew - dedupTTL
                 \/ Backend = "bolt" /\ dedup[i] = clock + Skew - dedupTTL
                 \/ Backend = "memory" /\ Restart
<1>1. TypeOK /\ [Next]_vars => [Kept]_vars
  <2>. SUFFICES ASSUME TypeOK, [Next]_vars,
                       NEW i \in DedupKey, dedup[i] # None, dedup'[i] # dedup[i]
                PROVE  \/ dedup[i] < clock + Skew - dedupTTL
                       \/ Backend = "bolt" /\ dedup[i] = clock + Skew - dedupTTL
                       \/ Backend = "memory" /\ Restart
    OBVIOUS
  <2>1. clock \in Int /\ dedup[i] \in Int
    BY DEF TypeOK, StoreTypeOK
  <2>2. CASE Deliver
    <3>1. PICK new \in NewIds, ev \in Event : \E t \in Stamps(ev) : Process(ev, t, new)
      BY <2>2 DEF Deliver
    <3>2. PICK t \in Stamps(ev) : Process(ev, t, new)
      BY <3>1
    <3>3. t \in Int /\ t <= clock + Skew
      BY <2>1 DEF Stamps
    <3>4. /\ DedupKeyOf(ev) \in DedupKey
          /\ RecordEvent(DedupKeyOf(ev), t) \/ RejectEvent(DedupKeyOf(ev), t)
      BY <3>2 DEF Process, DropDuplicate, OnRequestOpened, OnRequestApproved,
         OnRequestClosed, OnGrabbed, OnDownloadStart, OnDownloadDone, OnImported,
         OnManualNeeded, Accept
    <3>5. \/ dedup[i] < t - dedupTTL
          \/ Backend = "bolt" /\ dedup[i] <= t - dedupTTL
      BY <3>3, <3>4, SeenEventForgets
    <3>. QED  BY <2>1, <3>3, <3>5
  <2>3. CASE Restart
    <3>1. Backend # "memory" => dedup' = dedup
      BY <2>3 DEF Restart, Reload, ReloadBolt
    <3>. QED  BY <2>3, <3>1
  <2>. QED  BY <2>2, <2>3 DEF Next, NoteQueueIssue, Sweep, Tick, vars
<1>. QED  BY <1>1, TypeCorrect, PTL DEF Spec, RememberedForTTL

-----------------------------------------------------------------------------
(* Parked downloads. *)

\* A grab that takes a start out of the buffer comes to its trace and begins
\* the download there, or leaves the one that is open.
LEMMA GrabOntoReplays ==
    ASSUME TypeOK, NEW k \in MediaKey, NEW s \in TraceState, NEW spans,
           NEW ev \in Event, NEW t \in Int, NEW new \in NewIds,
           GrabOnto(k, s, s.TraceID, spans, ev, t, new),
           s.Grab # None => open[s.Grab] # None,
           NEW d \in DownloadID, pendingDL[d] # None, pendingDL'[d] = None
    PROVE  /\ GrabArrives(k, d)
           /\ s.Download = None => Replayed(d)
           /\ s.Download # None => byKey'[k].Download = s.Download
<1> DEFINE replay == Replays(ev.DownloadID, s)
           u == [s EXCEPT
              !.Grab = new.grab,
              !.DownloadID = IF ev.DownloadID # None THEN ev.DownloadID ELSE @,
              !.Download = IF replay THEN new.download ELSE @,
              !.UpdatedAt = IF replay THEN pendingDL[ev.DownloadID] ELSE t]
<1>1. d = ev.DownloadID /\ d # None
  BY DEF GrabOnto
<1>2. replay <=> s.Download = None
  BY <1>1 DEF Replays, Parked
<1>3. /\ new.grab \in SpanId /\ new.download \in SpanId /\ new.grab # new.download
      /\ open[new.grab] = None /\ open[new.download] = None
  BY NewIdsAreFresh
<1>4. pendingDL[d] \in Int
  BY DEF TypeOK
<1>5. /\ u \in TraceState /\ u.DownloadID = d /\ u.Grab = new.grab
      /\ u.TraceID = s.TraceID
      /\ u.Download = IF s.Download = None THEN new.download ELSE s.Download
  BY <1>1, <1>2, <1>3, <1>4 DEF TraceState
<1>6. Put(k, u)
  BY DEF GrabOnto
<1>7. /\ open'[new.grab] = ChildSpan("grab", s.TraceID)
      /\ s.Download = None =>
            open'[new.download] = ChildSpan("download.transfer", s.TraceID)
  <2>1. open' = [x \in SpanId |->
              CASE x = new.grab                -> ChildSpan("grab", s.TraceID)
                [] x = new.download /\ replay  -> ChildSpan("download.transfer", s.TraceID)
                [] x = s.Grab                 -> None
                [] OTHER                      -> spans[x]]
    BY DEF GrabOnto
  <2>2. s.Grab # new.grab /\ s.Grab # new.download
    BY <1>3
  <2>. HIDE DEF replay
  <2>. QED  BY <1>2, <1>3, <2>1, <2>2
<1>. HIDE DEF u
<1>8. byKey'[k] = u
  BY <1>5, <1>6, PutEffect
<1>9. byKey'[k] # None /\ ChildSpan("grab", s.TraceID) # None
  BY <1>5, <1>8 DEF ChildSpan, Span, TraceState
<1>10. GrabArrives(k, d)
  BY <1>3, <1>5, <1>7, <1>8, <1>9 DEF GrabArrives
<1>11. s.Download = None => Replayed(d)
  BY <1>3, <1>5, <1>7, <1>8, <1>10 DEF Replayed
<1>. QED  BY <1>5, <1>8, <1>10, <1>11

\* onGrabbed and onDownloadStart are the only handlers that take a start out
\* of pendingDL.  The one begins its download, unless the trace still has an
\* earlier one open; the other drops it for its age.
THEOREM ParkedKept == Spec => ParkedLeavesForAReason
<1> DEFINE Accounted == \A d \in DownloadID :
              pendingDL[d] # None /\ pendingDL'[d] = None =>
                 Replayed(d) \/ Overlapped(d) \/ Aged(d) \/ Restart
<1>1. IInv /\ [Next]_vars => [Accounted]_vars
  <2>. SUFFICES ASSUME IInv, [Next]_vars, ~Restart,
                       NEW d \in DownloadID, pendingDL[d] # None, pendingDL'[d] = None
                PROVE  Replayed(d) \/ Overlapped(d) \/ Aged(d)
    OBVIOUS
  <2>1. TypeOK /\ ContextsMatchTraces /\ clock \in Int /\ pendingDL[d] \in Int
    BY DEF IInv, TypeOK
  <2>2. Deliver
    BY DEF Next, NoteQueueIssue, NoteIssue, Touch, Sweep, CloseTraces, Tick, vars
  <2>3. PICK new \in NewIds, ev \in Event : \E t \in Stamps(ev) : Process(ev, t, new)
    BY <2>2 DEF Deliver
  <2>4. PICK t \in Stamps(ev) : Process(ev, t, new)
    BY <2>3
  <2>5. t \in Int /\ t <= clock + Skew
    BY <2>1 DEF Stamps
  <2>6. OnGrabbed(ev, t, new) \/ OnDownloadStart(ev, t, new)
    BY <2>4 DEF Process, DropDuplicate, Return, OnRequestOpened, OnRequestApproved,
       OnRequestClosed, OnDownloadDone, OnImported, OnManualNeeded, Touch, CloseTraces
  <2>7. CASE OnGrabbed(ev, t, new)
    <3>1. ev.Key \in MediaKey
      BY <2>7 DEF OnGrabbed, Accept
    <3> DEFINE k == ResolveTrace(ev.Key)
    <3>2. CASE k # None /\ GrabOnto(k, byKey[k], ctxByKey[k].Root, open, ev, t, new)
      <4>1. k \in Live /\ k \in MediaKey /\ byKey[k] \in TraceState
        BY <2>1, <3>1, <3>2, ResolvedIsLive, LiveTraceType
      <4>2. ctxByKey[k].Root = byKey[k].TraceID
        BY <2>1, <4>1, ContextRootType
      <4>. HIDE DEF k
      <4>3. byKey[k].Grab # None => open[byKey[k].Grab] # None
        <5>1. byKey[k].TraceID \in SpanId
          BY <4>1 DEF TraceState
        <5>2. ChildSpan("grab", byKey[k].TraceID) \in Span
          BY <5>1 DEF ChildSpan, Span
        <5>. QED  BY <4>1, <5>2 DEF IInv, HandlesAreOpen
      <4>4. /\ GrabArrives(k, d)
            /\ byKey[k].Download = None => Replayed(d)
            /\ byKey[k].Download # None => byKey'[k].Download = byKey[k].Download
        BY <2>1, <2>5, <3>2, <4>1, <4>2, <4>3, GrabOntoReplays
      <4>. QED  BY <4>1, <4>4 DEF Overlapped
    <3>3. CASE /\ OpenRoot(ev, t, new)
               /\ GrabOnto(ev.Key, NewTrace(ev, t, new), new.root,
                           SpansWithRoot(new), ev, t, new)
      <4> DEFINE s == NewTrace(ev, t, new)
      <4>1. s \in TraceState
        BY <2>1, <2>5, <3>1, <3>3, OpenRootType
      <4>2. s.TraceID = new.root /\ s.Grab = None /\ s.Download = None
        BY DEF NewTrace
      <4>. HIDE DEF s
      <4>. QED  BY <2>1, <2>5, <3>1, <3>3, <4>1, <4>2, GrabOntoReplays DEF s
    <3>. QED  BY <2>7, <3>2, <3>3 DEF OnGrabbed
  <2>8. CASE OnDownloadStart(ev, t, new)
    <3>1. ParkDownload(ev, t)
      BY <2>8 DEF OnDownloadStart, Return, StartDownload
    <3>2. t # None
      BY <2>5
    <3>3. pendingDL[d] < t - pendingDLTTL
      BY <3>1, <3>2 DEF ParkDownload
    <3>. QED  BY <2>1, <2>5, <3>3 DEF Aged
  <2>. QED  BY <2>6, <2>7, <2>8
<1>. QED  BY <1>1, Invariance, PTL DEF Spec, ParkedLeavesForAReason

-----------------------------------------------------------------------------
(* The roots of traces that are not resumed. *)

\* A trace only leaves the store by a restart or by being closed, and closing
\* ends the root it was opened with.
THEOREM OwnRootsExported == Spec => OwnRootIsExported
<1> DEFINE Exported == \A k \in MediaKey :
              byKey[k] # None /\ ~byKey[k].Resumed /\ byKey'[k] = None =>
                 Restart \/ byKey[k].TraceID \in rooted'
<1>1. IInv /\ IInv' /\ [Next]_vars => [Exported]_vars
  <2>. SUFFICES ASSUME IInv, IInv', [Next]_vars, ~Restart, NEW k \in MediaKey,
                       byKey[k] # None, ~byKey[k].Resumed, byKey'[k] = None
                PROVE  byKey[k].TraceID \in rooted'
    OBVIOUS
  <2>1. k \in Live /\ k \notin Live'
    BY DEF Live
  <2>2. ~KeepsTraces
    BY <2>1 DEF KeepsTraces
  <2>3. \A j \in MediaKey : ~OpensTrace(j)
    BY <2>1 DEF OpensTrace
  <2>4. PICK K \in SUBSET MediaKey : ClosesTraces(K)
    BY <2>2, <2>3, NextSteps
  <2>5. k \in K
    BY <2>4 DEF ClosesTraces
  <2>. QED  BY <2>4, <2>5 DEF ClosesTraces
<1>. QED  BY <1>1, Invariance, PTL DEF Spec, OwnRootIsExported

-----------------------------------------------------------------------------
(* Closed traces on the memory store.  It never resumes a trace, so every  *)
(* root is ended through its own context.                                  *)

RootsInv ==
    Backend = "memory" =>
        /\ ClosedTraceHasRoot
        /\ \A k \in Live : ~byKey[k].Resumed

\* Records go, none comes, and the roots of those that stay are kept.
LEMMA FewerRecordsRoots ==
    ASSUME ClosedTraceHasRoot, \A k \in MediaKey : closed'[k] \in {closed[k], None},
           rooted' = rooted \/ ExportRoots({})
    PROVE  ClosedTraceHasRoot'
BY DEF ClosedTraceHasRoot, ExportRoots, ClosedIds

\* A step that leaves traces, records and exported roots alone.
LEMMA IdleRoots ==
    ASSUME RootsInv, UNCHANGED <<byKey, closed, rooted>>
    PROVE  RootsInv'
BY DEF RootsInv, ClosedTraceHasRoot, Live

\* A trace is put that is not resumed.
LEMMA PutRoots ==
    ASSUME TypeOK, RootsInv, NEW k \in MediaKey, NEW s \in TraceState, Put(k, s),
           Backend = "memory" => ~s.Resumed,
           \A j \in MediaKey : closed'[j] \in {closed[j], None},
           rooted' = rooted \/ ExportRoots({})
    PROVE  RootsInv'
<1>1. /\ Live' = Live \cup {k} /\ byKey'[k] = s
      /\ \A j \in MediaKey \ {k} : byKey'[j] = byKey[j]
  BY PutEffect
<1>2. \A j \in Live : j \in MediaKey
  BY DEF Live
<1>. QED  BY <1>1, <1>2, FewerRecordsRoots DEF RootsInv

\* Closing ends the root of a trace that is not resumed.
LEMMA CloseTracesRoots ==
    ASSUME IInv, RootsInv, NEW K \in SUBSET Live, NEW outcome \in Outcome, NEW t \in Int,
           CloseTraces(K, outcome, t)
    PROVE  RootsInv'
<1>. SUFFICES ASSUME Backend = "memory"
              PROVE  ClosedTraceHasRoot' /\ \A k \in Live' : ~byKey'[k].Resumed
  BY DEF RootsInv
<1>1. ClosesTraces(K)
  BY CloseTracesCloses DEF IInv
<1>2. \A k \in Live' : ~byKey'[k].Resumed
  BY <1>1 DEF ClosesTraces, RootsInv, Live
<1>3. ASSUME NEW k \in MediaKey, closed'[k] # None
      PROVE  closed'[k].TraceID \in rooted'
  <2>1. closed'[k].TraceID \in ClosedIds'
    BY <1>3 DEF ClosedIds
  <2>2. CASE k \in K
    <3>1. k \in Live /\ closed'[k].TraceID = byKey[k].TraceID
      BY <1>1, <2>2 DEF ClosesTraces
    <3>2. ctxByKey[k] = [Root |-> byKey[k].TraceID, Remote |-> byKey[k].Resumed]
      BY <3>1 DEF IInv, ContextsMatchTraces
    <3>3. EndedRoot(k) = {byKey[k].TraceID}
      BY <3>1, <3>2 DEF EndedRoot, RootsInv
    <3>. QED  BY <2>1, <2>2, <3>1, <3>3 DEF CloseTraces, ExportRoots
  <2>3. CASE k \notin K
    BY <1>1, <1>3, <2>1, <2>3 DEF ClosesTraces, RootsInv, ClosedTraceHasRoot,
       CloseTraces, ExportRoots
  <2>. QED  BY <2>2, <2>3
<1>. QED  BY <1>2, <1>3 DEF ClosedTraceHasRoot

\* Approvals, manual interventions, imports, ends of downloads and queue
\* reports do not make a trace resumed.
LEMMA TouchRoots ==
    ASSUME TypeOK, RootsInv, NEW k \in Live, NEW s \in TraceState, NEW t \in Int, NEW S,
           s.Resumed = byKey[k].Resumed, Touch(k, s, t, S)
    PROVE  RootsInv'
<1> DEFINE u == [s EXCEPT !.UpdatedAt = t]
<1>1. u \in TraceState /\ u.Resumed = s.Resumed
  BY DEF TraceState
<1>2. Put(k, u) /\ closed' = closed /\ rooted' = rooted
  BY DEF Touch
<1>. HIDE DEF u
<1>3. k \in MediaKey /\ (Backend = "memory" => ~u.Resumed)
  BY <1>1 DEF RootsInv, Live
<1>. QED  BY <1>1, <1>2, <1>3, PutRoots

\* Neither does a grab, onto a trace or without one.
LEMMA GrabOntoRoots ==
    ASSUME TypeOK, RootsInv, NEW k \in MediaKey, NEW s \in TraceState, NEW root, NEW spans,
           NEW ev \in Event, NEW t \in Int, NEW new \in NewIds,
           GrabOnto(k, s, root, spans, ev, t, new),
           Backend = "memory" => ~s.Resumed,
           \A j \in MediaKey : closed'[j] \in {closed[j], None},
           rooted' = rooted \/ ExportRoots({})
    PROVE  RootsInv'
<1> DEFINE replay == Replays(ev.DownloadID, s)
           u == [s EXCEPT
              !.Grab = new.grab,
              !.DownloadID = IF ev.DownloadID # None THEN ev.DownloadID ELSE @,
              !.Download = IF replay THEN new.download ELSE @,
              !.UpdatedAt = IF replay THEN pendingDL[ev.DownloadID] ELSE t]
<1>1. new.grab \in SpanId /\ new.download \in SpanId
  BY NewIdsAreFresh
<1>2. replay => pendingDL[ev.DownloadID] \in Int
  BY DEF TypeOK, Parked, Replays
<1>3. u \in TraceState /\ u.Resumed = s.Resumed
  BY <1>1, <1>2 DEF TraceState
<1>4. Put(k, u)
  BY DEF GrabOnto
<1>. HIDE DEF u
<1>. QED  BY <1>3, <1>4, PutRoots

\* Engine.Process never remembers a trace without its root on the memory store.
LEMMA ProcessRoots ==
    ASSUME IInv, RootsInv, NEW ev \in Event, NEW t \in Int, NEW new \in NewIds,
           Process(ev, t, new)
    PROVE  RootsInv'
<1>1. TypeOK
  BY DEF IInv
<1>2. Return \/ ParkDownload(ev, t) => RootsInv'
  BY IdleRoots DEF Return, ParkDownload
<1>3. ASSUME NEW k \in Live, Touch(k, byKey[k], t, {})
      PROVE  RootsInv'
  BY <1>1, <1>3, LiveTraceType, TouchRoots
<1>4. ASSUME ev.Key \in MediaKey, OpenRoot(ev, t, new)
      PROVE  /\ NewTrace(ev, t, new) \in TraceState /\ ~NewTrace(ev, t, new).Resumed
             /\ \A j \in MediaKey : closed'[j] \in {closed[j], None}
             /\ ExportRoots({})
  <2>1. NewTrace(ev, t, new) \in TraceState
    BY <1>1, <1>4, OpenRootType
  <2>2. ~NewTrace(ev, t, new).Resumed
    BY DEF NewTrace
  <2>. QED  BY <1>1, <1>4, <2>1, <2>2, RecallNumbers DEF OpenRoot
<1>5. CASE DropDuplicate(ev, t)
  BY <1>2, <1>5 DEF DropDuplicate
<1>6. CASE OnRequestOpened(ev, t, new)
  <2>1. ev.Key \in MediaKey
    BY <1>6 DEF OnRequestOpened, Accept
  <2>2. CASE OpenRoot(ev, t, new) /\ Put(ev.Key, NewTrace(ev, t, new))
    BY <1>1, <1>4, <2>1, <2>2, PutRoots
  <2>. QED  BY <1>2, <1>6, <2>2 DEF OnRequestOpened
<1>7. CASE OnRequestApproved(ev, t)
  <2>1. ev.Key \in MediaKey
    BY <1>7 DEF OnRequestApproved, Accept
  <2>. QED  BY <1>2, <1>3, <1>7, <2>1, ResolvedIsLive DEF OnRequestApproved
<1>8. CASE OnRequestClosed(ev, t)
  <2>1. ev.Key \in MediaKey /\ ev.Outcome \in Outcome
    BY <1>8 DEF OnRequestClosed, Accept
  <2>. QED  BY <1>2, <1>8, <2>1, ResolvedIsLive, CloseTracesRoots DEF OnRequestClosed
<1>9. CASE OnGrabbed(ev, t, new)
  <2>1. ev.Key \in MediaKey
    BY <1>9 DEF OnGrabbed, Accept
  <2> DEFINE k == ResolveTrace(ev.Key)
  <2>2. CASE /\ k # None
             /\ GrabOnto(k, byKey[k], ctxByKey[k].Root, open, ev, t, new)
             /\ UNCHANGED <<closed, ctxByKey, rooted>>
    <3>1. k \in Live /\ k \in MediaKey /\ byKey[k] \in TraceState
      BY <1>1, <2>1, <2>2, ResolvedIsLive, LiveTraceType
    <3>2. Backend = "memory" => ~byKey[k].Resumed
      BY <3>1 DEF RootsInv
    <3>. QED  BY <1>1, <2>2, <3>1, <3>2, GrabOntoRoots
  <2>3. CASE /\ OpenRoot(ev, t, new)
             /\ GrabOnto(ev.Key, NewTrace(ev, t, new), new.root,
                         SpansWithRoot(new), ev, t, new)
    BY <1>1, <1>4, <2>1, <2>3, GrabOntoRoots
  <2>. QED  BY <1>9, <2>2, <2>3 DEF OnGrabbed
<1>10. CASE OnDownloadStart(ev, t, new)
  <2> DEFINE k == GetByDownloadID(ev.DownloadID)
  <2>1. CASE k # None /\ StartDownload(k, t, new)
    <3> DEFINE s == [byKey[k] EXCEPT !.Download = new.download, !.UpdatedAt = t]
    <3>1. /\ k \in Live /\ k \in MediaKey /\ byKey[k] \in TraceState
          /\ new.download \in SpanId
      BY <1>1, <2>1, DownloadIsLive, LiveTraceType, NewIdsAreFresh
    <3>2. s \in TraceState /\ s.Resumed = byKey[k].Resumed
      BY <3>1 DEF TraceState
    <3>3. Put(k, s) /\ closed' = closed /\ rooted' = rooted
      BY <2>1 DEF StartDownload
    <3>. HIDE DEF s
    <3>4. Backend = "memory" => ~s.Resumed
      BY <3>1, <3>2 DEF RootsInv
    <3>. QED  BY <1>1, <3>1, <3>2, <3>3, <3>4, PutRoots
  <2>. QED  BY <1>2, <1>10, <2>1 DEF OnDownloadStart
<1>11. CASE OnDownloadDone(ev, t)
  <2> DEFINE k == GetByDownloadID(ev.DownloadID)
             s == [byKey[k] EXCEPT !.Download = None]
  <2>1. CASE k # None /\ Touch(k, s, t, {byKey[k].Download})
    <3>1. k \in Live /\ byKey[k] \in TraceState
      BY <1>1, <2>1, DownloadIsLive, LiveTraceType
    <3>2. s \in TraceState /\ s.Resumed = byKey[k].Resumed
      BY <3>1 DEF TraceState
    <3>. HIDE DEF s
    <3>. QED  BY <1>1, <2>1, <3>1, <3>2, TouchRoots
  <2>. QED  BY <1>2, <1>11, <2>1 DEF OnDownloadDone
<1>12. CASE OnImported(ev, t)
  <2>1. ev.Key \in MediaKey /\ "available" \in Outcome
    BY <1>12 DEF OnImported, Accept, Outcome
  <2> DEFINE k == ResolveTrace(ev.Key)
             s == [byKey[k] EXCEPT !.Grab = None, !.Download = None]
  <2>2. CASE k # None /\ Touch(k, s, t, Handles(byKey[k]))
    <3>1. k \in Live /\ byKey[k] \in TraceState
      BY <1>1, <2>1, <2>2, ResolvedIsLive, LiveTraceType
    <3>2. s \in TraceState /\ s.Resumed = byKey[k].Resumed
      BY <3>1 DEF TraceState
    <3>. HIDE DEF s
    <3>. QED  BY <1>1, <2>2, <3>1, <3>2, TouchRoots
  <2>3. CASE k # None /\ CloseTraces({k}, "available", t)
    BY <2>1, <2>3, ResolvedIsLive, CloseTracesRoots
  <2>. QED  BY <1>2, <1>12, <2>2, <2>3 DEF OnImported
<1>13. CASE OnManualNeeded(ev, t)
  <2>1. ev.Key \in MediaKey
    BY <1>13 DEF OnManualNeeded, Accept
  <2>. QED  BY <1>2, <1>3, <1>13, <2>1, ResolvedIsLive DEF OnManualNeeded
<1>. QED  BY <1>5, <1>6, <1>7, <1>8, <1>9, <1>10, <1>11, <1>12, <1>13 DEF Process

\* Every closed trace of the memory store has exported its root span under
\* the id that the next attempt links to.
THEOREM RootsExported == Spec => [](Backend = "memory" => ClosedTraceHasRoot)
<1>1. Init => RootsInv
  BY DEF Init, StoreInit, RootsInv, ClosedTraceHasRoot, Live
<1>2. IInv /\ RootsInv /\ [Next]_vars => RootsInv'
  <2>. SUFFICES ASSUME IInv, RootsInv, [Next]_vars PROVE RootsInv'
    OBVIOUS
  <2>1. TypeOK /\ clock \in Int
    BY DEF IInv, TypeOK
  <2>2. CASE Deliver
    <3>1. PICK new \in NewIds, ev \in Event : \E t \in Stamps(ev) : Process(ev, t, new)
      BY <2>2 DEF Deliver
    <3>2. PICK t \in Stamps(ev) : Process(ev, t, new)
      BY <3>1
    <3>3. t \in Int
      BY <2>1 DEF Stamps
    <3>. QED  BY <3>2, <3>3, ProcessRoots
  <2>3. CASE NoteQueueIssue
    <3>1. PICK d \in DownloadID, t \in (clock - Lag) .. clock :
             /\ GetByDownloadID(d) # None
             /\ Touch(GetByDownloadID(d), byKey[GetByDownloadID(d)], t, {})
      BY <2>3 DEF NoteQueueIssue, NoteIssue
    <3> DEFINE k == GetByDownloadID(d)
    <3>2. k \in Live /\ byKey[k] \in TraceState /\ t \in Int
      BY <2>1, <3>1, DownloadIsLive, LiveTraceType
    <3>. HIDE DEF k
    <3>. QED  BY <2>1, <3>1, <3>2, TouchRoots DEF k
  <2>4. CASE Sweep
    <3>1. Stale(maxTraceDuration, clock) \in SUBSET Live /\ "timeout" \in Outcome
      BY DEF Stale, Outcome
    <3>. QED  BY <2>1, <2>4, <3>1, CloseTracesRoots DEF Sweep
  <2>5. CASE Restart
    <3>. SUFFICES ASSUME Backend = "memory"
                  PROVE  ClosedTraceHasRoot' /\ \A k \in Live' : ~byKey'[k].Resumed
      BY DEF RootsInv
    <3>. QED  BY <2>5 DEF Restart, Resume, Reload, ReloadMemory, Live, ClosedTraceHasRoot
  <2>6. CASE Tick
    BY <2>6, IdleRoots DEF Tick
  <2>7. CASE UNCHANGED vars
    BY <2>7, IdleRoots DEF vars
  <2>. QED  BY <2>2, <2>3, <2>4, <2>5, <2>6, <2>7 DEF Next
<1>3. RootsInv => (Backend = "memory" => ClosedTraceHasRoot)
  BY DEF RootsInv
<1>. QED  BY <1>1, <1>2, <1>3, Invariance, PTL DEF Spec

==============================================================================
