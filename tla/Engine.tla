------------------------------- MODULE Engine -------------------------------
(***************************************************************************)
(* The correlation engine of internal/correlate/engine.go on top of a      *)
(* Store.  Every handler runs from start to end under Engine.mu, so each   *)
(* one is an action.  Webhooks, scripts and pollers call the engine from   *)
(* their own goroutines: Next lets any event of Event arrive in any order, *)
(* any number of times.                                                    *)
(***************************************************************************)
EXTENDS Store

CONSTANTS
    Event,             \* the events the applications may deliver
    pendingDLTTL,      \* the look-back of parked download starts
    maxTraceDuration,  \* the age at which the janitor closes a trace
    Lag,               \* bound: age of a webhook's time once it has the mutex
    Skew,              \* bound: the error of a download client's clock
    Horizon,           \* bound: the last instant anything calls the engine
    MayRestart,        \* whether the process restarts
    MaxTime,           \* bound on the clock
    MaxAttempt         \* bound on the attempts of one key

VARIABLES
    ctxByKey,    \* media key -> the root context children are opened under
    pendingDL,   \* download id -> time of the parked download start, or None
    open,        \* span id -> the span that is recording and not yet ended
    rooted,      \* the closed traces whose own root span has been exported
    clock        \* the server's clock

engineVars == <<ctxByKey, pendingDL>>
vars == <<byKey, byDLID, dedup, closed, ctxByKey, pendingDL, open, rooted, clock>>

\* A context holds the root span itself or, after a restart, only a remote
\* reference to it, which cannot be ended.
RootContext == [Root : SpanId, Remote : BOOLEAN]

Span == [Name : {"media.request", "grab", "download.transfer"},
         Parent : SpanId \cup {None}]

RootSpan == [Name |-> "media.request", Parent |-> None]
ChildSpan(name, root) == [Name |-> name, Parent |-> root]

TypeOK ==
    /\ StoreTypeOK
    /\ ctxByKey \in [MediaKey -> RootContext \cup {None}]
    /\ pendingDL \in [DownloadID -> Int \cup {None}]
    /\ open \in [SpanId -> Span \cup {None}]
    /\ rooted \in SUBSET SpanId
    /\ clock \in Nat

Init ==
    /\ StoreInit
    /\ ctxByKey = [k \in MediaKey |-> None]
    /\ pendingDL = [d \in DownloadID |-> None]
    /\ open = [s \in SpanId |-> None]
    /\ rooted = {}
    /\ clock = 0

-----------------------------------------------------------------------------
(* Assumptions on the constants. *)

ASSUME BackendAssumption == Backend \in {"memory", "bolt"}

ASSUME NoneAssumption ==
    /\ None \notin MediaKey /\ None \notin DownloadID /\ None \notin SpanId
    /\ None \notin TraceState /\ None \notin ClosedTrace /\ None \notin RootContext
    /\ None \notin Span /\ None \notin Outcome /\ None \notin Int

ASSUME KeyAssumption == \A k \in MediaKey : SeriesKey(k) \in MediaKey

\* What the parsers of Events guarantee of an event.
ASSUME EventAssumption ==
    \A ev \in Event :
        /\ DedupKeyOf(ev) \in DedupKey
        /\ ev.Phase \in Phase /\ ev.Source \in Source
        /\ ev.DownloadID \in DownloadID \cup {None}
        /\ IF ev.Phase \in {"download.start", "download.done"}
           THEN ev.DownloadID # None ELSE ev.Key \in MediaKey
        /\ ev.Phase = "request.closed" => ev.Outcome \in Outcome

ASSUME TimeAssumption ==
    /\ dedupTTL \in Nat /\ recallTTL \in Nat
    /\ pendingDLTTL \in Nat /\ maxTraceDuration \in Nat
    /\ Lag \in Nat /\ Skew \in Nat /\ Horizon \in Nat
    /\ MaxTime \in Nat /\ MaxAttempt \in Nat
    /\ MayRestart \in BOOLEAN

-----------------------------------------------------------------------------
(* Span ids.  OpenTelemetry draws them at random; here the three that a    *)
(* handler may need are any that no span, trace or record refers to.       *)

ClosedIds == {closed[k].TraceID : k \in {j \in MediaKey : closed[j] # None}}

UsedIds ==
    {s \in SpanId : open[s] # None}
        \cup {byKey[k].TraceID : k \in Live}
        \cup ClosedIds

Fresh(new, free) ==
    /\ new \in [root : free, grab : free, download : free]
    /\ new.root # new.grab /\ new.root # new.download /\ new.grab # new.download

\* One choice of ids, or none when SpanId (a bound) has too few left.
NewIds ==
    LET free   == SpanId \ UsedIds
        triple == [root : free, grab : free, download : free]
    IN  IF \E n \in triple : Fresh(n, free)
        THEN {CHOOSE n \in triple : Fresh(n, free)} ELSE {}

\* Mutant of Handles: the download span is not ended with the trace.
GrabHandle(s) == {s.Grab} \ {None}

\* Handles on the child spans of a trace.
Handles(s) == {s.Grab, s.Download} \ {None}

EndSpans(S) == open' = [s \in SpanId |-> IF s \in S THEN None ELSE open[s]]

\* Root spans exported by this step join those of the closed traces still
\* remembered.
ExportRoots(S) == rooted' = (rooted \cup S) \cap ClosedIds'

-----------------------------------------------------------------------------
(* Dispatch. *)

\* Webhooks are stamped on arrival and may wait for the mutex; a script's
\* event has the time of the download client.
Stamps(ev) ==
    IF ev.Source \in {"nzbget", "sabnzbd"}
    THEN (clock - Skew) .. (clock + Skew) ELSE (clock - Lag) .. clock

\* The part of Process before the switch.
Accept(ev, t, phase) ==
    /\ ev.Phase = phase
    /\ RecordEvent(DedupKeyOf(ev), t)

\* Mutant of ResolveTrace: any trace of the series will do.
ResolveSibling(k) ==
    LET siblings == {j \in Live : j.Type = "tv" /\ SeriesKey(j) = SeriesKey(k)}
    IN  CASE k \in Live -> k
          [] k \notin Live /\ siblings # {} -> CHOOSE j \in siblings : TRUE
          [] OTHER -> None

\* The exact key, then the series.
ResolveTrace(k) ==
    CASE k \in Live -> k
      [] k \notin Live /\ k.Type = "tv" /\ SeriesKey(k) \in Live -> SeriesKey(k)
      [] OTHER -> None

\* A handler's early return.
Return == UNCHANGED <<byKey, byDLID, closed, ctxByKey, pendingDL, open, rooted>>

DropDuplicate(ev, t) ==
    /\ RejectEvent(DedupKeyOf(ev), t)
    /\ Return

-----------------------------------------------------------------------------
(* Opening a trace. *)

\* Mutant of NextAttempt: a retry has the number of the attempt it retries.
SameAttempt(k, t) ==
    LET prior == RecallClosed(k, t)
    IN  IF prior = None THEN 1 ELSE prior.Attempt

NextAttempt(k, t) ==
    LET prior == RecallClosed(k, t)
    IN  IF prior = None THEN 1 ELSE prior.Attempt + 1

NewTrace(ev, t, new) ==
    [TraceID |-> new.root, Attempt |-> NextAttempt(ev.Key, t),
     Source |-> ev.Source, UpdatedAt |-> t, Grab |-> None, Download |-> None,
     DownloadID |-> None, Resumed |-> FALSE]

SpansWithRoot(new) == [open EXCEPT ![new.root] = RootSpan]

\* The recall of the previous attempt, the root context and nothing else:
\* the caller puts the trace and sets "open".
OpenRoot(ev, t, new) ==
    /\ NextAttempt(ev.Key, t) <= MaxAttempt
    /\ ForgetExpired(ev.Key, t)
    /\ ExportRoots({})
    /\ ctxByKey' = [ctxByKey EXCEPT ![ev.Key] = [Root |-> new.root, Remote |-> FALSE]]

\* Mutant of OnRequestOpened: a request for a trace in flight is not ignored.
RequestReopens(ev, t, new) ==
    /\ Accept(ev, t, "request.opened")
    /\ OpenRoot(ev, t, new)
    /\ Put(ev.Key, NewTrace(ev, t, new))
    /\ open' = SpansWithRoot(new)
    /\ UNCHANGED pendingDL

OnRequestOpened(ev, t, new) ==
    /\ Accept(ev, t, "request.opened")
    /\ \/ /\ ResolveTrace(ev.Key) # None
          /\ Return
       \/ /\ ResolveTrace(ev.Key) = None
          /\ OpenRoot(ev, t, new)
          /\ Put(ev.Key, NewTrace(ev, t, new))
          /\ open' = SpansWithRoot(new)
          /\ UNCHANGED pendingDL

-----------------------------------------------------------------------------
(* Closing traces, as onRequestClosed, onImported and Sweep do. *)

\* Mutant of EndedRoot: the root is left open.
NoEndedRoot(k) == {}

\* Ending the root through its context.  A resumed trace has no root to end:
\* its synthetic root is started on an empty context and so belongs to a
\* trace of its own.
EndedRoot(k) ==
    IF byKey[k].Resumed \/ ctxByKey[k].Remote THEN {} ELSE {ctxByKey[k].Root}

\* Mutants of CloseTraces: the trace is not remembered; its context is not
\* deleted; the trace itself is not.
CloseUnremembered(K, outcome, t) ==
    /\ EndSpans(UNION {Handles(byKey[k]) \cup EndedRoot(k) : k \in K})
    /\ ctxByKey' = [k \in MediaKey |-> IF k \in K THEN None ELSE ctxByKey[k]]
    /\ Delete(K)
    /\ UNCHANGED <<closed, pendingDL, rooted>>

CloseKeepsContexts(K, outcome, t) ==
    /\ EndSpans(UNION {Handles(byKey[k]) \cup EndedRoot(k) : k \in K})
    /\ Delete(K)
    /\ RememberClosed(K, outcome, t)
    /\ ExportRoots(UNION {EndedRoot(k) : k \in K})
    /\ UNCHANGED <<ctxByKey, pendingDL>>

CloseKeepsTraces(K, outcome, t) ==
    /\ EndSpans(UNION {Handles(byKey[k]) \cup EndedRoot(k) : k \in K})
    /\ RememberClosed(K, outcome, t)
    /\ ExportRoots(UNION {EndedRoot(k) : k \in K})
    /\ UNCHANGED <<byKey, byDLID, ctxByKey, pendingDL>>

CloseTraces(K, outcome, t) ==
    /\ EndSpans(UNION {Handles(byKey[k]) \cup EndedRoot(k) : k \in K})
    /\ ctxByKey' = [k \in MediaKey |-> IF k \in K THEN None ELSE ctxByKey[k]]
    /\ Delete(K)
    /\ RememberClosed(K, outcome, t)
    /\ ExportRoots(UNION {EndedRoot(k) : k \in K})
    /\ UNCHANGED pendingDL

OnRequestClosed(ev, t) ==
    /\ Accept(ev, t, "request.closed")
    /\ \/ /\ ResolveTrace(ev.Key) = None
          /\ Return
       \/ /\ ResolveTrace(ev.Key) # None
          /\ CloseTraces({ResolveTrace(ev.Key)}, ev.Outcome, t)

-----------------------------------------------------------------------------
(* Updating a trace. *)

\* A new time and a Put, and the end of the spans in S.
Touch(k, s, t, S) ==
    /\ Put(k, [s EXCEPT !.UpdatedAt = t])
    /\ EndSpans(S)
    /\ UNCHANGED <<closed, ctxByKey, pendingDL, rooted>>

OnRequestApproved(ev, t) ==
    /\ Accept(ev, t, "request.approved")
    /\ LET k == ResolveTrace(ev.Key)
       IN  \/ k = None /\ Return
           \/ k # None /\ Touch(k, byKey[k], t, {})

OnManualNeeded(ev, t) ==
    /\ Accept(ev, t, "arr.manual")
    /\ LET k == ResolveTrace(ev.Key)
       IN  \/ k = None /\ Return
           \/ k # None /\ Touch(k, byKey[k], t, {})

\* Mutant of Parked: the buffer is taken to have an entry for every id.
AlwaysParked(d) == d # None

Parked(d) == d # None /\ pendingDL[d] # None

\* Mutant of Replays: a grab that supersedes another replays nothing.
ReplaysOnFirstGrab(d, s) == Parked(d) /\ s.Download = None /\ s.Grab = None

\* handleDownloadStart returns at once when the trace has a download open.
Replays(d, s) == Parked(d) /\ s.Download = None

\* The grab span, and the download span of a start that was parked for this
\* download id.  A parked start is replayed however old it is, and leaves
\* the trace with its own, older time.  It leaves the buffer also when the
\* replay does nothing.
GrabOnto(k, s, root, spans, ev, t, new) ==
    LET replay == Replays(ev.DownloadID, s)
    IN  /\ Put(k, [s EXCEPT
              !.Grab = new.grab,
              !.DownloadID = IF ev.DownloadID # None THEN ev.DownloadID ELSE @,
              !.Download = IF replay THEN new.download ELSE @,
              !.UpdatedAt = IF replay THEN pendingDL[ev.DownloadID] ELSE t])
        /\ open' = [x \in SpanId |->
              CASE x = new.grab                -> ChildSpan("grab", root)
                [] x = new.download /\ replay  -> ChildSpan("download.transfer", root)
                [] x = s.Grab                 -> None
                [] OTHER                      -> spans[x]]
        /\ pendingDL' = [d \in DownloadID |->
              IF d = ev.DownloadID THEN None ELSE pendingDL[d]]

\* A grab without a trace opens one of its own, an orphan.
OnGrabbed(ev, t, new) ==
    /\ Accept(ev, t, "arr.grab")
    /\ LET k == ResolveTrace(ev.Key)
       IN  \/ /\ k # None
              /\ GrabOnto(k, byKey[k], ctxByKey[k].Root, open, ev, t, new)
              /\ UNCHANGED <<closed, ctxByKey, rooted>>
           \/ /\ k = None
              /\ OpenRoot(ev, t, new)
              /\ GrabOnto(ev.Key, NewTrace(ev, t, new), new.root,
                          SpansWithRoot(new), ev, t, new)

\* Mutant of ParkDownload: the look-back is compared the wrong way round.
ParkDropsRecent(ev, t) ==
    /\ pendingDL' = [d \in DownloadID |->
          CASE d = ev.DownloadID -> t
            [] d # ev.DownloadID /\ pendingDL[d] # None
                                 /\ pendingDL[d] >= t - pendingDLTTL -> None
            [] OTHER -> pendingDL[d]]
    /\ UNCHANGED <<byKey, byDLID, closed, ctxByKey, open, rooted>>

\* Without a trace for its download id the start is parked, and every parked
\* start older than the look-back is dropped.
ParkDownload(ev, t) ==
    /\ pendingDL' = [d \in DownloadID |->
          CASE d = ev.DownloadID -> t
            [] d # ev.DownloadID /\ pendingDL[d] # None
                                 /\ pendingDL[d] < t - pendingDLTTL -> None
            [] OTHER -> pendingDL[d]]
    /\ UNCHANGED <<byKey, byDLID, closed, ctxByKey, open, rooted>>

StartDownload(k, t, new) ==
    /\ Put(k, [byKey[k] EXCEPT !.Download = new.download, !.UpdatedAt = t])
    /\ open' = [open EXCEPT
          ![new.download] = ChildSpan("download.transfer", ctxByKey[k].Root)]
    /\ UNCHANGED <<closed, ctxByKey, pendingDL, rooted>>

OnDownloadStart(ev, t, new) ==
    /\ Accept(ev, t, "download.start")
    /\ LET k == GetByDownloadID(ev.DownloadID)
       IN  \/ k = None /\ ParkDownload(ev, t)
           \/ k # None /\ byKey[k].Download # None /\ Return
           \/ k # None /\ byKey[k].Download = None /\ StartDownload(k, t, new)

\* Mutant of OnDownloadDone: HasDownload stays set.
DoneKeepsHandle(ev, t) ==
    /\ Accept(ev, t, "download.done")
    /\ LET k == GetByDownloadID(ev.DownloadID)
       IN  \/ k = None /\ Return
           \/ k # None /\ Touch(k, byKey[k], t, {byKey[k].Download})

\* An end without a trace is dropped, not parked.
OnDownloadDone(ev, t) ==
    /\ Accept(ev, t, "download.done")
    /\ LET k == GetByDownloadID(ev.DownloadID)
       IN  \/ k = None /\ Return
           \/ /\ k # None
              /\ Touch(k, [byKey[k] EXCEPT !.Download = None], t,
                       {byKey[k].Download})

IsOrphan(s) == s.Source \in {"sonarr", "radarr"}

\* The import ends both children, and the whole trace when no request will.
OnImported(ev, t) ==
    /\ Accept(ev, t, "arr.import")
    /\ LET k == ResolveTrace(ev.Key)
       IN  \/ k = None /\ Return
           \/ /\ k # None /\ ~IsOrphan(byKey[k])
              /\ Touch(k, [byKey[k] EXCEPT !.Grab = None, !.Download = None], t,
                       Handles(byKey[k]))
           \/ /\ k # None /\ IsOrphan(byKey[k])
              /\ CloseTraces({k}, "available", t)

-----------------------------------------------------------------------------
(* Callers other than the receivers, and the environment. *)

\* Engine.Process.
Process(ev, t, new) ==
    \/ DropDuplicate(ev, t)
    \/ OnRequestOpened(ev, t, new)
    \/ OnRequestApproved(ev, t)
    \/ OnRequestClosed(ev, t)
    \/ OnGrabbed(ev, t, new)
    \/ OnDownloadStart(ev, t, new)
    \/ OnDownloadDone(ev, t)
    \/ OnImported(ev, t)
    \/ OnManualNeeded(ev, t)

Deliver ==
    /\ clock <= Horizon
    /\ \E new \in NewIds, ev \in Event : \E t \in Stamps(ev) : Process(ev, t, new)
    /\ UNCHANGED clock

\* Engine.NoteQueueIssue; without a trace the call does nothing.
NoteIssue(d, t) ==
    /\ GetByDownloadID(d) # None
    /\ Touch(GetByDownloadID(d), byKey[GetByDownloadID(d)], t, {})

\* The queue poller's report of a stalled download.
NoteQueueIssue ==
    /\ clock <= Horizon
    /\ \E d \in DownloadID, t \in (clock - Lag) .. clock : NoteIssue(d, t)
    /\ UNCHANGED <<dedup, clock>>

\* The janitor.
Sweep ==
    /\ Stale(maxTraceDuration, clock) # {}
    /\ CloseTraces(Stale(maxTraceDuration, clock), "timeout", clock)
    /\ UNCHANGED <<dedup, clock>>

\* Engine.Restore, and what a new process starts with.  Spans not yet ended
\* are never exported.
Resume ==
    /\ ctxByKey' = [k \in MediaKey |->
          IF byKey'[k] = None THEN None
          ELSE [Root |-> byKey'[k].TraceID, Remote |-> TRUE]]
    /\ pendingDL' = [d \in DownloadID |-> None]
    /\ open' = [s \in SpanId |-> None]
    /\ ExportRoots({})
    /\ UNCHANGED clock

\* The process stops, for whatever reason, between two handlers, and starts
\* again.
Restart ==
    /\ MayRestart /\ clock <= Horizon
    /\ Reload
    /\ Resume

Tick ==
    /\ clock < MaxTime
    /\ clock' = clock + 1
    /\ UNCHANGED <<byKey, byDLID, dedup, closed, ctxByKey, pendingDL, open, rooted>>

Next == Deliver \/ NoteQueueIssue \/ Sweep \/ Restart \/ Tick

Spec == Init /\ [][Next]_vars

\* Time passes, and the janitor's ticker fires again and again for as long
\* as the process runs.  Nothing is assumed of the applications.
FairSpec == Spec /\ WF_vars(Tick) /\ WF_vars(Sweep)

=============================================================================
