-------------------------- MODULE EngineProperties --------------------------
(***************************************************************************)
(* What makes the correlation engine correct: its state and the spans it   *)
(* holds stay in step, attempts are numbered upwards, a parked download is *)
(* accounted for, every trace ends.                                        *)
(***************************************************************************)
EXTENDS Engine

-----------------------------------------------------------------------------
(* Traces, contexts and spans. *)

\* The engine keeps two tables by media key, the store's traces and its own
\* contexts.  They have the same keys, and a context leads to the root span
\* of the trace stored under its key: every handler takes the context it
\* opens children under straight from ctxByKey, without a check.
ContextsMatchTraces ==
    \A k \in MediaKey :
        IF k \in Live
        THEN ctxByKey[k] = [Root |-> byKey[k].TraceID, Remote |-> byKey[k].Resumed]
        ELSE ctxByKey[k] = None

\* No two in-flight traces share a trace id, and none has the id of a trace
\* that is remembered as closed, to which the next attempt will be linked.
TraceIdsUnique ==
    \A k \in Live :
        /\ byKey[k].TraceID \notin ClosedIds
        /\ \A j \in Live : byKey[j].TraceID = byKey[k].TraceID => j = k

\* The spans a trace refers to as open are open, in the role and under the
\* parent it expects; the root of a trace that is not resumed is open.  A
\* handler that ends a span must clear HasGrab or HasDownload, and one that
\* opens a span must remember it, whatever the order of grabs, downloads,
\* imports, restarts and timeouts.
HandlesAreOpen ==
    \A k \in Live :
        LET s == byKey[k]
        IN  /\ open[s.TraceID] = IF s.Resumed THEN None ELSE RootSpan
            /\ s.Grab # None => open[s.Grab] = ChildSpan("grab", s.TraceID)
            /\ s.Download # None =>
                  open[s.Download] = ChildSpan("download.transfer", s.TraceID)

\* No span is leaked: one that is recording belongs to an in-flight trace
\* that will end it.  A span nobody ends is never exported.
NoLeakedSpan ==
    \A x \in SpanId : open[x] # None =>
        \E k \in Live : x \in Handles(byKey[k]) \cup {byKey[k].TraceID}

-----------------------------------------------------------------------------
(* Attempts. *)

\* An in-flight attempt is later than the last one remembered for its key.
AttemptsAscend ==
    \A k \in Live : closed[k] # None => closed[k].Attempt < byKey[k].Attempt

\* RememberClosed replaces a record only by one of a later attempt: recall
\* by series, expiry and restarts never make the numbering start again while
\* a record is there.
ClosedAttemptsGrow ==
    [][\A k \in MediaKey :
         (closed[k] # None /\ closed'[k] # None /\ closed'[k] # closed[k])
            => closed[k].Attempt < closed'[k].Attempt]_vars

\* The engine implements Lifecycle: whatever handlers, sweeps and restarts
\* do, a key has one trace at a time, its attempts go up, and a trace leaves
\* the store only by being remembered as closed under its own id and number.
\* On the bolt store a restart loses nothing.
L == INSTANCE Lifecycle WITH
        Key      <- MediaKey,
        Id       <- SpanId,
        Volatile <- Backend = "memory",
        current  <- [k \in MediaKey |->
                        IF byKey[k] = None THEN None
                        ELSE [Id |-> byKey[k].TraceID, Attempt |-> byKey[k].Attempt]],
        last     <- [k \in MediaKey |->
                        IF closed[k] = None THEN None
                        ELSE [Id |-> closed[k].TraceID, Attempt |-> closed[k].Attempt]]

ImplementsLifecycle == L!Spec

ASSUME IdentityAssumption == None \notin L!Trace

-----------------------------------------------------------------------------
(* Closed traces. *)

\* The root span of a closed trace has been exported under the trace id
\* that RememberClosed hands to the link of the next attempt.  Without it
\* the children of the trace hang from a span that does not exist
\* (engine.go:342-343 promises "a complete tree").
ClosedTraceHasRoot ==
    \A k \in MediaKey : closed[k] # None => closed[k].TraceID \in rooted

\* What a resumed trace loses another one does not: the trace of a request or
\* grab that this process has taken in exports its root, whichever handler or
\* sweep takes it out of the store.
OwnRootIsExported ==
    [][\A k \in MediaKey :
         byKey[k] # None /\ ~byKey[k].Resumed /\ byKey'[k] = None =>
            Restart \/ byKey[k].TraceID \in rooted']_vars

-----------------------------------------------------------------------------
(* Deduplication. *)

\* An event is remembered for the time to live, which ends for either store
\* at another instant: what is exactly as old is new again to the bolt store
\* (store_bolt.go:228) and known to the memory store (store.go:231).  The
\* events of download clients, whose clocks are off by up to Skew, make the
\* memory store forget other events by as much too early, and no more.
RememberedForTTL ==
    [][\A i \in DedupKey :
         dedup[i] # None /\ dedup'[i] # dedup[i] =>
            \/ dedup[i] < clock + Skew - dedupTTL
            \/ Backend = "bolt" /\ dedup[i] = clock + Skew - dedupTTL
            \/ Backend = "memory" /\ Restart]_vars

-----------------------------------------------------------------------------
(* The download index. *)

\* Whether no two media keys are grabbed under one download id, as when every
\* release is a single episode or film.  A season pack is not: its episodes'
\* traces share an index entry, which the last grab takes and the first
\* close removes.
OneGrabPerDownload ==
    \A e, f \in Event :
        (e.Phase = "arr.grab" /\ f.Phase = "arr.grab" /\ e.DownloadID = f.DownloadID)
            => e.Key = f.Key

\* Download events and queue reports find the trace that grabbed them: the
\* latest download id of every in-flight trace is indexed to that trace,
\* although Delete removes an entry without looking where it leads.
LiveDownloadIndexed ==
    OneGrabPerDownload =>
        \A k \in Live :
            byKey[k].DownloadID # None => byDLID[byKey[k].DownloadID] = k

\* Whether the trace under k may have been told of the download d: a grab of
\* d was of k itself, or of an episode of the series k.
GrabOf(d, k) ==
    \E e \in Event :
        /\ e.Phase = "arr.grab" /\ e.DownloadID = d
        /\ k = e.Key \/ (e.Key.Type = "tv" /\ k = SeriesKey(e.Key))

\* What happens to a download is never told of other media.  Entries of the
\* index outlive the traces that wrote them, and a later trace takes over the
\* key they lead to; but whatever was superseded, deleted, resolved to a
\* series or put back by Restore, an entry leads to a key that a grab of that
\* download was for (engine.go:441, :482 and :725 look no further).
DownloadsKeepToTheirMedia ==
    /\ \A d \in DownloadID : byDLID[d] # None => GrabOf(d, byDLID[d])
    /\ \A k \in Live : byKey[k].DownloadID # None => GrabOf(byKey[k].DownloadID, k)

\* store.go:67: "Delete removes a trace and any download-id index entry
\* pointing at it."
IndexLeadsToLiveTrace ==
    \A d \in DownloadID : byDLID[d] # None => byDLID[d] \in Live

\* The grab of d comes to the trace under k.
GrabArrives(k, d) ==
    /\ byKey'[k] # None /\ byKey'[k].DownloadID = d
    /\ open[byKey'[k].Grab] = None /\ open'[byKey'[k].Grab] # None

\* The grab of d comes, and the download span of d begins with it.
Replayed(d) ==
    \E k \in MediaKey :
        /\ GrabArrives(k, d)
        /\ byKey'[k].Download # None
        /\ open[byKey'[k].Download] = None
        /\ open'[byKey'[k].Download] = ChildSpan("download.transfer", byKey'[k].TraceID)

\* The grab of d comes, and its trace keeps the download it has open.
Overlapped(d) ==
    \E k \in Live :
        /\ GrabArrives(k, d)
        /\ byKey[k].Download # None /\ byKey'[k].Download = byKey[k].Download

\* Older than the look-back, by a clock that is off by up to Skew.
Aged(d) == pendingDL[d] < clock + Skew - pendingDLTTL

\* engine.go:68-69: a parked download start is "Replayed on the next Grab
\* carrying the same ID", unless the look-back or a restart has dropped it.
ParkedIsReplayed ==
    [][\A d \in DownloadID :
         pendingDL[d] # None /\ pendingDL'[d] = None =>
            Replayed(d) \/ Aged(d) \/ Restart]_vars

\* There is one more way for a parked start to go, and no other: its grab
\* supersedes one whose download is still open.  The new download then never
\* gets a span (engine.go:433, :459).
ParkedLeavesForAReason ==
    [][\A d \in DownloadID :
         pendingDL[d] # None /\ pendingDL'[d] = None =>
            Replayed(d) \/ Overlapped(d) \/ Aged(d) \/ Restart]_vars

-----------------------------------------------------------------------------
(* Ends. *)

\* Every trace is closed in the end, by its last event or by the janitor,
\* once the applications have fallen silent.
EveryTraceEnds == \A k \in MediaKey : (byKey[k] # None) ~> (byKey[k] = None)

=============================================================================
