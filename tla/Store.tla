------------------------------- MODULE Store --------------------------------
(***************************************************************************)
(* The Store of internal/correlate: in-flight traces by media key, the     *)
(* index from download ids to media keys, the deduplication table and the  *)
(* records of closed traces.  Both implementations are here, memoryStore   *)
(* (store.go) and boltStore (store_bolt.go); they differ in how they       *)
(* forget and in what a restart leaves.  Each call of a store is atomic,   *)
(* and the engine makes all of them under its own mutex.                   *)
(*                                                                         *)
(* The module has no next-state relation of its own.  Its operators are    *)
(* what one call returns, or the conjunct with the variables it changes.   *)
(***************************************************************************)
EXTENDS Events, FiniteSets

CONSTANTS
    Backend,      \* "memory" or "bolt"
    MediaKey,     \* the media keys events may carry, closed under SeriesKey
    DownloadID,   \* the download clients' ids
    DedupKey,     \* the keys of the deduplication table
    SpanId,       \* identifiers of traces and spans
    dedupTTL,     \* how long an event is remembered
    recallTTL     \* how long a closed trace is remembered

VARIABLES
    byKey,        \* media key -> TraceState of the in-flight trace, or None
    byDLID,       \* download id -> media key, or None
    dedup,        \* dedup key -> when the event was first seen, or None
    closed        \* media key -> ClosedTrace, or None

storeVars == <<byKey, byDLID, dedup, closed>>

(***************************************************************************)
(* TraceID stands for the trace id and for the id of its root span.  Grab  *)
(* and Download are the ids of the open child spans, None for a false      *)
(* HasGrab or HasDownload.  Titles, requester and the times that only      *)
(* decorate a span are left out.                                           *)
(***************************************************************************)
TraceState ==
    [TraceID : SpanId, Attempt : Nat, Source : Source, UpdatedAt : Int,
     Grab : SpanId \cup {None}, Download : SpanId \cup {None},
     DownloadID : DownloadID \cup {None}, Resumed : BOOLEAN]

ClosedTrace ==
    [TraceID : SpanId, Attempt : Nat, Outcome : Outcome, ClosedAt : Int]

StoreTypeOK ==
    /\ byKey \in [MediaKey -> TraceState \cup {None}]
    /\ byDLID \in [DownloadID -> MediaKey \cup {None}]
    /\ dedup \in [DedupKey -> Int \cup {None}]
    /\ closed \in [MediaKey -> ClosedTrace \cup {None}]

StoreInit ==
    /\ byKey = [k \in MediaKey |-> None]
    /\ byDLID = [d \in DownloadID |-> None]
    /\ dedup = [i \in DedupKey |-> None]
    /\ closed = [k \in MediaKey |-> None]

-----------------------------------------------------------------------------
(* In-flight traces. *)

Live == {k \in MediaKey : byKey[k] # None}

\* The key of the in-flight trace a download id leads to.  The empty id and
\* an entry whose trace is gone lead nowhere.
GetByDownloadID(d) ==
    IF d # None /\ byDLID[d] # None /\ byDLID[d] \in Live THEN byDLID[d] ELSE None

\* Mutant of Put: only a trace that is new is indexed.
PutIndexesNewOnly(k, s) ==
    /\ byKey' = [byKey EXCEPT ![k] = s]
    /\ byDLID' = IF s.DownloadID = None \/ k \in Live THEN byDLID
                 ELSE [byDLID EXCEPT ![s.DownloadID] = k]

\* Put only ever adds to the index: an entry for an earlier download id of
\* the same trace stays.
Put(k, s) ==
    /\ byKey' = [byKey EXCEPT ![k] = s]
    /\ byDLID' = IF s.DownloadID = None THEN byDLID
                 ELSE [byDLID EXCEPT ![s.DownloadID] = k]

\* Delete, once for every key of K.  The entry of the trace's present
\* download id goes, wherever it leads; entries for its earlier ids stay.
Delete(K) ==
    /\ byKey' = [k \in MediaKey |-> IF k \in K THEN None ELSE byKey[k]]
    /\ byDLID' = [d \in DownloadID |->
                    IF \E k \in K \cap Live : byKey[k].DownloadID = d
                    THEN None ELSE byDLID[d]]

\* Mutant of Stale: a trace that is downloading counts as active.
StaleUnlessDownloading(ttl, now) ==
    {k \in Live : byKey[k].UpdatedAt < now - ttl /\ byKey[k].Download = None}

Stale(ttl, now) == {k \in Live : byKey[k].UpdatedAt < now - ttl}

-----------------------------------------------------------------------------
(* Deduplication. *)

\* Mutant of MemoryDedup: an entry exactly as old as the time to live goes.
MemoryDedupAtTTL(now) ==
    [i \in DedupKey |->
        IF dedup[i] # None /\ dedup[i] <= now - dedupTTL THEN None ELSE dedup[i]]

\* The memory store first collects every expired entry.
MemoryDedup(now) ==
    [i \in DedupKey |->
        IF dedup[i] # None /\ dedup[i] < now - dedupTTL THEN None ELSE dedup[i]]

MemorySeen(id, now) == MemoryDedup(now)[id] # None

\* Mutant of BoltSeen: the time to live is left out of the cutoff.
BoltSeenNow(id, now) == dedup[id] # None /\ dedup[id] > now

\* The bolt store collects nothing; an expired entry counts as absent, one
\* instant sooner than in the memory store.
BoltSeen(id, now) == dedup[id] # None /\ dedup[id] > now - dedupTTL

AlreadySeen(id, now) ==
    IF Backend = "memory" THEN MemorySeen(id, now) ELSE BoltSeen(id, now)

\* SeenEvent of an event that is new: the caller goes on to handle it.
RecordEvent(id, now) ==
    /\ ~AlreadySeen(id, now)
    /\ dedup' = [IF Backend = "memory" THEN MemoryDedup(now) ELSE dedup
                    EXCEPT ![id] = now]

\* SeenEvent of a duplicate.
RejectEvent(id, now) ==
    /\ AlreadySeen(id, now)
    /\ dedup' = IF Backend = "memory" THEN MemoryDedup(now) ELSE dedup

-----------------------------------------------------------------------------
(* Closed traces. *)

Expired(c, now) == c.ClosedAt < now - recallTTL

\* RememberClosed, once for every key of K, read off the traces before their
\* deletion.  Only the memory store collects what has expired.
RememberClosed(K, outcome, now) ==
    closed' = [k \in MediaKey |->
        CASE k \in K ->
                [TraceID |-> byKey[k].TraceID, Attempt |-> byKey[k].Attempt,
                 Outcome |-> outcome, ClosedAt |-> now]
          [] k \notin K /\ Backend = "memory" /\ closed[k] # None
                        /\ Expired(closed[k], now) -> None
          [] OTHER -> closed[k]]

\* The record RecallClosed examines: the key's own, or the series' for TV.
RecallKey(k) ==
    IF closed[k] = None /\ k.Type = "tv" THEN SeriesKey(k) ELSE k

RecallClosed(k, now) ==
    LET c == closed[RecallKey(k)]
    IN  IF c # None /\ ~Expired(c, now) THEN c ELSE None

\* A recall that meets an expired record deletes the one of k itself.  When
\* the one it examined is the series', k has none, and nothing is deleted.
ForgetExpired(k, now) ==
    LET c == closed[RecallKey(k)]
    IN  closed' = IF c # None /\ Expired(c, now)
                  THEN [closed EXCEPT ![k] = None] ELSE closed

-----------------------------------------------------------------------------
(* A restart, up to Engine.Restore.  The memory store is empty again.  The *)
(* bolt store reloads its buckets, LoadAll marks every trace Resumed, and  *)
(* Restore clears the handles of the spans that died with the process      *)
(* before it puts the trace back, which renews its entry in the index.     *)

\* Mutants of ResumedTrace: the handles are not cleared; the mark is not set.
ResumedWithHandles(s) == [s EXCEPT !.Resumed = TRUE]
ResumedUnmarked(s) == [s EXCEPT !.Grab = None, !.Download = None]

ResumedTrace(s) == [s EXCEPT !.Resumed = TRUE, !.Grab = None, !.Download = None]

\* Two traces may have the same download id (a season pack); the order of
\* Restore's loop, a Go map, then decides which of them the index names.
ReloadBolt ==
    /\ byKey' = [k \in MediaKey |->
                    IF k \in Live THEN ResumedTrace(byKey[k]) ELSE None]
    /\ byDLID' \in [DownloadID -> MediaKey \cup {None}]
    /\ \A d \in DownloadID :
          LET claims == {k \in Live : byKey[k].DownloadID = d}
          IN  IF claims = {} THEN byDLID'[d] = byDLID[d] ELSE byDLID'[d] \in claims
    /\ UNCHANGED <<dedup, closed>>

ReloadMemory ==
    /\ byKey' = [k \in MediaKey |-> None]
    /\ byDLID' = [d \in DownloadID |-> None]
    /\ dedup' = [i \in DedupKey |-> None]
    /\ closed' = [k \in MediaKey |-> None]

Reload == IF Backend = "memory" THEN ReloadMemory ELSE ReloadBolt

=============================================================================
