---------------------------- MODULE QueuePoller -----------------------------
(***************************************************************************)
(* The queue poller of internal/poller/queue.go next to the engine it      *)
(* reports to.  Each tick reads the first page of Sonarr's or Radarr's     *)
(* download queue and tells the engine of every item whose stalled status  *)
(* it has not told before.  The engine's mutex is held for each call only: *)
(* webhooks, scripts and the janitor come between two items of a tick.     *)
(***************************************************************************)
EXTENDS Engine

CONSTANTS
    Status,       \* what the queue may say of an item
    Stalled,      \* the statuses that are reported
    pageSize      \* items in a response

VARIABLES
    queue,        \* the application's queue: download id -> status, or None
    polling,      \* whether a tick has a response in hand
    listed,       \* the download ids in that response: "live" in tick
    page,         \* its items not yet gone through: download id -> status
    seen,         \* download id -> status last reported, or None
    reported,     \* auxiliary: the status reported, until the item changes
    noted         \* auxiliary: the status noted on the trace in flight

tickVars == <<polling, listed, page, seen>>
pollerVars == <<queue, tickVars, reported, noted>>
allVars == <<vars, pollerVars>>

ASSUME QueueAssumption ==
    /\ Stalled \subseteq Status /\ None \notin Status
    /\ pageSize \in Nat \ {0}

Nothing == [d \in DownloadID |-> None]

PollerInit ==
    /\ queue = Nothing
    /\ polling = FALSE /\ listed = {} /\ page = Nothing /\ seen = Nothing
    /\ reported = Nothing /\ noted = Nothing

-----------------------------------------------------------------------------
(* One tick. *)

Queued == {d \in DownloadID : queue[d] # None}

\* The response.  Which items are on the first page is the application's
\* choice; a download of several episodes has one status for all of them.  A
\* request that fails changes nothing.
Fetch ==
    /\ ~polling
    /\ polling' = TRUE
    /\ listed' \in {P \in SUBSET Queued :
                      \/ Cardinality(P) = pageSize
                      \/ Cardinality(P) < pageSize /\ P = Queued}
    /\ page' = [d \in DownloadID |-> IF d \in listed' THEN queue[d] ELSE None]
    /\ UNCHANGED <<vars, queue, seen, reported, noted>>

PassOver(d) == page' = [page EXCEPT ![d] = None]

\* An item that makes progress may be reported again.
Progress(d) ==
    /\ page[d] \in Status \ Stalled
    /\ seen' = [seen EXCEPT ![d] = None]
    /\ PassOver(d)
    /\ UNCHANGED <<vars, queue, polling, listed, reported, noted>>

\* Mutant of Repeated: an item reported with any status counts.
RepeatedAnyStatus(d) == seen[d] # None

Repeated(d) == seen[d] = page[d]

Suppress(d) ==
    /\ page[d] \in Stalled /\ Repeated(d)
    /\ PassOver(d)
    /\ UNCHANGED <<vars, queue, polling, listed, seen, reported, noted>>

\* The item is marked as seen whether or not the engine has a trace to note
\* it on.  The time is that of the tick, up to Lag ago.
Report(d) ==
    /\ page[d] \in Stalled /\ ~Repeated(d)
    /\ clock <= Horizon
    /\ seen' = [seen EXCEPT ![d] = page[d]]
    /\ PassOver(d)
    /\ \/ /\ \E t \in (clock - Lag) .. clock : NoteIssue(d, t)
          /\ UNCHANGED <<dedup, clock>>
          /\ noted' = [noted EXCEPT ![d] = page[d]]
       \/ /\ GetByDownloadID(d) = None
          /\ UNCHANGED <<vars, noted>>
    /\ reported' = [reported EXCEPT ![d] = IF queue[d] = page[d] THEN page[d] ELSE None]
    /\ UNCHANGED <<queue, polling, listed>>

\* Mutant of Left: the bookkeeping of those still queued is dropped.
Stayed == listed

\* Items that have left the queue, as far as the page shows.
Left == DownloadID \ listed

EndTick ==
    /\ polling /\ page = Nothing
    /\ polling' = FALSE
    /\ listed' = {}
    /\ seen' = [d \in DownloadID |-> IF d \in Left THEN None ELSE seen[d]]
    /\ UNCHANGED <<vars, queue, page, reported, noted>>

-----------------------------------------------------------------------------
(* The application, the engine and the process. *)

\* An item of the queue appears, goes on, stalls or goes.
ItemChanges(d, s) ==
    /\ clock <= Horizon
    /\ queue[d] # s
    /\ queue' = [queue EXCEPT ![d] = s]
    /\ reported' = [reported EXCEPT ![d] = None]
    /\ UNCHANGED <<vars, tickVars, noted>>

\* The trace a download belongs to.
TraceOf(d) ==
    IF GetByDownloadID(d) = None THEN None ELSE byKey[GetByDownloadID(d)].TraceID

EngineStep ==
    /\ Deliver \/ Sweep \/ Tick
    /\ noted' = [d \in DownloadID |-> IF TraceOf(d)' = TraceOf(d) THEN noted[d] ELSE None]
    /\ UNCHANGED <<queue, tickVars, reported>>

RestartBoth ==
    /\ Restart
    /\ polling' = FALSE /\ listed' = {} /\ page' = Nothing /\ seen' = Nothing
    /\ reported' = Nothing /\ noted' = Nothing
    /\ UNCHANGED queue

Poll == Fetch \/ (\E d \in DownloadID : Progress(d) \/ Suppress(d) \/ Report(d)) \/ EndTick

PollerNext ==
    \/ Poll
    \/ EngineStep
    \/ RestartBoth
    \/ \E d \in DownloadID, s \in Status \cup {None} : ItemChanges(d, s)

PollerSpec == Init /\ PollerInit /\ [][PollerNext]_allVars

\* The ticker fires again and again, and the application answers: a tick is
\* always under way or about to begin.
FairPollerSpec == PollerSpec /\ WF_allVars(Poll)

-----------------------------------------------------------------------------
(* Properties. *)

\* The queue as it is now fits into one response.
QueueFits == IsFiniteSet(Queued) /\ Cardinality(Queued) <= pageSize

\* queue.go:131, "Suppress repeat events at the same status": an item is not
\* reported again before it has changed, however its ticks interleave with
\* changes of the queue.  It takes a queue that always fits (QueueFits): an
\* item beyond the page counts as gone.
RepeatsSuppressed ==
    [][\A d \in DownloadID : Report(d) => reported[d] # page[d]]_allVars

\* An item that stays in a stalled status is reported with it, whatever it
\* was reported with before, unless the process restarts again and again.
StallsReported ==
    <>[][~RestartBoth]_allVars =>
        \A d \in DownloadID, s \in Stalled :
            <>[](queue[d] = s) => <>[](seen[d] = s)

\* engine.go:719-720: the call is a no-op only when the "queue item belongs
\* to a release we never saw a Grab webhook for".  So a status the poller
\* counts as reported is noted on the trace of the download, if there is one.
StallNoted ==
    \A d \in DownloadID :
        seen[d] # None /\ TraceOf(d) # None => noted[d] = seen[d]

=============================================================================
