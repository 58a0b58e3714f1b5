--------------------------- MODULE EngineTelemetry ---------------------------
(***************************************************************************)
(* The metrics that the engine derives: the timings it keeps by media key  *)
(* and the gauge "tracearr_in_flight" with its three phases.  Both are     *)
(* changed by the handlers, beside the traces and from the same events,    *)
(* and nothing ever compares them with the traces.  The histograms and     *)
(* counters only take what a timing holds at some instant, and are left    *)
(* out.                                                                    *)
(***************************************************************************)
EXTENDS EngineProperties

VARIABLES
    timing,     \* media key -> what is measured of its request, or None
    gauge       \* phase -> the traces said to be in that phase

telemetryVars == <<timing, gauge>>
meteredVars == <<vars, timing, gauge>>

\* Of a timing it matters here that it exists and whether the start of a
\* download has been noted in it.
Timing == {"opened", "started"}

Gauge == [request : Int, grab : Int, download : Int]

ASSUME TimingAssumption == None \notin Timing

\* The parsers of Events: grabs are told by Sonarr and Radarr, requests are
\* not, and none says that a request has timed out.
ASSUME SourceAssumption ==
    \A ev \in Event :
        /\ ev.Phase = "arr.grab" => ev.Source \in {"sonarr", "radarr"}
        /\ ev.Phase = "request.opened" => ev.Source \notin {"sonarr", "radarr"}
        /\ ev.Phase = "request.closed" => ev.Outcome # "timeout"

NoTimings == [k \in MediaKey |-> None]
NoneInFlight == [request |-> 0, grab |-> 0, download |-> 0]

TelemetryInit ==
    /\ Init
    /\ timing = NoTimings
    /\ gauge = NoneInFlight

-----------------------------------------------------------------------------
(* What the handlers measure.  Each operator is the telemetry of a handler *)
(* for the trace k the event concerns, or for None.                        *)

Timed(k) == k # None /\ timing[k] # None
Started(k) == Timed(k) /\ timing[k] = "started"

Unmeasured == UNCHANGED telemetryVars

\* AdjustInFlight, for the three phases at once.
AdjustInFlight(r, g, d) ==
    gauge' = [request  |-> gauge.request + r,
              grab     |-> gauge.grab + g,
              download |-> gauge.download + d]

\* Only a request gets a timing, an orphan never.  One that is there already,
\* of a trace that Sweep closed, is replaced and counted again.
MeasureOpened(k, j) ==
    \/ k # None /\ Unmeasured
    \/ /\ k = None
       /\ timing' = [timing EXCEPT ![j] = "opened"]
       /\ AdjustInFlight(1, 0, 0)

\* A trace as its handler leaves it when it gets to the metrics: the handles
\* have been cleared (engine.go:332-339, :519-522, :550-553).
Cleared(s) == [s EXCEPT !.Grab = None, !.Download = None]

\* Mutants of MeasureClosed: the timing is not asked for; it is not deleted.
CloseUntimed(k) ==
    /\ timing' = [j \in MediaKey |-> IF j = k THEN None ELSE timing[j]]
    /\ AdjustInFlight(IF k = None THEN 0 ELSE -1, 0, 0)

CloseKeepsTiming(k) ==
    \/ ~Timed(k) /\ Unmeasured
    \/ /\ Timed(k)
       /\ AdjustInFlight(-1, 0, 0)
       /\ UNCHANGED timing

\* The open grab is looked for after its handle has been cleared, so the
\* grabs of a closed trace stay in the gauge.
MeasureClosed(k) ==
    \/ ~Timed(k) /\ Unmeasured
    \/ /\ Timed(k)
       /\ AdjustInFlight(-1, IF Cleared(byKey[k]).Grab # None THEN -1 ELSE 0, 0)
       /\ timing' = [timing EXCEPT ![k] = None]

\* A grab counts each time, one that supersedes another too; a parked start
\* that it replays counts as a download.
MeasureGrab(k, d) ==
    \/ ~Timed(k) /\ Unmeasured
    \/ /\ Timed(k)
       /\ LET replay == Parked(d) /\ (k \notin Live \/ byKey[k].Download = None)
          IN  /\ AdjustInFlight(0, 1, IF replay THEN 1 ELSE 0)
              /\ timing' = IF replay THEN [timing EXCEPT ![k] = "started"]
                           ELSE timing

MeasureStart(k) ==
    \/ ~Timed(k) /\ Unmeasured
    \/ Timed(k) /\ byKey[k].Download # None /\ Unmeasured
    \/ /\ Timed(k) /\ byKey[k].Download = None
       /\ timing' = [timing EXCEPT ![k] = "started"]
       /\ AdjustInFlight(0, 0, 1)

\* The start stays noted, so every later end is counted again.
MeasureDone(k) ==
    \/ ~Started(k) /\ Unmeasured
    \/ /\ Started(k)
       /\ AdjustInFlight(0, 0, -1)
       /\ UNCHANGED timing

\* Mutant of MeasureImport: every import ends the measurement.
ImportEnds(k) == MeasureClosed(k)

\* An import ends the measurement with the trace, when no request will.
MeasureImport(k) ==
    \/ k = None /\ Unmeasured
    \/ k # None /\ ~IsOrphan(byKey[k]) /\ Unmeasured
    \/ k # None /\ IsOrphan(byKey[k]) /\ MeasureClosed(k)

-----------------------------------------------------------------------------
(* The engine with its metrics. *)

Measure(ev) ==
    LET k == ResolveTrace(ev.Key)
        j == GetByDownloadID(ev.DownloadID)
    IN  CASE ev.Phase = "request.opened" -> MeasureOpened(k, ev.Key)
          [] ev.Phase = "request.closed" -> MeasureClosed(k)
          [] ev.Phase = "arr.grab" ->
                MeasureGrab(IF k = None THEN ev.Key ELSE k, ev.DownloadID)
          [] ev.Phase = "download.start" -> MeasureStart(j)
          [] ev.Phase = "download.done" -> MeasureDone(j)
          [] ev.Phase = "arr.import" -> MeasureImport(k)
          [] OTHER -> Unmeasured

MeteredDeliver ==
    /\ clock <= Horizon
    /\ \E new \in NewIds, ev \in Event : \E t \in Stamps(ev) :
          /\ Process(ev, t, new)
          /\ IF AlreadySeen(DedupKeyOf(ev), t) THEN Unmeasured ELSE Measure(ev)
    /\ UNCHANGED clock

\* Neither a queue report nor the janitor looks at the metrics.
MeteredReport == NoteQueueIssue /\ Unmeasured
MeteredSweep == Sweep /\ Unmeasured
MeteredTick == Tick /\ Unmeasured

\* The metrics live in memory.  Restore makes no timings for the traces that
\* it resumes.
MeteredRestart ==
    /\ Restart
    /\ timing' = NoTimings
    /\ gauge' = NoneInFlight

MeteredNext ==
    MeteredDeliver \/ MeteredReport \/ MeteredSweep \/ MeteredTick \/ MeteredRestart

MeteredSpec == TelemetryInit /\ [][MeteredNext]_meteredVars

-----------------------------------------------------------------------------
(* Properties. *)

TimedKeys == {k \in MediaKey : timing[k] # None}

\* The gauge of requests errs on one side only: whatever is swept, closed
\* twice or resumed, it is never below the number of timings (engine.go:266,
\* :359, :586), so no close takes away what another request added.
RequestGaugeCoversTimed == gauge.request >= Cardinality(TimedKeys)

\* A request that this process opened is timed for as long as its trace is in
\* flight: grabs and downloads that join it are measured, and its close is,
\* whatever its key went through before.
RequestsAreTimed ==
    \A k \in Live :
        ~IsOrphan(byKey[k]) /\ ~byKey[k].Resumed => timing[k] # None

\* A timing that is not of the trace under its key: there is none, or it is
\* an orphan, whose grabs and downloads are then measured from a request that
\* is over (engine.go:416-429).
LeftBehind(k) == timing[k] # None /\ (k \notin Live \/ IsOrphan(byKey[k]))

\* Timings are "for in-flight traces" (engine.go:77), but live in a table of
\* their own.  An event that closes a trace takes the timing of its key along,
\* whosever it is.  The two part in one way, when the janitor closes the trace
\* of a request; and are set right in one of three: another request for the
\* same key replaces the timing, an orphan of the key that has come to use it
\* is closed by an event, whose handler deletes it (engine.go:364, :589), or
\* the process restarts.  Until then the timing stays, through further orphans
\* and sweeps of them.
TimingsPartBySweep ==
    [][\A k \in MediaKey :
         /\ k \in Live /\ k \notin Live' /\ timing'[k] # None => Sweep
         /\ ~LeftBehind(k) /\ LeftBehind(k)' =>
               Sweep /\ k \in Live /\ ~IsOrphan(byKey[k])
         /\ LeftBehind(k) /\ ~LeftBehind(k)' =>
               \/ k \notin Live /\ k \in Live' /\ ~IsOrphan(byKey[k])'
               \/ k \in Live /\ k \notin Live' /\ ~Sweep
               \/ Restart]_meteredVars

\* metrics.go:83: "In-flight traces by phase."  Of the traces that a request
\* opened in this process, whose closing is counted, the gauge has all that
\* are in flight, that have an open grab, and that have an open download.
Requested == {k \in Live : ~IsOrphan(byKey[k]) /\ ~byKey[k].Resumed}

InFlightByPhase ==
    gauge = [request  |-> Cardinality(Requested),
             grab     |-> Cardinality({k \in Requested : byKey[k].Grab # None}),
             download |-> Cardinality({k \in Requested : byKey[k].Download # None})]

=============================================================================
