--------------------------- MODULE TelemetryProofs ---------------------------
(***************************************************************************)
(* Proofs about the metrics beside the engine: they change nothing that    *)
(* the engine does, the timings follow the traces of requests, and the     *)
(* gauge of requests covers the timings.                                   *)
(***************************************************************************)
EXTENDS EngineTelemetry, EngineProofs, FiniteSetTheorems

USE NoneAssumption, EventAssumption, TimeAssumption

\* Leaving the metrics out leaves a step of the engine.
LEMMA MeteredStepIsEngineStep ==
    ASSUME [MeteredNext]_meteredVars
    PROVE  [Next]_vars
<1>1. CASE MeteredDeliver
  <2>1. Deliver
    BY <1>1 DEF MeteredDeliver, Deliver
  <2>. QED  BY <2>1 DEF Next
<1>2. CASE MeteredReport \/ MeteredSweep \/ MeteredTick \/ MeteredRestart
  BY <1>2 DEF MeteredReport, MeteredSweep, MeteredTick, MeteredRestart, Next
<1>3. CASE UNCHANGED meteredVars
  BY <1>3 DEF meteredVars
<1>. QED  BY <1>1, <1>2, <1>3 DEF MeteredNext

\* The engine with its metrics implements the engine: every theorem about
\* Spec is one about MeteredSpec.
THEOREM MetricsChangeNothing == MeteredSpec => Spec
<1>1. TelemetryInit => Init
  BY DEF TelemetryInit
<1>2. [MeteredNext]_meteredVars => [Next]_vars
  BY MeteredStepIsEngineStep
<1>. QED  BY <1>1, <1>2, PTL DEF MeteredSpec, Spec

-----------------------------------------------------------------------------
(* The three things a handler may do to timings and the request gauge. *)

TelemetryTypeOK ==
    /\ timing \in [MediaKey -> Timing \cup {None}]
    /\ gauge \in Gauge

KeepsTimings ==
    /\ \A k \in MediaKey : timing'[k] = None <=> timing[k] = None
    /\ gauge'.request = gauge.request

TakesOn(k) ==
    /\ timing'[k] # None
    /\ \A j \in MediaKey \ {k} : timing'[j] = timing[j]
    /\ gauge'.request = gauge.request + 1

GivesUp(k) ==
    /\ timing[k] # None /\ timing'[k] = None
    /\ \A j \in MediaKey \ {k} : timing'[j] = timing[j]
    /\ gauge'.request = gauge.request - 1

\* A handler adjusts the gauge by integers.
LEMMA AdjustedGauge ==
    ASSUME TelemetryTypeOK, NEW r \in Int, NEW g \in Int, NEW d \in Int,
           AdjustInFlight(r, g, d)
    PROVE  gauge' \in Gauge /\ gauge'.request = gauge.request + r
BY DEF TelemetryTypeOK, Gauge, AdjustInFlight

LEMMA UnmeasuredEffect ==
    ASSUME TelemetryTypeOK, Unmeasured
    PROVE  TelemetryTypeOK' /\ KeepsTimings
BY DEF Unmeasured, telemetryVars, KeepsTimings, TelemetryTypeOK

LEMMA MeasureOpenedEffect ==
    ASSUME TelemetryTypeOK, NEW k, NEW j \in MediaKey, MeasureOpened(k, j)
    PROVE  TelemetryTypeOK' /\ IF k = None THEN TakesOn(j) ELSE KeepsTimings
<1>1. CASE k # None
  BY <1>1, UnmeasuredEffect DEF MeasureOpened
<1>2. CASE k = None
  <2>1. timing' = [timing EXCEPT ![j] = "opened"] /\ AdjustInFlight(1, 0, 0)
    BY <1>2 DEF MeasureOpened
  <2>2. gauge' \in Gauge /\ gauge'.request = gauge.request + 1
    BY <2>1, AdjustedGauge
  <2>. QED  BY <1>2, <2>1, <2>2, TimingAssumption DEF TakesOn, TelemetryTypeOK, Timing
<1>. QED  BY <1>1, <1>2

LEMMA MeasureClosedEffect ==
    ASSUME TelemetryTypeOK, NEW k \in MediaKey \cup {None}, MeasureClosed(k)
    PROVE  TelemetryTypeOK' /\ IF Timed(k) THEN GivesUp(k) ELSE KeepsTimings
<1>1. CASE ~Timed(k)
  BY <1>1, UnmeasuredEffect DEF MeasureClosed
<1>2. CASE Timed(k)
  <2>1. k \in MediaKey /\ timing[k] # None
    BY <1>2 DEF Timed
  <2>2. PICK g \in Int : AdjustInFlight(-1, g, 0)
    BY <1>2 DEF MeasureClosed
  <2>3. timing' = [timing EXCEPT ![k] = None]
    BY <1>2 DEF MeasureClosed
  <2>4. gauge' \in Gauge /\ gauge'.request = gauge.request + (-1)
    BY <2>2, AdjustedGauge
  <2>5. gauge'.request = gauge.request - 1
    BY <2>4 DEF TelemetryTypeOK, Gauge
  <2>. QED  BY <1>2, <2>1, <2>3, <2>4, <2>5 DEF GivesUp, TelemetryTypeOK
<1>. QED  BY <1>1, <1>2

LEMMA MeasureGrabEffect ==
    ASSUME TelemetryTypeOK, NEW k \in MediaKey, NEW d, MeasureGrab(k, d)
    PROVE  TelemetryTypeOK' /\ KeepsTimings
<1>1. CASE ~Timed(k)
  BY <1>1, UnmeasuredEffect DEF MeasureGrab
<1>2. CASE Timed(k)
  <2>1. timing[k] # None
    BY <1>2 DEF Timed
  <2>2. PICK n \in Int : AdjustInFlight(0, 1, n)
    BY <1>2 DEF MeasureGrab
  <2>3. timing' \in {timing, [timing EXCEPT ![k] = "started"]}
    BY <1>2 DEF MeasureGrab
  <2>4. gauge' \in Gauge /\ gauge'.request = gauge.request + 0
    BY <2>2, AdjustedGauge
  <2>. QED  BY <2>1, <2>3, <2>4, TimingAssumption
            DEF KeepsTimings, TelemetryTypeOK, Timing, Gauge
<1>. QED  BY <1>1, <1>2

LEMMA MeasureStartEffect ==
    ASSUME TelemetryTypeOK, NEW k \in MediaKey \cup {None}, MeasureStart(k)
    PROVE  TelemetryTypeOK' /\ KeepsTimings
<1>1. CASE Unmeasured
  BY <1>1, UnmeasuredEffect
<1>2. CASE ~Unmeasured
  <2>1. /\ k # None /\ timing[k] # None
        /\ timing' = [timing EXCEPT ![k] = "started"] /\ AdjustInFlight(0, 0, 1)
    BY <1>2 DEF MeasureStart, Timed
  <2>2. gauge' \in Gauge /\ gauge'.request = gauge.request + 0
    BY <2>1, AdjustedGauge
  <2>. QED  BY <2>1, <2>2, TimingAssumption
            DEF KeepsTimings, TelemetryTypeOK, Timing, Gauge
<1>. QED  BY <1>1, <1>2

LEMMA MeasureDoneEffect ==
    ASSUME TelemetryTypeOK, NEW k, MeasureDone(k)
    PROVE  TelemetryTypeOK' /\ KeepsTimings
<1>1. CASE Unmeasured
  BY <1>1, UnmeasuredEffect
<1>2. CASE ~Unmeasured
  <2>1. AdjustInFlight(0, 0, -1) /\ timing' = timing
    BY <1>2 DEF MeasureDone
  <2>2. gauge' \in Gauge /\ gauge'.request = gauge.request + 0
    BY <2>1, AdjustedGauge
  <2>. QED  BY <2>1, <2>2 DEF KeepsTimings, TelemetryTypeOK, Gauge
<1>. QED  BY <1>1, <1>2

-----------------------------------------------------------------------------
(* Timings follow the traces. *)

\* The same traces are in flight, for the same requests.
TracesStay ==
    \A k \in MediaKey :
        /\ byKey'[k] = None <=> byKey[k] = None
        /\ byKey[k] # None => /\ byKey'[k].Source = byKey[k].Source
                              /\ byKey'[k].Resumed = byKey[k].Resumed

\* What a handler does to a key's trace it does to its timing.
Followed(k) ==
    /\ byKey[k] # None /\ byKey'[k] = None =>
          timing'[k] = None /\ closed'[k].Outcome # "timeout"
    /\ LeftBehind(k)' => LeftBehind(k)
    /\ LeftBehind(k) /\ ~LeftBehind(k)' =>
          \/ byKey[k] = None /\ byKey'[k] # None /\ ~IsOrphan(byKey[k])'
          \/ byKey[k] # None /\ byKey'[k] = None
    /\ byKey'[k] # None =>
          \/ IsOrphan(byKey'[k])
          \/ timing'[k] # None
          \/ /\ byKey[k] # None
             /\ byKey'[k].Source = byKey[k].Source
             /\ byKey'[k].Resumed = byKey[k].Resumed
             /\ timing[k] = None

InStep ==
    /\ TelemetryTypeOK'
    /\ \A k \in MediaKey : Followed(k)
    /\ KeepsTimings \/ \E k \in MediaKey : TakesOn(k) \/ GivesUp(k)

LEMMA StayInStep ==
    ASSUME TracesStay, TelemetryTypeOK', KeepsTimings
    PROVE  InStep
BY DEF TracesStay, KeepsTimings, InStep, Followed, LeftBehind, IsOrphan, Live

LEMMA PutStays ==
    ASSUME TypeOK, NEW k \in Live, NEW s \in TraceState, Put(k, s),
           s.Source = byKey[k].Source, s.Resumed = byKey[k].Resumed
    PROVE  TracesStay
<1>1. k \in MediaKey /\ byKey[k] # None /\ s # None
  BY DEF Live
<1>2. byKey'[k] = s /\ \A j \in MediaKey \ {k} : byKey'[j] = byKey[j]
  BY <1>1, PutEffect
<1>. QED  BY <1>1, <1>2 DEF TracesStay

LEMMA TouchStays ==
    ASSUME TypeOK, NEW k \in Live, NEW s \in TraceState, NEW t \in Int, NEW S,
           Touch(k, s, t, S),
           s.Source = byKey[k].Source, s.Resumed = byKey[k].Resumed
    PROVE  TracesStay
<1> DEFINE u == [s EXCEPT !.UpdatedAt = t]
<1>1. u \in TraceState /\ u.Source = s.Source /\ u.Resumed = s.Resumed
  BY DEF TraceState
<1>2. Put(k, u)
  BY DEF Touch
<1> HIDE DEF u
<1>. QED  BY <1>1, <1>2, PutStays

\* An event that ends a trace takes the timing along, if there is one.
LEMMA CloseInStep ==
    ASSUME TypeOK, TelemetryTypeOK, NEW k \in Live, NEW outcome, NEW t,
           outcome # "timeout",
           CloseTraces({k}, outcome, t), MeasureClosed(k)
    PROVE  InStep
<1>1. k \in MediaKey /\ byKey[k] # None
  BY DEF Live
<1>2. /\ \A j \in MediaKey : byKey'[j] = IF j = k THEN None ELSE byKey[j]
      /\ closed'[k].Outcome = outcome
  BY <1>1 DEF CloseTraces, Delete, RememberClosed
<1>3. TelemetryTypeOK' /\ IF Timed(k) THEN GivesUp(k) ELSE KeepsTimings
  BY <1>1, MeasureClosedEffect
<1>4. CASE Timed(k)
  BY <1>1, <1>2, <1>3, <1>4 DEF InStep, Followed, GivesUp, LeftBehind, Live
<1>5. CASE ~Timed(k)
  <2>1. timing[k] = None
    BY <1>1, <1>5 DEF Timed
  <2>. QED  BY <1>1, <1>2, <1>3, <1>5, <2>1
            DEF InStep, Followed, KeepsTimings, LeftBehind, Live
<1>. QED  BY <1>4, <1>5

\* A grab makes an orphan, or leaves the trace to its request.
LEMMA GrabInStep ==
    ASSUME TypeOK, TelemetryTypeOK, NEW k \in MediaKey, NEW s \in TraceState,
           NEW root, NEW spans, NEW ev \in Event, NEW t \in Int, NEW new \in NewIds,
           GrabOnto(k, s, root, spans, ev, t, new),
           IF k \in Live THEN s = byKey[k] ELSE IsOrphan(s),
           KeepsTimings, TelemetryTypeOK'
    PROVE  InStep
<1>1. PICK u : /\ Put(k, u) /\ u \in TraceState
               /\ u.Source = s.Source /\ u.Resumed = s.Resumed
  <2> DEFINE replay == Replays(ev.DownloadID, s)
             u == [s EXCEPT
                !.Grab = new.grab,
                !.DownloadID = IF ev.DownloadID # None THEN ev.DownloadID ELSE @,
                !.Download = IF replay THEN new.download ELSE @,
                !.UpdatedAt = IF replay THEN pendingDL[ev.DownloadID] ELSE t]
  <2>1. new.grab \in SpanId /\ new.download \in SpanId
    BY NewIdsAreFresh
  <2>2. replay => pendingDL[ev.DownloadID] \in Int
    BY DEF Parked, Replays, TypeOK
  <2>3. u \in TraceState /\ u.Source = s.Source /\ u.Resumed = s.Resumed
    BY <2>1, <2>2 DEF TraceState
  <2>4. Put(k, u)
    BY DEF GrabOnto
  <2>. QED  BY <2>3, <2>4
<1>2. CASE k \in Live
  BY <1>1, <1>2, PutStays, StayInStep
<1>3. CASE k \notin Live
  <2>1. byKey'[k] = u /\ \A j \in MediaKey \ {k} : byKey'[j] = byKey[j]
    BY <1>1, PutEffect
  <2>2. IsOrphan(u)
    BY <1>1, <1>3 DEF IsOrphan
  <2>. QED  BY <1>3, <2>1, <2>2 DEF InStep, Followed, KeepsTimings, LeftBehind, Live
<1>. QED  BY <1>2, <1>3

\* Every handler, the dispatch included, keeps timings and traces in step.
LEMMA ProcessInStep ==
    ASSUME TypeOK, TelemetryTypeOK, NEW ev \in Event, NEW t \in Int,
           NEW new \in NewIds, Process(ev, t, new), ~DropDuplicate(ev, t), Measure(ev)
    PROVE  InStep
<1>0. ASSUME UNCHANGED byKey PROVE TracesStay
  BY <1>0 DEF TracesStay
<1> DEFINE k == ResolveTrace(ev.Key)
           j == GetByDownloadID(ev.DownloadID)
<1>1. CASE OnRequestOpened(ev, t, new)
  <2>1. ev.Key \in MediaKey /\ MeasureOpened(k, ev.Key)
    BY <1>1 DEF OnRequestOpened, Accept, Measure
  <2>2. TelemetryTypeOK' /\ IF k = None THEN TakesOn(ev.Key) ELSE KeepsTimings
    BY <2>1, MeasureOpenedEffect
  <2>3. CASE k # None
    <3>1. UNCHANGED byKey
      BY <1>1, <2>3 DEF OnRequestOpened, Return
    <3>. QED  BY <1>0, <2>2, <2>3, <3>1, StayInStep
  <2>4. CASE k = None
    <3> DEFINE s == NewTrace(ev, t, new)
    <3>1. /\ \A i \in MediaKey \ {ev.Key} : byKey'[i] = byKey[i]
          /\ byKey'[ev.Key] = s
      BY <1>1, <2>1, <2>4 DEF OnRequestOpened, Put, TypeOK, StoreTypeOK
    <3>2. byKey[ev.Key] = None
      BY <2>1, <2>4, UnresolvedIsNotLive DEF Live
    <3>3. s \in TraceState
      BY <1>1, <2>1, <2>4, OpenRootType DEF OnRequestOpened, Return
    <3>4. ~IsOrphan(s)
      BY <1>1, SourceAssumption DEF OnRequestOpened, Accept, NewTrace, IsOrphan
    <3>. HIDE DEF s
    <3>. QED  BY <2>1, <2>2, <2>4, <3>1, <3>2, <3>3, <3>4
              DEF InStep, Followed, TakesOn, LeftBehind, Live
  <2>. QED  BY <2>3, <2>4
<1>2. CASE OnRequestApproved(ev, t) \/ OnManualNeeded(ev, t)
  <2>1. ev.Key \in MediaKey /\ TelemetryTypeOK' /\ KeepsTimings
    BY <1>2, UnmeasuredEffect DEF OnRequestApproved, OnManualNeeded, Accept, Measure
  <2>2. CASE UNCHANGED byKey
    BY <1>0, <2>1, <2>2, StayInStep
  <2>3. CASE k # None /\ Touch(k, byKey[k], t, {})
    BY <2>1, <2>3, ResolvedIsLive, LiveTraceType, TouchStays, StayInStep
  <2>. QED  BY <1>2, <2>2, <2>3 DEF OnRequestApproved, OnManualNeeded, Return
<1>3. CASE OnRequestClosed(ev, t)
  <2>1. ev.Key \in MediaKey /\ MeasureClosed(k)
    BY <1>3 DEF OnRequestClosed, Accept, Measure
  <2>2. CASE k = None
    <3>1. UNCHANGED byKey
      BY <1>3, <2>2 DEF OnRequestClosed, Return
    <3>2. TelemetryTypeOK' /\ KeepsTimings
      BY <2>1, <2>2, MeasureClosedEffect DEF Timed
    <3>. QED  BY <1>0, <3>1, <3>2, StayInStep
  <2>3. CASE k # None
    <3>1. ev.Outcome # "timeout"
      BY <1>3, SourceAssumption DEF OnRequestClosed, Accept
    <3>. QED  BY <1>3, <2>1, <2>3, <3>1, ResolvedIsLive, CloseInStep DEF OnRequestClosed
  <2>. QED  BY <2>2, <2>3
<1>4. CASE OnGrabbed(ev, t, new)
  <2> DEFINE i == IF k = None THEN ev.Key ELSE k
  <2>1. /\ ev.Key \in MediaKey /\ MeasureGrab(i, ev.DownloadID)
        /\ ev.Source \in {"sonarr", "radarr"}
    BY <1>4, SourceAssumption DEF OnGrabbed, Accept, Measure
  <2>2. k # None => k \in Live /\ k \in MediaKey /\ byKey[k] \in TraceState
    BY <2>1, ResolvedIsLive, LiveTraceType
  <2>3. TelemetryTypeOK' /\ KeepsTimings
    BY <2>1, <2>2, MeasureGrabEffect
  <2>4. CASE k # None
    BY <1>4, <2>2, <2>3, <2>4, GrabInStep DEF OnGrabbed
  <2>5. CASE k = None
    <3>1. /\ OpenRoot(ev, t, new)
          /\ GrabOnto(ev.Key, NewTrace(ev, t, new), new.root, SpansWithRoot(new),
                      ev, t, new)
      BY <1>4, <2>5 DEF OnGrabbed
    <3>2. NewTrace(ev, t, new) \in TraceState
      BY <2>1, <3>1, OpenRootType
    <3>3. ev.Key \notin Live
      BY <2>1, <2>5, UnresolvedIsNotLive
    <3>4. IsOrphan(NewTrace(ev, t, new))
      BY <2>1 DEF NewTrace, IsOrphan
    <3>. QED  BY <2>1, <2>3, <3>1, <3>2, <3>3, <3>4, GrabInStep
  <2>. QED  BY <2>4, <2>5
<1>5. CASE OnDownloadStart(ev, t, new)
  <2>1. MeasureStart(j)
    BY <1>5 DEF OnDownloadStart, Accept, Measure
  <2>2. j # None => j \in Live /\ j \in MediaKey /\ byKey[j] \in TraceState
    BY DownloadIsLive, LiveTraceType
  <2>3. TelemetryTypeOK' /\ KeepsTimings
    BY <2>1, <2>2, MeasureStartEffect
  <2>4. CASE UNCHANGED byKey
    BY <1>0, <2>3, <2>4, StayInStep
  <2>5. CASE j # None /\ StartDownload(j, t, new)
    <3> DEFINE s == [byKey[j] EXCEPT !.Download = new.download, !.UpdatedAt = t]
    <3>1. new.download \in SpanId
      BY NewIdsAreFresh
    <3>2. /\ s \in TraceState /\ s.Source = byKey[j].Source
          /\ s.Resumed = byKey[j].Resumed
      BY <2>2, <2>5, <3>1 DEF TraceState
    <3>3. Put(j, s)
      BY <2>5 DEF StartDownload
    <3> HIDE DEF s
    <3>. QED  BY <2>2, <2>3, <2>5, <3>2, <3>3, PutStays, StayInStep
  <2>. QED  BY <1>5, <2>4, <2>5 DEF OnDownloadStart, ParkDownload, Return
<1>6. CASE OnDownloadDone(ev, t)
  <2> DEFINE s == [byKey[j] EXCEPT !.Download = None]
  <2>1. TelemetryTypeOK' /\ KeepsTimings
    BY <1>6, MeasureDoneEffect DEF OnDownloadDone, Accept, Measure
  <2>2. CASE UNCHANGED byKey
    BY <1>0, <2>1, <2>2, StayInStep
  <2>3. CASE j # None /\ Touch(j, s, t, {byKey[j].Download})
    <3>1. j \in Live /\ byKey[j] \in TraceState
      BY <2>3, DownloadIsLive, LiveTraceType
    <3>2. /\ s \in TraceState /\ s.Source = byKey[j].Source
          /\ s.Resumed = byKey[j].Resumed
      BY <3>1 DEF TraceState
    <3> HIDE DEF s
    <3>. QED  BY <2>1, <2>3, <3>1, <3>2, TouchStays, StayInStep
  <2>. QED  BY <1>6, <2>2, <2>3 DEF OnDownloadDone, Return
<1>7. CASE OnImported(ev, t)
  <2> DEFINE s == [byKey[k] EXCEPT !.Grab = None, !.Download = None]
  <2>1. ev.Key \in MediaKey /\ MeasureImport(k)
    BY <1>7 DEF OnImported, Accept, Measure
  <2>2. CASE k = None
    <3>1. UNCHANGED byKey /\ Unmeasured
      BY <1>7, <2>1, <2>2 DEF OnImported, Return, MeasureImport
    <3>. QED  BY <1>0, <3>1, UnmeasuredEffect, StayInStep
  <2>3. CASE k # None /\ ~IsOrphan(byKey[k])
    <3>1. Touch(k, s, t, Handles(byKey[k])) /\ Unmeasured
      BY <1>7, <2>1, <2>3 DEF OnImported, MeasureImport
    <3>2. k \in Live /\ byKey[k] \in TraceState
      BY <2>1, <2>3, ResolvedIsLive, LiveTraceType
    <3>3. /\ s \in TraceState /\ s.Source = byKey[k].Source
          /\ s.Resumed = byKey[k].Resumed
      BY <3>2 DEF TraceState
    <3> HIDE DEF s
    <3>. QED  BY <3>1, <3>2, <3>3, TouchStays, UnmeasuredEffect, StayInStep
  <2>4. CASE k # None /\ IsOrphan(byKey[k])
    <3>1. CloseTraces({k}, "available", t) /\ MeasureClosed(k)
      BY <1>7, <2>1, <2>4 DEF OnImported, MeasureImport
    <3>. QED  BY <2>1, <2>4, <3>1, ResolvedIsLive, CloseInStep
  <2>. QED  BY <2>2, <2>3, <2>4
<1>. QED  BY <1>1, <1>2, <1>3, <1>4, <1>5, <1>6, <1>7 DEF Process

-----------------------------------------------------------------------------
(* The invariant. *)

TelemetryInv ==
    /\ TelemetryTypeOK
    /\ IsFiniteSet(TimedKeys)
    /\ RequestGaugeCoversTimed
    /\ RequestsAreTimed

\* A step in which handler and metrics are in step.
LEMMA InStepInv ==
    ASSUME TypeOK, TelemetryInv, InStep
    PROVE  TelemetryInv'
<1>1. TelemetryTypeOK' /\ gauge.request \in Int /\ gauge'.request \in Int
  BY DEF InStep, TelemetryInv, TelemetryTypeOK, Gauge
<1>2. RequestsAreTimed'
  <2>1. SUFFICES ASSUME NEW k \in MediaKey, byKey'[k] # None, ~IsOrphan(byKey'[k]),
                        ~byKey'[k].Resumed
                 PROVE  timing'[k] # None
    BY DEF RequestsAreTimed, Live
  <2>2. CASE byKey[k] = None
    BY <2>1, <2>2 DEF InStep, Followed
  <2>3. CASE byKey[k] # None
    <3>1. IsOrphan(byKey[k]) = (byKey[k].Source \in {"sonarr", "radarr"})
          /\ IsOrphan(byKey'[k]) = (byKey'[k].Source \in {"sonarr", "radarr"})
      BY DEF IsOrphan
    <3>. QED  BY <2>1, <2>3, <3>1
              DEF InStep, Followed, TelemetryInv, RequestsAreTimed, Live
  <2>. QED  BY <2>2, <2>3
<1>3. CASE KeepsTimings
  <2>1. TimedKeys' = TimedKeys /\ gauge'.request = gauge.request
    BY <1>3 DEF KeepsTimings, TimedKeys
  <2>. QED  BY <1>1, <1>2, <2>1 DEF TelemetryInv, RequestGaugeCoversTimed
<1>4. ASSUME NEW k \in MediaKey, TakesOn(k) PROVE TelemetryInv'
  <2>1. TimedKeys' = TimedKeys \cup {k} /\ gauge'.request = gauge.request + 1
    BY <1>4 DEF TakesOn, TimedKeys
  <2>2. /\ IsFiniteSet(TimedKeys')
        /\ Cardinality(TimedKeys') = Cardinality(TimedKeys)
              \/ Cardinality(TimedKeys') = Cardinality(TimedKeys) + 1
        /\ Cardinality(TimedKeys) \in Nat
    BY <2>1, FS_AddElement, FS_CardinalityType DEF TelemetryInv
  <2>3. gauge.request >= Cardinality(TimedKeys)
    BY DEF TelemetryInv, RequestGaugeCoversTimed
  <2>4. gauge'.request >= Cardinality(TimedKeys')
    BY <1>1, <2>1, <2>2, <2>3
  <2>. QED  BY <1>1, <1>2, <2>2, <2>4 DEF TelemetryInv, RequestGaugeCoversTimed
<1>5. ASSUME NEW k \in MediaKey, GivesUp(k) PROVE TelemetryInv'
  <2>1. /\ k \in TimedKeys /\ TimedKeys' = TimedKeys \ {k}
        /\ gauge'.request = gauge.request - 1
    BY <1>5 DEF GivesUp, TimedKeys
  <2>2. /\ IsFiniteSet(TimedKeys')
        /\ Cardinality(TimedKeys') = Cardinality(TimedKeys) - 1
        /\ Cardinality(TimedKeys) \in Nat
    BY <2>1, FS_RemoveElement, FS_CardinalityType DEF TelemetryInv
  <2>3. gauge.request >= Cardinality(TimedKeys)
    BY DEF TelemetryInv, RequestGaugeCoversTimed
  <2>4. gauge'.request >= Cardinality(TimedKeys')
    BY <1>1, <2>1, <2>2, <2>3
  <2>. QED  BY <1>1, <1>2, <2>2, <2>4 DEF TelemetryInv, RequestGaugeCoversTimed
<1>. QED  BY <1>3, <1>4, <1>5 DEF InStep

\* The steps that are no handlers of events.
LEMMA OtherStepInv ==
    ASSUME TypeOK, TelemetryInv, MeteredReport \/ MeteredSweep \/ MeteredTick
    PROVE  TelemetryInv' /\ Unmeasured
<1>1. Unmeasured
  BY DEF MeteredReport, MeteredSweep, MeteredTick
<1>2. \A k \in MediaKey : byKey'[k] # None =>
         /\ byKey[k] # None
         /\ byKey'[k].Source = byKey[k].Source /\ byKey'[k].Resumed = byKey[k].Resumed
  <2>1. CASE MeteredReport
    <3>1. PICK d \in DownloadID, t \in (clock - Lag) .. clock : NoteIssue(d, t)
      BY <2>1 DEF MeteredReport, NoteQueueIssue
    <3>2. GetByDownloadID(d) \in Live /\ t \in Int
      BY <3>1, DownloadIsLive DEF NoteIssue, TypeOK
    <3>3. TracesStay
      BY <3>1, <3>2, LiveTraceType, TouchStays DEF NoteIssue
    <3>. QED  BY <3>3 DEF TracesStay
  <2>2. CASE MeteredSweep
    BY <2>2 DEF MeteredSweep, Sweep, CloseTraces, Delete
  <2>3. CASE MeteredTick
    BY <2>3 DEF MeteredTick, Tick
  <2>. QED  BY <2>1, <2>2, <2>3
<1>3. TimedKeys' = TimedKeys /\ UNCHANGED <<timing, gauge>>
  BY <1>1 DEF Unmeasured, telemetryVars, TimedKeys
<1>4. RequestsAreTimed'
  BY <1>2, <1>3 DEF TelemetryInv, RequestsAreTimed, IsOrphan, Live
<1>. QED  BY <1>1, <1>3, <1>4 DEF TelemetryInv, TelemetryTypeOK, RequestGaugeCoversTimed

\* A new process has no timings, and requests are all resumed.
LEMMA MeteredRestartInv ==
    ASSUME TypeOK, MeteredRestart
    PROVE  TelemetryInv'
<1>1. timing' = NoTimings /\ gauge' = NoneInFlight
  BY DEF MeteredRestart
<1>2. TimedKeys' = {}
  BY <1>1 DEF TimedKeys, NoTimings
<1>3. TelemetryTypeOK'
  BY <1>1 DEF TelemetryTypeOK, NoTimings, NoneInFlight, Gauge
<1>4. \A k \in Live' : byKey'[k].Resumed
  <2>1. CASE Backend = "memory"
    BY <2>1 DEF MeteredRestart, Restart, Reload, ReloadMemory, Live
  <2>2. CASE Backend # "memory"
    <3>1. \A k \in Live : ResumedTrace(byKey[k]).Resumed
      BY LiveTraceType, ResumedTraceType
    <3>. QED  BY <2>2, <3>1 DEF MeteredRestart, Restart, Reload, ReloadBolt, Live
  <2>. QED  BY <2>1, <2>2
<1>5. RequestGaugeCoversTimed' /\ IsFiniteSet(TimedKeys')
  BY <1>1, <1>2, FS_EmptySet DEF RequestGaugeCoversTimed, NoneInFlight
<1>. QED  BY <1>3, <1>4, <1>5 DEF TelemetryInv, RequestsAreTimed

\* An event is dropped or handled, and measured if handled.
LEMMA DeliverInStep ==
    ASSUME TypeOK, TelemetryTypeOK, MeteredDeliver
    PROVE  InStep
<1>1. PICK new \in NewIds, ev \in Event : \E t \in Stamps(ev) :
          /\ Process(ev, t, new)
          /\ IF AlreadySeen(DedupKeyOf(ev), t) THEN Unmeasured ELSE Measure(ev)
  BY DEF MeteredDeliver
<1>2. PICK t \in Stamps(ev) :
          /\ Process(ev, t, new)
          /\ IF AlreadySeen(DedupKeyOf(ev), t) THEN Unmeasured ELSE Measure(ev)
  BY <1>1
<1>3. t \in Int
  BY DEF Stamps, TypeOK
<1>4. CASE AlreadySeen(DedupKeyOf(ev), t)
  <2>1. DropDuplicate(ev, t)
    BY <1>2, <1>4 DEF Process, OnRequestOpened, OnRequestApproved, OnRequestClosed,
       OnGrabbed, OnDownloadStart, OnDownloadDone, OnImported, OnManualNeeded,
       Accept, RecordEvent
  <2>2. TracesStay
    BY <2>1 DEF DropDuplicate, Return, TracesStay
  <2>. QED  BY <1>2, <1>4, <2>2, UnmeasuredEffect, StayInStep
<1>5. CASE ~AlreadySeen(DedupKeyOf(ev), t)
  <2>1. ~DropDuplicate(ev, t)
    BY <1>5 DEF DropDuplicate, RejectEvent
  <2>. QED  BY <1>2, <1>3, <1>5, <2>1, ProcessInStep
<1>. QED  BY <1>4, <1>5

LEMMA TelemetryInitInv == TelemetryInit => TelemetryInv
<1>. SUFFICES ASSUME TelemetryInit PROVE TelemetryInv
  OBVIOUS
<1>1. TimedKeys = {} /\ Live = {}
  BY DEF TelemetryInit, NoTimings, TimedKeys, Init, StoreInit, Live
<1>2. TelemetryTypeOK
  BY DEF TelemetryInit, TelemetryTypeOK, NoTimings, NoneInFlight, Gauge
<1>. QED  BY <1>1, <1>2, FS_EmptySet
          DEF TelemetryInv, TelemetryInit, NoneInFlight, RequestGaugeCoversTimed,
              RequestsAreTimed

LEMMA TelemetryNextInv ==
    TypeOK /\ TelemetryInv /\ [MeteredNext]_meteredVars => TelemetryInv'
<1>. SUFFICES ASSUME TypeOK, TelemetryInv, [MeteredNext]_meteredVars PROVE TelemetryInv'
  OBVIOUS
<1>1. CASE MeteredDeliver
  BY <1>1, DeliverInStep, InStepInv DEF TelemetryInv
<1>2. CASE MeteredReport \/ MeteredSweep \/ MeteredTick
  BY <1>2, OtherStepInv
<1>3. CASE MeteredRestart
  BY <1>3, MeteredRestartInv
<1>4. CASE UNCHANGED meteredVars
  BY <1>4 DEF meteredVars, vars, TelemetryInv, TelemetryTypeOK, TimedKeys,
     RequestGaugeCoversTimed, RequestsAreTimed, Live
<1>. QED  BY <1>1, <1>2, <1>3, <1>4 DEF MeteredNext

\* The timings and the gauge keep their types, beside an engine that keeps
\* its own.
THEOREM TelemetryInvariance == MeteredSpec => []TelemetryInv
<1>1. MeteredSpec => []TypeOK
  BY MetricsChangeNothing, TypeCorrect, PTL
<1>. QED  BY <1>1, TelemetryInitInv, TelemetryNextInv, PTL DEF MeteredSpec

\* onRequestClosed and onImported take from the gauge of requests only what
\* onRequestOpened added to it.
THEOREM GaugeCovers == MeteredSpec => []RequestGaugeCoversTimed
<1>1. TelemetryInv => RequestGaugeCoversTimed
  BY DEF TelemetryInv
<1>. QED  BY <1>1, TelemetryInvariance, PTL

\* Engine.timing has an entry for every trace that onRequestOpened opened in
\* this process.
THEOREM RequestsTimed == MeteredSpec => []RequestsAreTimed
<1>1. TelemetryInv => RequestsAreTimed
  BY DEF TelemetryInv
<1>. QED  BY <1>1, TelemetryInvariance, PTL

\* Sweep leaves every timing where it is, and as it was every trace that stays.
LEMMA SweptTimingsStay ==
    ASSUME TypeOK, MeteredSweep, NEW k \in MediaKey
    PROVE  /\ timing'[k] = timing[k]
           /\ byKey'[k] \in {byKey[k], None}
BY DEF MeteredSweep, Sweep, CloseTraces, Delete, Unmeasured, telemetryVars

\* The janitor closes traces as timed out, which no event does.
LEMMA SweptAsTimeout ==
    ASSUME Sweep, NEW k \in MediaKey, byKey[k] # None, byKey'[k] = None
    PROVE  closed'[k].Outcome = "timeout"
BY DEF Sweep, CloseTraces, Delete, RememberClosed

\* Sweep alone lets an entry of Engine.timing part from its trace, and only a
\* new request, the event that closes an orphan, or a restart makes it right.
THEOREM TimingsPart == MeteredSpec => TimingsPartBySweep
<1> DEFINE Parted(k) ==
      /\ k \in Live /\ k \notin Live' /\ timing'[k] # None => Sweep
      /\ ~LeftBehind(k) /\ LeftBehind(k)' =>
            Sweep /\ k \in Live /\ ~IsOrphan(byKey[k])
      /\ LeftBehind(k) /\ ~LeftBehind(k)' =>
            \/ k \notin Live /\ k \in Live' /\ ~IsOrphan(byKey[k])'
            \/ k \in Live /\ k \notin Live' /\ ~Sweep
            \/ Restart
<1>1. ASSUME TypeOK, TelemetryInv, [MeteredNext]_meteredVars, NEW k \in MediaKey
      PROVE  Parted(k)
  <2>0. ASSUME timing'[k] = timing[k], byKey'[k] = None <=> byKey[k] = None,
               byKey[k] # None => byKey'[k].Source = byKey[k].Source
        PROVE  Parted(k)
    BY <2>0 DEF LeftBehind, IsOrphan, Live
  <2>1. CASE MeteredDeliver
    <3>1. Followed(k)
      BY <1>1, <2>1, DeliverInStep DEF TelemetryInv, InStep
    <3>2. k \in Live /\ k \notin Live' => ~Sweep
      BY <3>1, SweptAsTimeout DEF Followed, Live
    <3>. QED  BY <3>1, <3>2 DEF Followed, Live
  <2>2. CASE MeteredReport
    <3>1. PICK d \in DownloadID, t \in (clock - Lag) .. clock : NoteIssue(d, t)
      BY <2>2 DEF MeteredReport, NoteQueueIssue
    <3>2. GetByDownloadID(d) \in Live /\ t \in Int
      BY <1>1, <3>1, DownloadIsLive DEF NoteIssue, TypeOK
    <3>3. TracesStay
      BY <1>1, <3>1, <3>2, LiveTraceType, TouchStays DEF NoteIssue
    <3>. QED  BY <2>0, <2>2, <3>3 DEF MeteredReport, TracesStay, Unmeasured, telemetryVars
  <2>3. CASE MeteredSweep
    BY <1>1, <2>3, SweptTimingsStay DEF MeteredSweep, LeftBehind, Live
  <2>4. CASE MeteredTick
    BY <2>0, <2>4 DEF MeteredTick, Tick, Unmeasured, telemetryVars
  <2>5. CASE MeteredRestart
    BY <2>5 DEF MeteredRestart, NoTimings, LeftBehind
  <2>6. CASE UNCHANGED meteredVars
    BY <2>0, <2>6 DEF meteredVars, vars
  <2>. QED  BY <1>1, <2>1, <2>2, <2>3, <2>4, <2>5, <2>6 DEF MeteredNext
<1>2. TypeOK /\ TelemetryInv /\ [MeteredNext]_meteredVars
        => [\A k \in MediaKey : Parted(k)]_meteredVars
  BY <1>1
<1>3. MeteredSpec => []TypeOK
  BY MetricsChangeNothing, TypeCorrect, PTL
<1>. QED  BY <1>2, <1>3, TelemetryInvariance, PTL
          DEF MeteredSpec, TimingsPartBySweep

=============================================================================
