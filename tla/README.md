# A verification project for tracearr

tracearr listens to the webhooks of Overseerr/Jellyseerr, Sonarr and Radarr and
to the post-processing scripts of NZBGet and SABnzbd, and turns what they say
about one film or series into one OpenTelemetry trace: request, grab, download,
import. These modules model the part of the program that decides which event
belongs to which trace, what a trace looks like when it ends, and what survives
a restart. Paths are relative to the repository (`src/` is its root).

| file | what it is |
|---|---|
| `Events.tla` | event model and parsers (`internal/correlate/event.go`, `internal/source`) |
| `Store.tla` | the in-memory and the Bolt store (`store.go`, `store_bolt.go`) |
| `Engine.tla` | the correlation engine, its callers, clock and restarts (`engine.go`, `cmd/tracearr/main.go`) |
| `Lifecycle.tla` | abstract specification: what a reader of traces is promised |
| `EngineProperties.tla` | what should hold of the engine, and its refinement of `Lifecycle` |
| `DurableEngine.tla` | the engine on the Bolt store, one step for every transaction, and a process that dies between any two |
| `DurableLifecycle.tla` | abstract specification: what the file promises when the process may die |
| `EngineTelemetry.tla` | the metrics the engine derives: timings and the gauges of traces in flight |
| `QueuePoller.tla` | the queue poller beside the engine (`internal/poller/queue.go`) |
| `ProwlarrPoller.tla` | the Prowlarr poller (`internal/poller/prowlarr.go`) |
| `MCEngine.tla`, `MCDurable.tla`, `MCTelemetry.tla`, `MCQueue.tla`, `MCProwlarr.tla`, `*.cfg` | small instances for TLC |
| `EngineProofs.tla` | TLAPS: the inductive invariant and the safety theorems that follow from it |
| `LifecycleProofs.tla` | TLAPS: records grow, the engine implements `Lifecycle`, traces export their roots, events and parked downloads are remembered |
| `IndexProofs.tla` | TLAPS: a download leads to its own media only, the latest download of a trace to that trace |
| `DurableProofs.tla` | TLAPS: memory and file agree, crashes keep the engine safe, stops lose nothing, the file implements `DurableLifecycle` |
| `DurableIndexProofs.tla` | TLAPS: the same of downloads when the process dies inside a handler |
| `TelemetryProofs.tla` | TLAPS: the metrics change nothing, the gauge of requests covers the timings, how timings and traces part and meet again |
| `QueueProofs.tla` | TLAPS: engine and poller together are still the engine; no report is repeated |
| `ProwlarrProofs.tla` | TLAPS: no search is emitted twice, and why one may be lost |
| `PROJECT.json` | runs, mutants, the map from definitions to source lines, hazards, findings, theorems |

Run them in this directory: `tlc -config Core.cfg MCTelemetry`, `tlapm EngineProofs.tla`. `PROJECT.json` has
the module of each run.

## Inventory

| component | state | operations | interacts with |
|---|---|---|---|
| Engine (`internal/correlate/engine.go`) | `ctxByKey` (media key to root context), `pendingDL` (parked download starts), `timing`, all under one mutex | `Process` and its eight handlers, `NoteQueueIssue`, `EmitProwlarrSearch`, `Sweep`, `Restore`, `SetMetrics` | calls store, span builder, metrics |
| Memory store (`store.go`) | `byKey`, `byDLID`, `dedup`, `closed` | `SeenEvent`, `Get`, `GetByDownloadID`, `Put`, `Delete`, `Stale`, `RememberClosed`, `RecallClosed`, `LoadAll` | called by the engine only |
| Bolt store (`store_bolt.go`) | `byKey`, `byDLID`, `closed` in memory, and the same with `dedup` as buckets of a file; every call that writes is a transaction of its own | the same | the same; the file survives the process |
| Event model, parsers (`event.go`, `internal/source`) | none | payload to one event, or to one per episode | called by the receiver |
| Receiver (`internal/receiver`) | none | authenticate, read, parse, call `Process` for each event, reply | HTTP, one goroutine per request |
| Span builder (`internal/spans`) | `openSpans` (span id to span) | `OpenRoot`, `OpenChild`, `CloseSpan`, `SyntheticSpan`, `AddSpanEvent` | OpenTelemetry SDK |
| Metrics (`internal/metrics`, and calls in `engine.go`) | `timing` (media key to phase boundaries), the gauge `tracearr_in_flight` by phase, histograms, counters | `AdjustInFlight`, `Observe...`, `Count...` | called by the handlers of the engine |
| Queue poller (`internal/poller/queue.go`) | `seen` (download id to status last reported) | `tick` | HTTP to Sonarr/Radarr, `NoteQueueIssue` |
| Prowlarr poller (`internal/poller/prowlarr.go`) | `cursor` | `tick` | HTTP to Prowlarr, `EmitProwlarrSearch` |
| Process (`cmd/tracearr/main.go`) | goroutines: server, janitor, three pollers | start, `Restore`, ticks, graceful stop | everything |
| Configuration, log, exporter | none of interest | set-up | |
| Scripts (`scripts/`) | none | post to the receiver | NZBGet, SABnzbd |

Behaviours that are hard, with the properties that make each part correct:

* **Engine.** Applications deliver independently, so events of one trace come in
  any order and more than once; a download may start before the grab that names
  it; a second grab supersedes the first; an import ends an orphan trace but not
  one that a request will end; the janitor may close a trace between any two
  events; an event is stamped when parsed and handled when the mutex is free, so
  times go backwards. *Correct* when the store's traces and the engine's contexts
  stay in step, every span a trace holds is open and no other span is, a parked
  start is replayed or leaves for a known reason, and every trace ends.
* **Stores.** Three tables that refer to each other by key, entries that outlive
  what they stand for, expiry measured with the callers' clocks, recall by
  episode or by series. *Correct* when the latest download of a trace leads to
  it and no download to other media, an event is remembered for its time to live, attempts are numbered upwards, and no record is replaced by an older one.
* **Restart.** The Bolt store brings traces back whose spans died with the
  process. *Correct* when no handle or context of a dead span is used, identity
  and number of a trace survive, and a closed trace still has its root.
* **Crash.** A handler makes up to four transactions, so a process that dies leaves
  half of a handler in the file: an event taken in and not handled, an orphan
  without its grab, an import put but not closed, a trace deleted but not
  remembered. *Correct* when the next process can go on from any of them, memory and
  file agree again, nothing is both in flight and remembered, and the trace still ends.
* **Metrics.** Timings and gauges are changed beside the traces, from the same events,
  and nothing ever compares them. *Correct* when a request is timed for as long as
  its trace is in flight, nothing is taken from a gauge that was not added, and the gauges
  say how many traces are in each phase.
* **Pollers.** A table or cursor is moved before it is known that the report
  arrived anywhere, over pages that are cut off. *Correct* when each stall and
  each search is reported once and none is lost.
* **Shutdown.** The server's requests and the janitor are waited for before the store is
  closed, the pollers are not. *Correct* when a stop on a signal loses no trace and no
  record.

`PROJECT.json` lists every such hazard at its line.

## The model and the code

`Events` defines media keys, phases and one constructor per parser. A payload is
the fields the engine tells apart. `SonarrEvents` gives one event for each
episode of a delivery; an import or manual interaction carries its download id in
the event id only, because the parsers leave `Release` empty there. Event ids
are tuples of the parts that the source joins into a string.

`Store` has the four tables as variables. Its operators are what a call returns
(`GetByDownloadID`, `Stale`, `RecallClosed`), or the conjunct that says what it
changes (`Put`, `Delete`, `RememberClosed`, `RecordEvent`). `Backend` selects the
implementation where they differ: collection of expired entries, the boundary of
the deduplication window, `Reload` at a restart.

`Engine` has one action for each handler. Each runs under `Engine.mu` from its
first store call to its last, so it is one step:

| action | code |
|---|---|
| `DropDuplicate` | `Process`, when `SeenEvent` returns true |
| `OnRequestOpened`, `OnRequestApproved`, `OnRequestClosed` | `onRequestOpened`, `onRequestApproved`, `onRequestClosed` |
| `OnGrabbed` | `onGrabbed`, with `openOrphanRoot` and the replay of a parked download |
| `OnDownloadStart`, `OnDownloadDone` | `onDownloadStart` / `handleDownloadStart`, `onDownloadDone` |
| `OnImported`, `OnManualNeeded` | `onImported`, `onManualNeeded` |
| `NoteQueueIssue`, `Sweep` | the calls of the queue poller and of the janitor |
| `Restart` == `Reload` and `Resume` | the end of the process between two handlers; what the store has again, then `Restore` |
| `Tick` | the clock |

`ctxByKey` and `pendingDL` are the engine's own tables. `open` is what the span
builder and the SDK hold: the spans that record and have not ended, with their
parent. `rooted` remembers which closed traces had their own root span exported.
A trace id and the id of its root span are one identifier. The synthetic spans
(search, import, the root of a resumed trace) start and end in one call; they
appear only in `rooted`, by their absence.

`Deliver` picks any event of `Event`, at any time its source may stamp it with
(`Stamps`), again and again. That is every order, every redelivery and every
delay of the applications, and every order in which goroutines get the mutex.

Titles, requester, quality, file sizes, logging, span attributes and span events
are left out; no property is about them.

`DurableEngine` EXTENDS the engine, on the Bolt store, with its file:

| state, action | code |
|---|---|
| `disk` | the buckets `traces`, `dl_index`, `closed` of the file (`dedup` has no copy in memory and is the bucket itself) |
| `writes` | the transactions that the running handler has still to make |
| `caller`, `sweeping` | the goroutine that has `Engine.mu`; the stale traces its `Sweep` has still to close |
| `Receive`, `ReportStall` | `Process` and `NoteQueueIssue`: the handler's action of `Engine`, and `writes` gets its transactions (`EventTxs`) |
| `BeginSweep`, `SweepOne` | `Sweep` and one round of its loop |
| `Commit` | one `db.Update` |
| `Crash`, `Stop` | the process dies; a signal, and the wait for server and janitor (`Drained`) |
| `Reopen` | `load`, `LoadAll` and `Restore`, which puts each trace back in a transaction of its own, in the order of a Go map (`Orders`) |

A handler is one step in memory, followed by one step for each of its
transactions, in the order of its calls. Memory may run ahead of the file because only
the file outlives a crash; the mutex (`Idle`) keeps the next handler out until the last
transaction is done. `SeenEvent` is the first call of `Process`, so its
transaction is a part of the handler's own step. A crash is possible before each
transaction, also before those that `Restore` makes. `IndexAfter` is what several
puts leave in the index: two traces of a season pack claim one entry, and the later put
gets it.

`EngineTelemetry` EXTENDS the engine with `timing` and `gauge`. Each handler has an operator
for its metrics (`MeasureOpened`, `MeasureClosed`, `MeasureGrab`, `MeasureStart`, `MeasureDone`,
`MeasureImport`); the metered step is the handler and its operator. Of a timing it
matters that it exists and whether it has noted the start of a download; the gauge has
its three phases. Histograms and counters only take what a timing holds at some
instant; they are left out.

`QueuePoller` EXTENDS `Engine` with the application's queue and the poller's `seen` table.
A tick is several steps: `Fetch` takes a response, a snapshot of the queue; each item is
`Progress`, `Suppress` or `Report`; `EndTick` drops the bookkeeping of items that were not
listed. Only `Report` calls the engine, through `NoteIssue`, and takes its mutex for that
call alone, so any `EngineStep` may come between two items. The queue changes
meanwhile (`ItemChanges`). The items of one download, an episode each, have one status, so a
page maps a download id to a status. `reported` and `noted` are auxiliary: they
remember what was reported and what the present trace was told, for the properties.

`ProwlarrPoller` stands alone, because the span of a search changes nothing in the
engine. `Request` takes a page of the newest records, `Handle` emits those later than the
cursor and moves it, `DecodeFails` drops the page. Prowlarr records searches
(`Record`) at any time, also between request and handling. A new process anchors its
cursor to its own clock, which may differ from Prowlarr's by `Skew`.

## What is checked

Each property stands in `EngineProperties.tla` or at the end of the module of its component, under a comment that says what it
means for the code.

| run | instance | properties |
|---|---|---|
| `core` | A series and two of its episodes, memory store. Eleven deliveries, each accepted once, in every order: a request for the series that is approved and fails, two grabs of episode 1, one of episode 2, download starts before or after their grab, an end, an import, a manual interaction, and queue reports at any time, with the metrics beside the handlers and restarts in between. | `TypeOK`, `ContextsMatchTraces`, `TraceIdsUnique`, `HandlesAreOpen`, `NoLeakedSpan`, `ClosedTraceHasRoot`, `LiveDownloadIndexed`, `DownloadsKeepToTheirMedia`, `RequestsAreTimed`, `AttemptsAscend`, `ImplementsLifecycle`, `ParkedLeavesForAReason` |
| `time` | One film, memory store, all times to live 1, clock 0 to 3, script clocks wrong by up to 1. A request, a grab, an import and two download starts; each may come again when its deduplication has expired. The janitor leaves timings behind; orphans come to use them. | `RequestGaugeCoversTimed`, `AttemptsAscend`, `NoLeakedSpan`, `ClosedAttemptsGrow`, `ParkedLeavesForAReason`, `TimingsPartBySweep`, `RememberedForTTL` |
| `restart` | A season pack (one download, two episodes, a request for the series), Bolt store, restart after any handler, the janitor at work. The applications fall silent after instant 1. | `ContextsMatchTraces`, `HandlesAreOpen`, `NoLeakedSpan`, `ClosedAttemptsGrow`, `ImplementsLifecycle`, `OwnRootIsExported`, `EveryTraceEnds` |
| `crash` | A series and an episode, Bolt store, one step per transaction: two requests, one of which fails, the grab, the start and the import, queue reports, the janitor, and a crash or a stop between any two transactions. | `MemoryMirrorsFile`, `LiveDownloadIndexed`, `ImplementsDurableLifecycle`, `AcceptedOnce`, `StopLosesNothing`, `TracesEndAfterCrashes` |
| `stalls` | The queue poller with two downloads, two stalled statuses and one that makes progress; a film grabbed and imported, memory store, restarts, the janitor. A page holds the whole queue. | `RepeatsSuppressed`, `StallsReported` |
| `searches` | Four searches at instants 0 to 3, pages of two, clocks off by up to 1, failed polls, restarts. | `EmittedOnce`, `LostForAReason` |
| `dangling_index`, `dropped_start` (as `core`), `resumed_root` (a film on the Bolt store with restarts), `gauges` (a film with its metrics), `dropped_stall` (as `stalls`), `lost_search` (as `searches`) | Small instances | one documented claim each that the code does not keep; see below |

**Bounds.** `MaxTime` bounds the clock, `Horizon` is the last instant at which
anything but the janitor calls the engine, `MaxAttempt` bounds attempts of one key, `SpanId`
the ids in use at once, `Lag` and `Skew` the age and error of times. `Lag` is 0 in the runs: there it is the
error of a script's clock that makes times go backwards (`time`); the theorems hold for every `Lag`. In `core` no
time passes, so each event is accepted once, and any of its three keys may have a trace,
one of them twice. `NewIds` is never empty in any of the runs, so ids never stop a
handler; `MaxAttempt` is reached, and cuts the runs with a clock off at attempt 3. `time` makes every time to live expire at least twice within its clock:
records and parked starts expire. `restart` sweeps at the
next instant because the time to live is 0, and one instant is left to the janitor (`MaxTime` 2)
when the applications are silent; a trace of the series and orphans of both its episodes may be in flight by then. `stalls` needs two downloads
for a call of the engine between two items of one tick; `searches` needs pages of two
and four searches for ties on one page, ties across two, and a search crowded out.
`crash` has one delivery of each of
six events, two instants to send them in (`Horizon` 1) and one more for the janitor (`MaxTime` 2); records expire at once
(`recallTTL` 0), which makes the transaction that forgets one, traces are stale at the
next instant, and no event is forgotten (`dedupTTL` 2), so `AcceptedOnce` says that each is
taken in once, whatever crashes in between. Two keys are the
least with which a trace of the series and an orphan of its episode are in the file
together. The runs divide the questions: order
of events, time, restarts and silence, crashes. The proofs then lift the safety properties
out of these bounds.

**Fairness.** `FairSpec` assumes that time passes and that the janitor runs
(`WF_vars(Tick)`, `WF_vars(Sweep)`): its ticker fires every five minutes for as long as
the process lives (`cmd/tracearr/main.go:107-121`), and `Sweep` waits for nothing but the
mutex, which every handler gives back. Nothing is assumed of the applications:
an event may never come. `EveryTraceEnds` holds because the applications are silent
after `Horizon`; an application that touches a trace for ever keeps it open for
ever, and the code means it to. `restart` does not check for deadlock, because
when the clock has reached `MaxTime` and all is swept, its world stops.

`FairDurableSpec` adds that a handler that runs comes to its end (`WF` of `Commit` and of
the janitor's `BeginSweep \/ SweepOne`) and takes strong fairness of `Pass`, the clock: in this model time
stands still inside a handler, so `Pass` is disabled again and again although the
real clock never waits. `TracesEndAfterCrashes` excludes endless crashes
(`<>[][~Crash]`): a process that dies for ever before its janitor runs closes nothing.
`crash` does not check for deadlock for the reason `restart` does not.

`FairPollerSpec` adds `WF_allVars(Poll)`: the poller's ticker fires again and again, and
the application answers from time to time. When it never does, nothing is
reported and nothing could be. `StallsReported` excludes endless restarts by itself.

**Mutants.** For every property of every passing run, `PROJECT.json` names a change
of one definition that a plausible mistake in that code would make (the context
is not deleted, the handle not cleared, the attempt not incremented, the
look-back compared the wrong way) and that makes TLC report the property violated.

## Where the code and its documents disagree

Six of these are runs that TLC finds violated:

1. `Delete` leaves the index entries of a trace's earlier download ids, though
   `store.go:67` says it removes "any download-id index entry pointing at it". The
   next attempt at the same media key then receives events of a download it never
   grabbed (`IndexLeadsToLiveTrace`).
2. The root of a resumed trace is synthesised on `context.TODO()`, so it is
   exported under a new trace id; the original trace has no root, though
   `engine.go:342-343` promises "a complete tree" (`ClosedTraceHasRoot` on the Bolt store).
3. `onRequestClosed` and `onImported` clear the handle of the grab before they ask for
   it to adjust the gauge of grabs (`engine.go:336-339`, `:360`), which therefore only goes up;
   `metrics.go:83` calls the gauge "In-flight traces by phase" (`InFlightByPhase`). Beyond the
   run: `Sweep` adjusts no gauge, and every reported end of a download whose start was
   timed takes one from the gauge of downloads, the second end of one download too.
4. `tick` marks an item as seen before the engine has looked for its trace. A stall that
   is polled before the grab's webhook is handled is dropped and never reported
   again, though `engine.go:719-720` has it that the call is a no-op only for "a release
   we never saw a Grab webhook for" (`StallNoted`).
5. A search recorded at the very date of the cursor after its page was read, or
   pushed off a page of 100, is never emitted; `prowlarr.go:23-24`: "emits one search
   event per new entry since the last poll" (`NothingLost`). `LostForAReason`, checked and
   proved, says that there is no third way to lose one.
6. A grab that supersedes one whose download is still open takes the parked start of its own
   download out of the buffer (`engine.go:433`), and `handleDownloadStart` drops it as "already
   open" (`engine.go:459`): the new download gets no span, and the old one's is ended by
   the end of either. `engine.go:68-69` has it "Replayed on the next Grab carrying the same ID"
   (`ParkedIsReplayed`). `ParkedLeavesForAReason`, checked and proved, says that besides this,
   the look-back and a restart there is no way to lose one.

Others met while reading, which the model follows without a property of their own:

* `download.transfer` is a child of the root (`ChildSpan`); `README.md:42-43` draws it below the
  grab.
* Resumed traces get live grab and download spans, though `store.go:50-52` says
  that synthetic ones are used while a trace is resumed.
* `lifecycleTiming` is "for in-flight traces" (`engine.go:77`), but the timing of a swept trace
  stays; an orphan of the same key that comes later is measured from it, and its
  import deletes it (`engine.go:416-429`, `:583-590`). `TimingsPartBySweep`, checked and
  proved, says that a timing is left behind in no other way, and stays until a new request of the
  key replaces it, an event closes an orphan of the key, or the process restarts.
* An orphan has no timing of its own, so its closing is not counted in
  `tracearr_attempts_total`, "including upgrades and retries" (`metrics.go:77`). After a restart
  no resumed trace is timed or counted.
* `SetMetrics` says "nil disables metric emission" (`engine.go:121`), but the handlers
  call the sink without asking; `main.go` never passes nil.
* `observe.go:88` names the result "dedup", which no handler of the receiver reports.
* `resolveTrace` falls back from an episode to its series, never the other way,
  against the "or vice versa" of `engine.go:208-209`.
* `engine.go:67-68` speaks of parked "download events"; only starts are parked, an
  end without a trace is dropped. A parked start is replayed whatever its age:
  the look-back is applied only when another start is parked.
* `RecallClosed` takes the exact key's record before the series', not the "most
  recent" of `store.go:89`. On meeting an expired record it deletes the one under the exact key: when
  it was the series' that had expired there is none, and the series' own
  stays.
* All episodes of a season pack have one download id, so their traces share one
  index entry: the last grab takes it, the first close removes it. An entry still
  leads to some episode that was grabbed under it (`DownloadsKeepToTheirMedia`), but
  `LiveDownloadIndexed` is therefore stated for deliveries in which a download id is
  grabbed for one key (`OneGrabPerDownload`), and `restart`, whose instance is a
  season pack, does not check it.
* Items of the queue beyond the first 200 count as having left it
  (`queue.go:98`, `queue.go:142`); they are reported again when they are back on the page.

## What is proved

TLAPS proves for every set of keys, events and ids, both stores, every time to
live, lag and skew, and any number of restarts; of the durable engine, for any
number of crashes and stops between any two transactions:

| theorem | says |
|---|---|
| `Invariance` | `Spec => []IInv` |
| `TypeCorrect`, `ContextsInStep`, `OneTracePerId`, `HandlesStayOpen`, `NoSpanLeaks`, `AttemptsNumbered` | the safety properties of the same meaning, as consequences of `IInv` |
| `RecordsGrow` | `Spec => ClosedAttemptsGrow` |
| `Refinement` | `Spec => ImplementsLifecycle` |
| `ParkedKept`, `Remembered` | `Spec => ParkedLeavesForAReason`, `Spec => RememberedForTTL` |
| `OwnRootsExported`, `RootsExported` | `Spec => OwnRootIsExported`; on the memory store, `[]ClosedTraceHasRoot` |
| `NoOtherMedia`, `LiveDownloadsIndexed` | `Spec => []DownloadsKeepToTheirMedia`, `Spec => []LiveDownloadIndexed` |
| `MetricsChangeNothing` | `MeteredSpec => Spec`: every theorem about `Spec` holds of the engine with metrics |
| `EngineUnderPoller` | `PollerSpec => Spec`: and of the engine under a queue poller |
| `TelemetryInvariance`, `GaugeCovers`, `RequestsTimed`, `TimingsPart` | the invariant of the metrics, `[]RequestGaugeCoversTimed`, `[]RequestsAreTimed`, `TimingsPartBySweep`, each of `MeteredSpec` |
| `DurableInvariance` | `DurableSpec => []DurableInv` |
| `MirrorHolds`, `SafeAcrossCrashes` | `[]MemoryMirrorsFile`; the safety properties of `IInv`, with crashes inside handlers |
| `StopSaves`, `DedupOnce` | `DurableSpec => StopLosesNothing`, `DurableSpec => AcceptedOnce` |
| `DurableRefinement` | `DurableSpec => ImplementsDurableLifecycle` |
| `MediaAcrossCrashes`, `IndexedAcrossCrashes` | `DurableSpec => []DownloadsKeepToTheirMedia`, `DurableSpec => []LiveDownloadIndexed` |
| `NothingRepeated` | `PollerSpec /\ []QueueFits => RepeatsSuppressed`: as long as the queue never outgrows a page |
| `Polling`, `NeverEmittedTwice`, `LossExplained` | the Prowlarr poller's invariant, `EmittedOnce` and `[]LostForAReason`, for any page size and skew |

**Assumptions.** Those named in `Engine` and `EngineProperties`, all evaluated by TLC on
every run: `None` is none of the values it stands beside, the keys are closed
under `SeriesKey`, times are natural numbers, and events are what the parsers make
(a download event has a download id, any other a known key, a closing request an
outcome). `EngineTelemetry` adds that grabs come from Sonarr and Radarr, requests do not, and no event says that a request has timed out. `DurableEngine` adds that
the store is Bolt's and that there are finitely many keys: `Restore` puts the traces back one after the other.

**The argument.** None of the properties is inductive alone. That a handle is open
(`HandlesAreOpen`) survives the closing of another trace only if two traces share no
span, which follows from unique trace ids and from the fact that an open span
has one parent; that the root a handler ends is the trace's own needs
`ContextsMatchTraces`; that an open span belongs to someone (`NoLeakedSpan`) after a
grab supersedes another needs the handle to have been open; that a new id is new
needs all of them. `IInv` is their conjunction, with `TypeOK` and `AttemptsAscend`.
`SpansApart` derives the separation of spans from it. `InitInv` and `NextInv` are the two
halves, the latter with one lemma per way a handler changes the state
(`Put`, `CloseTraces`, `GrabOnto`, `StartDownload`, `Reload`), one step per action and
below it one per conjunct. `LifecycleProofs` sorts the steps into those that
keep, open, close or lose traces and maps each to a step of `Lifecycle` or a stutter.

`IndexProofs` sums up what any step but a restart does to traces and index in one formula, `IndexEffect`: it puts
a trace in flight with the download id it has, a new one without any, or either with that of a
grab; or it deletes; or it changes neither. What a put, a deletion and `Restore` keep is
then shown once for each property. `DownloadsKeepToTheirMedia` is inductive
together with `TypeOK`, because it speaks of the traces as well as of the entries: an entry that
`Restore` makes comes from a trace. `LiveDownloadIndexed` is not, for any number
of download ids: it needs to know which grab gave a trace its id. `IndexInv` says that
some event of the trace's key, or of an episode while only its series had a trace, was
grabbed under it (`GrabbedFor`). With one key per download id no other trace can take the entry over.

A crash leaves half of a handler in the file, and `Restore` rebuilds the index from
the traces it finds there, in any order: `IndexedAcrossCrashes` needs that no two traces of the file
ever have one download id. `GrantedFile` says of a file what `GrabbedFor` says of memory. It is kept
by the next transaction only if that one fits, so `WritesFit` says of all that is still to
be written that each put brings an id granted by the file as it is now, and brings a trace for
an episode only while its series has none; that no put follows a deletion; and
that all of it is for one key, or for keys the file has already (`Restore`).
What fits the file fits the one after the next transaction (`CommitFits`), every handler
writes what fits the file it finds (`EventFits`), and `Restore` what fits the file it was
started from (`ReopenFits`). Both are kept whatever ids are grabbed; only that a new process gives
each entry to the right trace (`ReopenIndexed`) needs one key per download id. `MediaAcrossCrashes` adds what
the stale entries of the file lead to (`FileKeepsMedia`), season packs included.

The durable engine has little to say of the file in the middle of a handler. What is
inductive is where the file is going: `Leads(disk, writes, Memory)` says that
the transactions still to come are legal one after the other (a put keeps the
identity of the trace it replaces or brings a new one, a record follows the
deletion of its trace and nothing else), pass through good files only, and end at
the tables in memory. `Commit` shortens the way by one step (`LeadsRest`); a handler
builds it from the ways of its calls (`LeadsOne`, `LeadsClose`, `LeadsOn`); with none left, file and memory agree
(`LeadsEnd`), which is `MirrorHolds`; and every file on the way is one that a process can start from
(`LeadsGood`, `ReopenInv`), which is `SafeAcrossCrashes`. What a good file is,
`Consistent`, is `IInv` said of a file. `ReopenLeads` shows the same of the transactions of
`Restore`, in any order of the traces. `DurableRefinement` reads the legality off the head of
`writes`: a put begins a trace or is not seen, a deletion ends one, the record that
is due is the next transaction, and only `Reopen` can drop it. `StopSaves` adds what a poller can
have under way (`PollerWritesTime`), since everybody else is waited for.

`GaugeCovers` rests on a count: a step adds to the gauge of requests at least as many as it adds
timings, and takes one only with a timing. `TimingsPart` follows from what the handlers do to one key
(`Followed`): whatever closes its trace deletes its timing, nothing but a close deletes one, and
a request always brings a new one. So a timing can be without the trace of its request only
after a sweep, which touches no timing.

`ParkedKept` needs of the invariant that the handles of a trace are open and its context is its own: then
the ids of a grab are new, and the download span that is opened with it is a child of that trace's root.

`OwnRootsExported` follows from the summary by which `Refinement` is proved: a step that closes traces
exports the root of each that is not resumed (`ClosesTraces`), and so does no other step take a
trace out of the store but a restart. That the root is the trace's own is `ContextsMatchTraces`.
`RootsExported` strengthens its claim with: on the memory store no trace is resumed.

`Remembered` needs no invariant beyond types, but both stores' collection of expired events
(`SeenEventForgets`) and how wrong the time of the event can be that triggers it.

`NothingRepeated` needs that an item reported and unchanged since is in the queue,
in the bookkeeping and in the response in hand with one and the same status
(`ReportedInv`); that is kept by `EndTick` only because the page listed every item of the queue (`WholeQueueListed`).
`LossExplained` needs two facts: the cursor stands at the date of an emitted search once it
has left its anchor (`CursorInv`), and a search that is not on the page in hand is
either later than all of it or behind a full page (`PageInv`). So what the cursor passes over
is tied or crowded out, and neither is undone.

## What is only model-checked

* `EveryTraceEnds`, `StallsReported` and `TracesEndAfterCrashes`: liveness under fairness is beyond the prover.
* The six violation runs.

Every other property of every run is stated by a theorem.

## What is not modelled, and why

* **Failed transactions.** The Bolt store ignores the errors of its transactions. On a full
  disk memory and file part, and no property of this project would hold of the
  file; the code makes no promise there.
* **Rounding.** The file keeps times in nanoseconds for traces and records, and in
  whole seconds for events; the model has one kind of instant.
* **Shutdown that does not wait.** When the server fails, or its requests outlast ten
  seconds, `run` returns under running handlers. For the file that is a `Crash`.
* **The builder's table.** `openSpans` keeps an entry for every root for ever. No handler
  reads such an entry, so no behaviour depends on it.
* **Histograms and counters** of the metrics: sinks, fed from one timing in one line.
* **Title matching** of Prowlarr searches (`EmitProwlarrSearch`): it changes no state
  of the engine, and a synthetic span is the whole effect.
* **Routing, authentication, decoding errors**: stateless; a refused request reaches no
  handler.
* **Configuration, logging, exporter, scripts**: set-up, or calls of libraries.
