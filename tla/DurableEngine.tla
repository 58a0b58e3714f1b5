---------------------------- MODULE DurableEngine ----------------------------
(***************************************************************************)
(* The engine on the bolt store, a process that may die at any moment.     *)
(* Every call of the store that writes changes the store's tables in       *)
(* memory and then, in a transaction of its own, the buckets of the file.  *)
(* A handler makes up to four such calls, so the file passes through       *)
(* states that the engine's own state never shows to the next handler.     *)
(*                                                                         *)
(* A handler is its action of Engine, which does all it does in memory,    *)
(* followed by one step for each of its transactions.  Nothing but the     *)
(* file outlives a crash, so it does not matter that memory runs ahead of  *)
(* the transactions; the engine's mutex keeps other handlers out until the *)
(* last of them is done.  The bucket of the deduplication has no copy in   *)
(* memory: it is "dedup", and SeenEvent's transaction, the first of every  *)
(* handler, is a part of the handler's action.                             *)
(***************************************************************************)
EXTENDS EngineProperties

VARIABLES
    disk,       \* the buckets traces, dl_index and closed of the file
    writes,     \* transactions the running handler has still to make
    caller,     \* the goroutine that runs it, or None
    sweeping    \* stale traces the running Sweep has still to close

durableVars == <<vars, disk, writes, caller, sweeping>>

ASSUME BoltAssumption == Backend = "bolt"

\* What a store holds can be put in an order.
ASSUME FiniteKeysAssumption == IsFiniteSet(MediaKey)

\* The engine's mutex is free.
Idle == writes = <<>> /\ sweeping = {}

\* The goroutine "c" has the mutex for as long as its handler has more to do.
RunBy(c) == caller' = IF writes' = <<>> /\ sweeping' = {} THEN None ELSE c

DurableInit ==
    /\ Init
    /\ disk = [byKey |-> byKey, byDLID |-> byDLID, closed |-> closed]
    /\ writes = <<>> /\ caller = None /\ sweeping = {}

-----------------------------------------------------------------------------
(* Transactions. *)

PutTx(k, s) == [op |-> "put", key |-> k, trace |-> s]
\* "id" is the download id that memory had for the trace.
DeleteTx(k, id) == [op |-> "delete", key |-> k, id |-> id]
RememberTx(k, c) == [op |-> "remember", key |-> k, record |-> c]
ForgetTx(k) == [op |-> "forget", key |-> k]

Indexed(index, id, k) ==
    [d \in DownloadID |-> IF d = id THEN k ELSE index[d]]

\* A file after one transaction more.
\* Mutant of Committed: the bucket of the index is not written by Put.
CommittedUnindexed(file, tx) ==
    CASE tx.op = "put" -> [file EXCEPT !.byKey[tx.key] = tx.trace]
      [] tx.op = "delete" ->
            [file EXCEPT !.byKey[tx.key] = None,
                         !.byDLID = Indexed(@, tx.id, None)]
      [] tx.op = "remember" -> [file EXCEPT !.closed[tx.key] = tx.record]
      [] tx.op = "forget" -> [file EXCEPT !.closed[tx.key] = None]

Committed(file, tx) ==
    CASE tx.op = "put" ->
            [file EXCEPT !.byKey[tx.key] = tx.trace,
                         !.byDLID = Indexed(@, tx.trace.DownloadID, tx.key)]
      [] tx.op = "delete" ->
            [file EXCEPT !.byKey[tx.key] = None,
                         !.byDLID = Indexed(@, tx.id, None)]
      [] tx.op = "remember" -> [file EXCEPT !.closed[tx.key] = tx.record]
      [] tx.op = "forget" -> [file EXCEPT !.closed[tx.key] = None]

Commit ==
    /\ writes # <<>>
    /\ disk' = Committed(disk, Head(writes))
    /\ writes' = Tail(writes)
    /\ UNCHANGED <<vars, sweeping>>
    /\ RunBy(caller)

-----------------------------------------------------------------------------
(* The transactions of each handler, in the order of its calls. *)

RecallTxs(k, t) ==
    LET c == closed[RecallKey(k)]
    IN  IF c # None /\ Expired(c, t) THEN <<ForgetTx(k)>> ELSE <<>>

OpenTxs(ev, t, new) ==
    RecallTxs(ev.Key, t) \o <<PutTx(ev.Key, NewTrace(ev, t, new))>>

\* Mutant of CloseTxs: the record is written before the trace goes.
RememberFirst(k) ==
    <<RememberTx(k, closed'[k]), DeleteTx(k, byKey[k].DownloadID)>>

CloseTxs(k) ==
    <<DeleteTx(k, byKey[k].DownloadID), RememberTx(k, closed'[k])>>

\* An orphan is put as soon as it is open, and every trace once for the grab
\* and once for the start that is replayed.
GrabTxs(ev, t, new) ==
    LET k == ResolveTrace(ev.Key)
        j == IF k = None THEN ev.Key ELSE k
        before == IF k = None THEN NewTrace(ev, t, new) ELSE byKey[k]
    IN  (IF k = None THEN OpenTxs(ev, t, new) ELSE <<>>)
          \o <<PutTx(j, [byKey'[j] EXCEPT !.Download = before.Download, !.UpdatedAt = t])>>
          \o (IF byKey'[j].Download # before.Download THEN <<PutTx(j, byKey'[j])>> ELSE <<>>)

\* The import is put even when the trace is deleted right after.
ImportTxs(k, t) ==
    <<PutTx(k, [byKey[k] EXCEPT !.Grab = None, !.Download = None, !.UpdatedAt = t])>>
      \o (IF IsOrphan(byKey[k]) THEN CloseTxs(k) ELSE <<>>)

\* Of an event that concerns the trace k, or none.
TraceTxs(ev, k, t, new) ==
    IF k = None
    THEN CASE ev.Phase = "request.opened" -> OpenTxs(ev, t, new)
           [] ev.Phase = "arr.grab"       -> GrabTxs(ev, t, new)
           [] OTHER                       -> <<>>
    ELSE CASE ev.Phase = "request.opened" -> <<>>
           [] ev.Phase = "arr.grab"       -> GrabTxs(ev, t, new)
           [] ev.Phase = "request.closed" -> CloseTxs(k)
           [] ev.Phase = "arr.import"     -> ImportTxs(k, t)
           [] ev.Phase = "download.start" /\ byKey[k].Download # None -> <<>>
           [] OTHER                       -> <<PutTx(k, byKey'[k])>>

EventTxs(ev, t, new) ==
    TraceTxs(ev, IF ev.Phase \in {"download.start", "download.done"}
                 THEN GetByDownloadID(ev.DownloadID) ELSE ResolveTrace(ev.Key), t, new)

-----------------------------------------------------------------------------
(* The callers. *)

\* A webhook or a script.
Receive ==
    /\ Idle /\ clock <= Horizon
    /\ \E new \in NewIds, ev \in Event : \E t \in Stamps(ev) :
          /\ Process(ev, t, new)
          /\ writes' = IF AlreadySeen(DedupKeyOf(ev), t) THEN <<>>
                       ELSE EventTxs(ev, t, new)
    /\ UNCHANGED <<clock, disk, sweeping>>
    /\ RunBy("server")

ReportStall ==
    /\ Idle /\ clock <= Horizon
    /\ \E d \in DownloadID, t \in (clock - Lag) .. clock :
          /\ NoteIssue(d, t)
          /\ writes' = <<PutTx(GetByDownloadID(d), byKey'[GetByDownloadID(d)])>>
    /\ UNCHANGED <<dedup, clock, disk, sweeping>>
    /\ RunBy("poller")

BeginSweep ==
    /\ Idle
    /\ sweeping' = Stale(maxTraceDuration, clock)
    /\ sweeping' # {}
    /\ UNCHANGED <<vars, disk, writes>>
    /\ RunBy("janitor")

\* One round of the loop in Sweep.
SweepOne ==
    /\ writes = <<>>
    /\ \E k \in sweeping :
          /\ CloseTraces({k}, "timeout", clock)
          /\ writes' = CloseTxs(k)
          /\ sweeping' = sweeping \ {k}
    /\ UNCHANGED <<dedup, clock, disk, caller>>

\* Time stands still during a handler.
Pass ==
    /\ Idle
    /\ Tick
    /\ UNCHANGED <<disk, writes, caller, sweeping>>

-----------------------------------------------------------------------------
(* The end of the process, and the next one. *)

Orders(K) ==
    {o \in [1 .. Cardinality(K) -> K] : \A k \in K : \E i \in DOMAIN o : o[i] = k}

Stored(k) == ResumedTrace(disk.byKey[k])

\* The index of the file when Restore has put the first n traces of the order
\* o: two traces may claim one entry, which the later put gets.
IndexAfter(o, n) ==
    [d \in DownloadID |->
        LET claims == {i \in 1 .. n : disk.byKey[o[i]].DownloadID = d}
        IN  IF claims = {} THEN disk.byDLID[d]
            ELSE o[CHOOSE i \in claims : \A j \in claims : j <= i]]

\* load and LoadAll take the traces and the index from the file; Restore puts
\* the traces back in the order of a Go map, one transaction each.
Reopen ==
    /\ LET K == {k \in MediaKey : disk.byKey[k] # None}
           n == Cardinality(K)
       IN  \E o \in Orders(K) :
              /\ writes' = [i \in 1 .. n |-> PutTx(o[i], Stored(o[i]))]
              /\ byDLID' = IndexAfter(o, n)
    /\ byKey' = [k \in MediaKey |-> IF disk.byKey[k] = None THEN None ELSE Stored(k)]
    /\ closed' = disk.closed
    /\ Resume
    /\ sweeping' = {}
    /\ UNCHANGED <<dedup, disk>>
    /\ RunBy("main")

\* The process dies, between two handlers or two transactions.
Crash ==
    /\ MayRestart /\ clock <= Horizon
    /\ Reopen

\* Mutant of Drained: the janitor is not waited for.
DrainedServer == Idle \/ caller \in {"poller", "janitor"}

\* run waits for the server's requests and for the janitor, not for a poller.
Drained == Idle \/ caller = "poller"

\* A signal: the store is closed when the server and the janitor are done.
\* What a poller has still to write fails, and nobody looks at the error.
Stop ==
    /\ MayRestart /\ clock <= Horizon
    /\ Drained
    /\ Reopen

DurableNext ==
    Receive \/ ReportStall \/ BeginSweep \/ SweepOne \/ Pass \/ Commit \/ Crash \/ Stop

DurableSpec == DurableInit /\ [][DurableNext]_durableVars

\* A handler that runs comes to its end, and the janitor's ticker fires again
\* and again.  Time passes however busy the engine is: it stands still in a
\* handler only, so strong fairness keeps handlers from holding it up.
FairDurableSpec ==
    /\ DurableSpec
    /\ WF_durableVars(Commit) /\ WF_durableVars(BeginSweep \/ SweepOne)
    /\ SF_durableVars(Pass)

-----------------------------------------------------------------------------
(* Properties. *)

\* store_bolt.go:22-24: reads hit a cache "that mirrors the on-disk state".
\* Memory and file are changed by different code, call by call; they agree
\* whenever a handler is done, after any crash and any half of a handler.
MemoryMirrorsFile ==
    writes = <<>> => disk = [byKey |-> byKey, byDLID |-> byDLID, closed |-> closed]

\* Cutting a handler in two at any of its transactions leaves a file from
\* which the next process goes on: no trace is in the file twice or both in
\* flight and remembered, and all that a crash can lose of a trace is the
\* record of the one that was being closed (engine.go:354-355).
FileTrace(k) ==
    IF disk.byKey[k] = None THEN None
    ELSE [Id |-> disk.byKey[k].TraceID, Attempt |-> disk.byKey[k].Attempt]

FileRecord(k) ==
    IF disk.closed[k] = None THEN None
    ELSE [Id |-> disk.closed[k].TraceID, Attempt |-> disk.closed[k].Attempt]

FileEnding ==
    IF writes # <<>> /\ Head(writes).op = "remember"
    THEN LET tx == Head(writes)
         IN  [Key |-> tx.key,
              Trace |-> [Id |-> tx.record.TraceID, Attempt |-> tx.record.Attempt]]
    ELSE None

D == INSTANCE DurableLifecycle WITH
        Key      <- MediaKey,
        Id       <- SpanId,
        Volatile <- FALSE,
        current  <- [k \in MediaKey |-> FileTrace(k)],
        last     <- [k \in MediaKey |-> FileRecord(k)],
        ending   <- FileEnding

ImplementsDurableLifecycle == D!DurableSpec

ASSUME EndingAssumption == None \notin D!Ended

\* A stop on a signal loses no trace and no record, unlike a crash: what is
\* still to be written when the store is closed (main.go:88, :173-176) is at
\* most the time of a queue report.
StopLosesNothing ==
    [][Stop =>
         /\ closed' = closed
         /\ \A k \in MediaKey :
              byKey'[k] = IF byKey[k] = None THEN None
                          ELSE [ResumedTrace(byKey[k]) EXCEPT
                                   !.UpdatedAt = byKey'[k].UpdatedAt]]_durableVars

\* SeenEvent is durable before the event is handled (engine.go:179): an event
\* is taken in at most once within the time to live, also when the process
\* dies between taking it in and saving anything of it.  The retry of such an
\* event is dropped.
AcceptedOnce ==
    [][\A i \in DedupKey :
         dedup[i] # None /\ dedup'[i] # dedup[i] =>
            dedup'[i] # None /\ dedup[i] <= clock + Skew - dedupTTL]_durableVars

\* Whatever half of a handler a crash leaves in the file, the trace ends: an
\* import that was put and not closed, an event that was taken in and lost
\* are made up for by the janitor, unless the process crashes for ever.
TracesEndAfterCrashes ==
    <>[][~Crash]_durableVars => EveryTraceEnds

=============================================================================
