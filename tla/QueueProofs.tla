---------------------------- MODULE QueueProofs -----------------------------
(***************************************************************************)
(* Proofs that the engine under a queue poller is the engine of Engine, so *)
(* that every theorem about it stands, and that the poller repeats nothing *)
(* as long as a page always holds the whole queue.                         *)
(***************************************************************************)
EXTENDS QueuePoller, FiniteSetTheorems, TLAPS

\* What the poller does to the engine is one of the engine's own steps, or
\* nothing.
LEMMA PollerStepIsEngineStep ==
    ASSUME PollerNext
    PROVE  [Next]_vars
<1>1. CASE Fetch \/ EndTick \/ \E d \in DownloadID : Progress(d) \/ Suppress(d)
  BY <1>1 DEF Fetch, EndTick, Progress, Suppress
<1>2. ASSUME NEW d \in DownloadID, Report(d) PROVE [Next]_vars
  <2>1. CASE GetByDownloadID(d) = None
    BY <1>2, <2>1 DEF Report, NoteIssue
  <2>2. CASE GetByDownloadID(d) # None
    <3>1. NoteQueueIssue
      BY <1>2, <2>2 DEF Report, NoteQueueIssue
    <3>. QED  BY <3>1 DEF Next
  <2>. QED  BY <2>1, <2>2
<1>3. CASE EngineStep
  BY <1>3 DEF EngineStep, Next
<1>4. CASE RestartBoth
  BY <1>4 DEF RestartBoth, Next
<1>5. CASE \E d \in DownloadID, s \in Status \cup {None} : ItemChanges(d, s)
  BY <1>5 DEF ItemChanges
<1>. QED  BY <1>1, <1>2, <1>3, <1>4, <1>5 DEF PollerNext, Poll

\* The composition implements the engine's specification.
THEOREM EngineUnderPoller == PollerSpec => Spec
<1>1. [PollerNext]_allVars => [Next]_vars
  BY PollerStepIsEngineStep DEF allVars
<1>. QED  BY <1>1, PTL DEF PollerSpec, Spec

-----------------------------------------------------------------------------

QueueTypeOK ==
    /\ queue \in [DownloadID -> Status \cup {None}]
    /\ polling \in BOOLEAN
    /\ listed \in SUBSET DownloadID
    /\ page \in [DownloadID -> Status \cup {None}]
    /\ seen \in [DownloadID -> Stalled \cup {None}]
    /\ reported \in [DownloadID -> Stalled \cup {None}]

\* An item reported and unchanged since is in the queue, in the poller's
\* bookkeeping and in the response in hand, with the status reported.
ReportedInv ==
    \A d \in DownloadID : reported[d] # None =>
        /\ queue[d] = reported[d]
        /\ seen[d] = reported[d]
        /\ polling => d \in listed
        /\ page[d] \in {reported[d], None}

\* Items still to go through were listed, by a tick that is under way.
PageInv ==
    /\ \A d \in DownloadID : page[d] # None => d \in listed
    /\ ~polling => page = Nothing

RepeatInv == QueueTypeOK /\ ReportedInv /\ PageInv

\* A response lists the whole of a queue that fits.
LEMMA WholeQueueListed ==
    ASSUME QueueFits, Fetch
    PROVE  listed' = Queued
<1>1. /\ listed' \subseteq Queued
      /\ listed' = Queued \/ Cardinality(listed') = pageSize
  BY DEF Fetch
<1>2. IsFiniteSet(Queued) /\ Cardinality(Queued) \in Nat /\ pageSize \in Nat
      /\ Cardinality(Queued) <= pageSize
  BY FS_CardinalityType, QueueAssumption DEF QueueAssumption, QueueFits
<1>3. ASSUME listed' # Queued PROVE FALSE
  <2>1. Cardinality(listed') = pageSize
    BY <1>1, <1>3
  <2>2. Cardinality(listed') < Cardinality(Queued)
    BY <1>1, <1>2, <1>3, FS_Subset, FS_CardinalityType
  <2>. QED  BY <1>2, <2>1, <2>2
<1>. QED  BY <1>3

\* RepeatInv is inductive as long as the queue fits.
LEMMA RepeatStep ==
    ASSUME QueueFits, RepeatInv, [PollerNext]_allVars
    PROVE  RepeatInv'
<1>. USE QueueAssumption DEF QueueAssumption
<1>1. CASE Fetch
  <2>1. listed' = Queued
    BY <1>1, WholeQueueListed
  <2>2. /\ page' = [d \in DownloadID |-> IF d \in listed' THEN queue[d] ELSE None]
        /\ polling' = TRUE /\ UNCHANGED <<queue, seen, reported>>
    BY <1>1 DEF Fetch
  <2>3. QueueTypeOK'
    BY <2>1, <2>2 DEF RepeatInv, QueueTypeOK, Queued
  <2>4. ReportedInv'
    BY <2>1, <2>2 DEF RepeatInv, ReportedInv, Queued
  <2>5. PageInv'
    BY <2>1, <2>2 DEF PageInv, Queued
  <2>. QED  BY <2>3, <2>4, <2>5 DEF RepeatInv
<1>2. ASSUME NEW d \in DownloadID, Progress(d) PROVE RepeatInv'
  <2>1. /\ page[d] \in Status \ Stalled
        /\ seen' = [seen EXCEPT ![d] = None] /\ page' = [page EXCEPT ![d] = None]
        /\ UNCHANGED <<queue, polling, listed, reported>>
    BY <1>2 DEF Progress, PassOver
  <2>2. polling
    BY <2>1 DEF RepeatInv, PageInv, Nothing
  <2>3. reported[d] = None
    BY <2>1 DEF RepeatInv, ReportedInv, QueueTypeOK
  <2>4. QueueTypeOK'
    BY <2>1 DEF RepeatInv, QueueTypeOK
  <2>5. ReportedInv'
    BY <2>1, <2>3 DEF RepeatInv, ReportedInv, QueueTypeOK
  <2>6. PageInv'
    BY <2>1, <2>2 DEF RepeatInv, PageInv, QueueTypeOK
  <2>. QED  BY <2>4, <2>5, <2>6 DEF RepeatInv
<1>3. ASSUME NEW d \in DownloadID, Suppress(d) PROVE RepeatInv'
  <2>1. /\ page[d] \in Stalled /\ page' = [page EXCEPT ![d] = None]
        /\ UNCHANGED <<queue, polling, listed, seen, reported>>
    BY <1>3 DEF Suppress, PassOver
  <2>2. polling
    BY <2>1 DEF RepeatInv, PageInv, Nothing
  <2>. QED  BY <2>1, <2>2 DEF RepeatInv, ReportedInv, PageInv, QueueTypeOK
<1>4. ASSUME NEW d \in DownloadID, Report(d) PROVE RepeatInv'
  <2>1. /\ page[d] \in Stalled
        /\ seen' = [seen EXCEPT ![d] = page[d]] /\ page' = [page EXCEPT ![d] = None]
        /\ reported' = [reported EXCEPT ![d] = IF queue[d] = page[d] THEN page[d] ELSE None]
        /\ UNCHANGED <<queue, polling, listed>>
    BY <1>4 DEF Report, PassOver
  <2>2. polling /\ d \in listed
    BY <2>1 DEF RepeatInv, PageInv, Nothing
  <2>3. QueueTypeOK'
    BY <2>1 DEF RepeatInv, QueueTypeOK
  <2>4. ReportedInv'
    BY <2>1, <2>2 DEF RepeatInv, ReportedInv, QueueTypeOK
  <2>5. PageInv'
    BY <2>1, <2>2 DEF RepeatInv, PageInv, QueueTypeOK
  <2>. QED  BY <2>3, <2>4, <2>5 DEF RepeatInv
<1>5. CASE EndTick
  <2>1. /\ polling /\ page = Nothing /\ polling' = FALSE /\ listed' = {}
        /\ seen' = [d \in DownloadID |-> IF d \in Left THEN None ELSE seen[d]]
        /\ UNCHANGED <<queue, page, reported>>
    BY <1>5 DEF EndTick
  <2>2. QueueTypeOK'
    BY <2>1 DEF RepeatInv, QueueTypeOK
  <2>3. ReportedInv'
    BY <2>1 DEF RepeatInv, ReportedInv, Left
  <2>4. PageInv'
    BY <2>1 DEF PageInv, Nothing
  <2>. QED  BY <2>2, <2>3, <2>4 DEF RepeatInv
<1>6. CASE EngineStep
  BY <1>6 DEF EngineStep, tickVars, RepeatInv, ReportedInv, PageInv, QueueTypeOK
<1>7. CASE RestartBoth
  BY <1>7 DEF RestartBoth, Nothing, RepeatInv, ReportedInv, PageInv, QueueTypeOK
<1>8. ASSUME NEW d \in DownloadID, NEW s \in Status \cup {None}, ItemChanges(d, s)
      PROVE  RepeatInv'
  BY <1>8 DEF ItemChanges, tickVars, RepeatInv, ReportedInv, PageInv, QueueTypeOK
<1>9. CASE UNCHANGED allVars
  BY <1>9 DEF allVars, pollerVars, tickVars, RepeatInv, ReportedInv, PageInv, QueueTypeOK
<1>. QED  BY <1>1, <1>2, <1>3, <1>4, <1>5, <1>6, <1>7, <1>8, <1>9 DEF PollerNext, Poll

\* No item is reported twice with the status it has kept, as long as the
\* queue never outgrows a page, however many downloads there are in all.
THEOREM NothingRepeated == PollerSpec /\ []QueueFits => RepeatsSuppressed
<1>1. PollerInit => RepeatInv
  BY DEF PollerInit, RepeatInv, QueueTypeOK, ReportedInv, PageInv, Nothing
<1>2. QueueFits /\ RepeatInv /\ [PollerNext]_allVars => RepeatInv'
  BY RepeatStep
<1>3. RepeatInv => [\A d \in DownloadID : Report(d) => reported[d] # page[d]]_allVars
  <2> SUFFICES ASSUME RepeatInv, NEW d \in DownloadID, Report(d)
               PROVE  reported[d] # page[d]
    OBVIOUS
  <2>1. page[d] \in Stalled /\ seen[d] # page[d]
    BY DEF Report, Repeated
  <2>. QED  BY <2>1, QueueAssumption DEF RepeatInv, ReportedInv, QueueAssumption
<1>. QED  BY <1>1, <1>2, <1>3, PTL DEF PollerSpec, RepeatsSuppressed

=============================================================================
