--------------------------- MODULE ProwlarrPoller ---------------------------
(***************************************************************************)
(* The Prowlarr poller of internal/poller/prowlarr.go.  Each tick reads    *)
(* the newest page of Prowlarr's search history, hands every record later  *)
(* than its cursor to the engine, and moves the cursor to the latest of    *)
(* them.  The page is a snapshot: searches go on while it is on its way.   *)
(***************************************************************************)
EXTENDS Integers, FiniteSets

CONSTANTS
    Search,      \* the searches Prowlarr may record
    pageSize,    \* records in a response
    Skew,        \* bound: error of Prowlarr's clock against the poller's
    MaxTime      \* bound on the clock

VARIABLES
    history,     \* Prowlarr's history: search -> its date, or Unrecorded
    cursor,      \* the date of the last processed entry
    polling,     \* whether a tick has a response in hand
    page,        \* the searches in that response
    anchor,      \* where the cursor stood when the process started
    emitted,     \* the searches this process has emitted
    clock        \* Prowlarr's clock

vars == <<history, cursor, polling, page, anchor, emitted, clock>>

Unrecorded == -1
Recorded == {s \in Search : history[s] # Unrecorded}

ASSUME ConstantsAssumption ==
    /\ IsFiniteSet(Search)
    /\ pageSize \in Nat \ {0} /\ Skew \in Nat /\ MaxTime \in Nat

TypeOK ==
    /\ history \in [Search -> Nat \cup {Unrecorded}]
    /\ cursor \in Int /\ anchor \in Int
    /\ polling \in BOOLEAN
    /\ page \in SUBSET Search
    /\ emitted \in SUBSET Search
    /\ clock \in Nat

\* Run anchors the cursor to the poller's own clock.
Init ==
    /\ history = [s \in Search |-> Unrecorded]
    /\ cursor \in (-Skew) .. Skew
    /\ anchor = cursor
    /\ polling = FALSE
    /\ page = {}
    /\ emitted = {}
    /\ clock = 0

-----------------------------------------------------------------------------

\* The responses the request may get: pageSize records, sorted by date from
\* the newest; among records of one date the order is Prowlarr's.
Pages ==
    {P \in SUBSET Recorded :
        /\ Cardinality(P) <= pageSize
        /\ Cardinality(P) < pageSize => P = Recorded
        /\ \A s \in P, r \in Recorded \ P : history[r] <= history[s]}

\* A response other than 200 leaves no page, and nothing has changed.
Request ==
    /\ ~polling
    /\ polling' = TRUE
    /\ page' \in Pages
    /\ UNCHANGED <<history, cursor, anchor, emitted, clock>>

\* The response is cut off or cannot be decoded.
DecodeFails ==
    /\ polling
    /\ polling' = FALSE
    /\ page' = {}
    /\ UNCHANGED <<history, cursor, anchor, emitted, clock>>

\* Mutant of After: a record of the cursor's own date is taken (again).
NotBefore(s) == history[s] >= cursor

After(s) == history[s] > cursor

New == {s \in page : After(s)}

\* Mutant of Advance: the cursor moves to the time of the poll.
AdvanceToNow(S) == cursor' = clock

Advance(S) ==
    IF S = {} THEN UNCHANGED cursor
    ELSE cursor' \in {history[s] : s \in S} /\ \A s \in S : history[s] <= cursor'

Handle ==
    /\ polling
    /\ emitted' = emitted \cup New
    /\ Advance(New)
    /\ polling' = FALSE
    /\ page' = {}
    /\ UNCHANGED <<history, anchor, clock>>

\* The process starts again.  It does not know what another one has emitted.
Restart ==
    /\ cursor' \in (clock - Skew) .. (clock + Skew)
    /\ anchor' = cursor'
    /\ polling' = FALSE
    /\ page' = {}
    /\ emitted' = {}
    /\ UNCHANGED <<history, clock>>

\* Prowlarr.
Record(s) ==
    /\ history[s] = Unrecorded
    /\ history' = [history EXCEPT ![s] = clock]
    /\ UNCHANGED <<cursor, polling, page, anchor, emitted, clock>>

Tick ==
    /\ clock < MaxTime
    /\ clock' = clock + 1
    /\ UNCHANGED <<history, cursor, polling, page, anchor, emitted>>

Next ==
    \/ Request \/ DecodeFails \/ Handle \/ Restart
    \/ \E s \in Search : Record(s)
    \/ Tick

Spec == Init /\ [][Next]_vars

-----------------------------------------------------------------------------
(* Properties. *)

\* A search is emitted at most once by a process, whatever polls overlap
\* with searches or fail in between: the strict comparison with the cursor
\* is all that stands between a search and a second span of it.
EmittedOnce == [][Handle => New \cap emitted = {}]_vars

\* The searches the process will never emit, although it was running.
Lost == {s \in Recorded : anchor < history[s] /\ history[s] <= cursor} \ emitted

\* A search is lost for one of two reasons only: another one of the same
\* date was on an earlier page than it, or a page's worth of later ones
\* crowded it out.  A failed poll, and one that overlaps with searches,
\* loses nothing: the next one makes up for it.
LostForAReason ==
    \A s \in Lost :
        \/ \E r \in emitted : history[r] = history[s]
        \/ Cardinality({r \in Recorded \ {s} : history[s] <= history[r]}) >= pageSize

\* prowlarr.go:23-24: "emits one search event per new entry since the last
\* poll".
NothingLost == Lost = {}

=============================================================================
