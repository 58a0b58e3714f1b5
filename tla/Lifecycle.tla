----------------------------- MODULE Lifecycle ------------------------------
(***************************************************************************)
(* What the engine and its store promise of the traces of one media key    *)
(* after another: at most one is in flight for a key, each is a new        *)
(* attempt, numbered above the last one remembered, and a trace that ends  *)
(* is remembered as it was.  A record may be forgotten, but only a store   *)
(* that keeps nothing on disk may lose a trace that is in flight.  Nothing *)
(* is said of spans, downloads or times.                                   *)
(***************************************************************************)
EXTENDS Integers

CONSTANTS
    Key,        \* media keys
    Id,         \* trace ids
    None,
    Volatile    \* whether a restart loses everything

VARIABLES
    current,    \* key -> the trace in flight, or None
    last        \* key -> the trace remembered as closed, or None

Trace == [Id : Id, Attempt : Nat]

TypeOK ==
    /\ current \in [Key -> Trace \cup {None}]
    /\ last \in [Key -> Trace \cup {None}]

Init ==
    /\ current = [k \in Key |-> None]
    /\ last = [k \in Key |-> None]

InUse(id) ==
    \E k \in Key : \/ current[k] # None /\ current[k].Id = id
                   \/ last[k] # None /\ last[k].Id = id

\* A new attempt: the number restarts only if the last one is forgotten.
Open(k) ==
    /\ current[k] = None
    /\ current'[k] \in Trace
    /\ ~InUse(current'[k].Id)
    /\ \A j \in Key \ {k} : current'[j] = current[j] /\ last'[j] = last[j]
    /\ last'[k] \in {last[k], None}
    /\ last'[k] # None => last'[k].Attempt < current'[k].Attempt

\* The end of one trace, or of several at once by the janitor.
Close(K) ==
    \A k \in Key :
        IF k \in K
        THEN current[k] # None /\ current'[k] = None /\ last'[k] = current[k]
        ELSE current'[k] = current[k] /\ last'[k] \in {last[k], None}

Lose ==
    /\ Volatile
    /\ \A k \in Key : current'[k] = None /\ last'[k] = None

\* Both remain functions on Key, which the actions say key by key.
Shape ==
    /\ current' = [k \in Key |-> current'[k]]
    /\ last' = [k \in Key |-> last'[k]]

Next ==
    /\ Shape
    /\ \/ \E k \in Key : Open(k)
       \/ \E K \in SUBSET Key : Close(K)
       \/ Lose

Spec == Init /\ [][Next]_<<current, last>>

=============================================================================
