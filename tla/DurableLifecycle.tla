-------------------------- MODULE DurableLifecycle --------------------------
(***************************************************************************)
(* What the file of the bolt store promises of the traces of a media key   *)
(* when the process may die at any moment.  It is Lifecycle with the end   *)
(* of a trace cut in two: the trace leaves the file, and then the record   *)
(* of it is written.  Only the death of the process in between, and only   *)
(* for the one trace that is ending, keeps a trace from being remembered;  *)
(* no trace is ever both in flight and remembered.                         *)
(***************************************************************************)
EXTENDS Lifecycle

VARIABLE ending     \* the trace that has ended and has no record yet, or None

Ended == [Key : Key, Trace : Trace]

DurableInit == Init /\ ending = None

\* A new attempt, as Lifecycle has it.
Begin(k) ==
    /\ ending = None
    /\ Open(k)
    /\ UNCHANGED ending

\* An expired record goes.
Forget(k) ==
    /\ ending = None
    /\ last' = [last EXCEPT ![k] = None]
    /\ UNCHANGED <<current, ending>>

End(k) ==
    /\ ending = None
    /\ current[k] # None
    /\ ending' = [Key |-> k, Trace |-> current[k]]
    /\ current' = [current EXCEPT ![k] = None]
    /\ UNCHANGED last

Record ==
    /\ ending # None
    /\ last' = [last EXCEPT ![ending.Key] = ending.Trace]
    /\ ending' = None
    /\ UNCHANGED current

Die ==
    /\ ending # None
    /\ ending' = None
    /\ UNCHANGED <<current, last>>

DurableNext ==
    /\ Shape
    /\ Record \/ Die \/ \E k \in Key : Begin(k) \/ Forget(k) \/ End(k)

DurableSpec == DurableInit /\ [][DurableNext]_<<current, last, ending>>

=============================================================================
