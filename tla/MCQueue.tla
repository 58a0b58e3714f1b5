------------------------------ MODULE MCQueue -------------------------------
(***************************************************************************)
(* A small instance of the queue poller and the engine: a film is grabbed  *)
(* and imported without a request, and its download and another one stall. *)
(***************************************************************************)
EXTENDS QueuePoller

Film == MovieKey(603)
FilmKeys == {Film}

GrabAndImport ==
    {RadarrEvent(603, "d1", "grab"), RadarrEvent(603, "d1", "import")}

DedupKeys == {DedupKeyOf(ev) : ev \in Event}

=============================================================================
