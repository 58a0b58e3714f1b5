----------------------------- MODULE MCDurable ------------------------------
(***************************************************************************)
(* A small instance of the engine on the bolt store for TLC: two requests  *)
(* for a series, and the grab and import of one of its episodes.           *)
(***************************************************************************)
EXTENDS DurableEngine, MCEngine

PairKeys == {Show, Ep1}

PairEvents ==
    {Overseerr("r1", "MEDIA_PENDING", Show),
     Overseerr("r2", "MEDIA_PENDING", Show),
     Overseerr("r2", "MEDIA_FAILED", Show),
     Nzb("d1", "queue_added")}
    \cup Sonarr(<<<<1, 1>>>>, "d1", "grab")
    \cup Sonarr(<<<<1, 1>>>>, "d1", "import")

=============================================================================
