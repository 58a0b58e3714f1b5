------------------------------ MODULE MCEngine ------------------------------
(***************************************************************************)
(* Small instances of the engine for TLC: the deliveries of one film or of *)
(* one series with two episodes, as the parsers of Events make them.       *)
(***************************************************************************)
EXTENDS EngineProperties

Film == MovieKey(603)
Show == TVKey(1399, 121361, 0, 0)
Ep1  == TVKey(1399, 121361, 1, 1)
Ep2  == TVKey(1399, 121361, 1, 2)

FilmKeys == {Film}
ShowKeys == {Show, Ep1, Ep2}

Overseerr(request, type, key) == OverseerrEvent("overseerr", request, type, key)
Nzb(d, event) == DownloadEvent("nzbget", d, event)
Sonarr(episodes, d, verb) ==
    LET events == SonarrEvents(1399, 121361, episodes, d, verb)
    IN  {events[i] : i \in DOMAIN events}

\* A request for the whole series that fails; the first episode is grabbed
\* twice, the second once, so that a grab may supersede another, land on the
\* request's trace or open an orphan, before and after its download starts.
ShowEvents ==
    {Overseerr("r1", "MEDIA_PENDING", Show),
     Overseerr("r1", "MEDIA_APPROVED", Show),
     Overseerr("r1", "MEDIA_FAILED", Show),
     Nzb("d1", "queue_added"), Nzb("d1", "post_processed"),
     Nzb("d2", "queue_added")}
    \cup Sonarr(<<<<1, 1>>>>, "d1", "grab")
    \cup Sonarr(<<<<1, 1>>>>, "d2", "grab")
    \cup Sonarr(<<<<1, 2>>>>, "d3", "grab")
    \cup Sonarr(<<<<1, 1>>>>, "d1", "import")
    \cup Sonarr(<<<<1, 1>>>>, "d1", "manual")

\* A season pack: one download, one grab for each of its episodes.
PackEvents ==
    {Overseerr("r1", "MEDIA_PENDING", Show), Nzb("d1", "queue_added")}
    \cup Sonarr(<<<<1, 1>>, <<1, 2>>>>, "d1", "grab")

\* A few events of a film.  They may come again once the deduplication has
\* forgotten them, so that the film has one attempt after another.
FilmCycle ==
    {Overseerr("r1", "MEDIA_PENDING", Film),
     Overseerr("r1", "MEDIA_AVAILABLE", Film),
     RadarrEvent(603, "d1", "grab"),
     Nzb("d1", "queue_added"), Nzb("d2", "queue_added")}

\* The same film when its request is left to the janitor, so that a grab may
\* join the request or come after it, as an orphan that the import closes.
FilmOrphan ==
    {Overseerr("r1", "MEDIA_PENDING", Film),
     RadarrEvent(603, "d1", "grab"), RadarrEvent(603, "d1", "import"),
     Nzb("d1", "queue_added"), Nzb("d2", "queue_added")}

DedupKeys == {DedupKeyOf(ev) : ev \in Event}

=============================================================================
