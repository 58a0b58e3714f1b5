------------------------------- MODULE Events -------------------------------
(***************************************************************************)
(* The vendor-agnostic events of internal/correlate/event.go, and the      *)
(* parsers of internal/source that make them from the payloads of          *)
(* Overseerr/Jellyseerr, Sonarr, Radarr, NZBGet and SABnzbd.  A payload is *)
(* the few of its fields that the correlation engine tells apart: ids,     *)
(* notification type, download id and episodes.  The time of an event      *)
(* (OccurredAt) is not a part of the record: the engine receives it next   *)
(* to the event, because the same payload may arrive at any time.          *)
(***************************************************************************)
EXTENDS Integers, Sequences

CONSTANT None   \* an absent value: an empty string, a nil pointer, no entry

-----------------------------------------------------------------------------
(* Media keys.  TMDB and TVDB are 0 when the payload has no such id. *)

MovieKey(tmdb) ==
    [Type |-> "movie", TMDB |-> tmdb, TVDB |-> 0, Season |-> 0, Episode |-> 0]

TVKey(tmdb, tvdb, season, episode) ==
    [Type |-> "tv", TMDB |-> tmdb, TVDB |-> tvdb,
     Season |-> season, Episode |-> episode]

\* The key of the whole series; a movie's key is its own series key.
SeriesKey(k) == [k EXCEPT !.Season = 0, !.Episode = 0]

Outcome == {"available", "failed", "declined", "timeout"}

Phase == {"request.opened", "request.approved", "request.closed", "arr.grab",
          "download.start", "download.done", "arr.import", "arr.manual"}

Source == {"overseerr", "jellyseerr", "sonarr", "radarr", "nzbget", "sabnzbd"}

-----------------------------------------------------------------------------
(* Overseerr and Jellyseerr. *)

OverseerrPhase ==
    [MEDIA_PENDING       |-> "request.opened",
     MEDIA_AUTO_APPROVED |-> "request.opened",
     MEDIA_APPROVED      |-> "request.approved",
     MEDIA_AVAILABLE     |-> "request.closed",
     MEDIA_FAILED        |-> "request.closed",
     MEDIA_DECLINED      |-> "request.closed"]

OverseerrOutcome(type) ==
    CASE type = "MEDIA_AVAILABLE" -> "available"
      [] type = "MEDIA_FAILED"    -> "failed"
      [] type = "MEDIA_DECLINED"  -> "declined"
      [] OTHER                    -> None

\* The event ids are those of the source: a string that joins the fields of
\* the tuple.  An empty download id still makes a non-empty event id.
OverseerrEvent(source, requestID, type, key) ==
    [Source |-> source, Phase |-> OverseerrPhase[type], Key |-> key,
     DownloadID |-> None, Outcome |-> OverseerrOutcome(type),
     EventID |-> <<requestID, type>>]

-----------------------------------------------------------------------------
(* Sonarr and Radarr.  "verb" is the word of the event id. *)

ArrPhase == [grab |-> "arr.grab", import |-> "arr.import", manual |-> "arr.manual"]

\* Only a Grab carries its download id as a field of the event; an import and
\* a manual interaction use it in the event id alone.
ReleaseID(downloadID, verb) == IF verb = "grab" THEN downloadID ELSE None

RadarrEvent(tmdb, downloadID, verb) ==
    [Source |-> "radarr", Phase |-> ArrPhase[verb], Key |-> MovieKey(tmdb),
     DownloadID |-> ReleaseID(downloadID, verb), Outcome |-> None,
     EventID |-> <<downloadID, verb>>]

\* One event per episode of the delivery, in the payload's order, all with
\* the same release.
SonarrEvents(tmdb, tvdb, episodes, downloadID, verb) ==
    [i \in DOMAIN episodes |->
        LET s == episodes[i][1]
            e == episodes[i][2]
        IN  [Source |-> "sonarr", Phase |-> ArrPhase[verb],
             Key |-> TVKey(tmdb, tvdb, s, e),
             DownloadID |-> ReleaseID(downloadID, verb), Outcome |-> None,
             EventID |-> <<downloadID, verb, s, e>>]]

-----------------------------------------------------------------------------
(* The download clients' scripts.  They know no media key. *)

NoKey == [Type |-> "", TMDB |-> 0, TVDB |-> 0, Season |-> 0, Episode |-> 0]

ScriptPhase == [queue_added |-> "download.start", post_processed |-> "download.done"]

\* The parser refuses a payload without a download id.
DownloadEvent(source, downloadID, event) ==
    [Source |-> source, Phase |-> ScriptPhase[event], Key |-> NoKey,
     DownloadID |-> downloadID, Outcome |-> None,
     EventID |-> <<downloadID, event>>]

-----------------------------------------------------------------------------
\* The string "source|eventID" under which a store remembers an event.
DedupKeyOf(ev) == <<ev.Source, ev.EventID>>

=============================================================================
