-------------------------- MODULE MCEpisodeLibrary --------------------------
(* Two Sonarr instances, the primary "fr" and the alternate "en", and a few  *)
(* files of one episode, next to one file of another.                        *)
EXTENDS EpisodeLibrary

MCConfig == <<"fr", "en">>
MCLanguage == [i \in {"fr", "en"} |-> i]

MCNames == {"f1", "f2", "e1", "g1"}
MCEpisode == [n \in MCNames |-> IF n = "g1" THEN 2 ELSE 1]
MCMarker == MCEpisode

\* The primary finds bilingual, French and untagged files; the alternate finds
\* English ones, and once a mislabelled French one.
MCAudio == [i \in {"fr", "en"} |-> [n \in MCNames |->
  CASE i = "fr" /\ n = "f1" -> {{"fr", "en"}, {"fr"}}
    [] i = "fr" /\ n = "f2" -> {{"fr", "en"}, {}}
    [] i = "en" /\ n = "e1" -> {{"en"}, {"fr"}}
    [] OTHER -> {}]]

\* Both instances find the same release, under its one name.
MCSharedAudio == [MCAudio EXCEPT !["fr"]["e1"] = {{"fr", "en"}}]

\* And the primary finds the next episode.
MCSeasonAudio == [MCSharedAudio EXCEPT !["fr"]["g1"] = {{"fr", "en"}}]
=============================================================================
