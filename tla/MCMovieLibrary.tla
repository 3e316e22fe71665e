---------------------------- MODULE MCMovieLibrary ----------------------------
(* Three Radarr instances: the primary "fr" and the alternate "en" with      *)
(* symlinks, the alternate "de" with hardlinks.                              *)
EXTENDS MovieLibrary

MCConfig == <<"fr", "en", "de">>
MCLanguage == [i \in {"fr", "en", "de"} |-> i]

\* The primary finds a trilingual, a bilingual and an untagged file, the
\* alternates one in their language each; e2 is mislabelled.
MCReleases == {"f1", "f2", "f3", "e1", "e2", "d1"}
MCHolder == [r \in MCReleases |->
  CASE r \in {"f1", "f2", "f3"} -> "fr" [] r \in {"e1", "e2"} -> "en" [] OTHER -> "de"]
MCAudio == [r \in MCReleases |->
  CASE r = "f1" -> {"fr", "en", "de"} [] r = "f2" -> {"fr", "de"} [] r = "f3" -> {}
    [] r = "e1" -> {"en"} [] r = "e2" -> {"fr"} [] OTHER -> {"de"}]

\* Two releases of the same name cannot be in one mirror.
MCFileName == [r \in MCReleases |-> IF r \in {"f2", "d1"} THEN "hd" ELSE r]
=============================================================================
