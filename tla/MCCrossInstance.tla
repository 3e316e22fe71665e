--------------------------- MODULE MCCrossInstance ---------------------------
(* A French primary and its siblings: a German one that cannot take titles,  *)
(* a second French one that reports no statistics, a Spanish and an English. *)
EXTENDS CrossInstance

MCConfig == <<"de", "fr", "es", "en">>
MCLanguage == [s \in {"de", "fr", "es", "en"} |-> s]
MCUnusable == {"de"}
MCSilent == {"fr"}
MCAudio == {{"fr"}, {"fr", "en"}}
=============================================================================
