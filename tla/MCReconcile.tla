----------------------------- MODULE MCReconcile -----------------------------
(* The primary "fr" and the alternate "en" with releases of one episode, of  *)
(* which both may have the one named e1.                                     *)
EXTENDS Reconcile

MCConfig == <<"fr", "en">>
MCLanguage == [i \in {"fr", "en"} |-> i]
MCNames == {"f1", "f2", "e1"}
MCEpisode == [n \in MCNames |-> 1]
MCMarker == MCEpisode

MCAudio == [i \in {"fr", "en"} |-> [n \in MCNames |->
  CASE i = "fr" /\ n \in {"f1", "e1"} -> {{"fr", "en"}}
    [] i = "fr" /\ n = "f2" -> {{}}
    [] i = "en" /\ n = "e1" -> {{"en"}, {"fr"}}
    [] OTHER -> {}]]
=============================================================================
