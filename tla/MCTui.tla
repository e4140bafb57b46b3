--------------------------------- MODULE MCTui ---------------------------------
(* A small session of Tui for TLC. *)
EXTENDS Tui

CONSTANTS a1, a2, s1, s2

TwoApplications == <<a1, a2>>
OneApplication  == {a1}
TwoSystems == <<s1, s2>>
OneSystem  == {s1}

===============================================================================
