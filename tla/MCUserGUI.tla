------------------------------ MODULE MCUserGUI -------------------------------
(* What the server may say of a slit, for the model checker. *)
EXTENDS UserGUI

\* In its place (0), somewhere else (-1), or blocked in a state (6).
MCStatuses == {0, -1, 6}
==============================================================================
