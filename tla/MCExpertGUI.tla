----------------------------- MODULE MCExpertGUI ------------------------------
(* What the position check may find, for the model checker. *)
EXTENDS ExpertGUI

\* Every driver somewhere else than its encoder value says.  The label has two
\* statuses to tell apart: a server without a programmer answers -2.
MCFindings == {-1}
==============================================================================
