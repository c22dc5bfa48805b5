---------------------------- MODULE MCDispatcher -----------------------------
(* A line of each kind of command, with the drivers 1 and 2, for the model checker. *)
EXTENDS Dispatcher

CONSTANTS c1, c2

MCClients == {c1, c2}

MCLines ==
  { [name |-> "check_position", args |-> <<2>>],
    [name |-> "moveto_mult", args |-> <<5, 2>>],
    [name |-> "setmult_par", args |-> <<5, 5, 5, 5, 5, 5, 2, 1>>] }
  \cup { [name |-> name, args |-> <<>>] :
           name \in {"exit", "check_drv_assoc", "connect",
                     "get_all_parameter", "load_encoder_from_file", "y"} }
==============================================================================
