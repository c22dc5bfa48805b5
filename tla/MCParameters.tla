---------------------------- MODULE MCParameters -----------------------------
(***************************************************************************)
(* Two drivers whose registers all differ, and a list whose numbers are    *)
(* zero, beyond a limit, or change value or sign in sixteen bits.          *)
(***************************************************************************)
EXTENDS Parameters

MCRegisters == {Parameter[i] : i \in 1 .. 6} \cup {"SerialNumber"}

MCFactory ==
  [d \in Drivers |->
     [reg \in MCRegisters |->
        CASE reg = "MaxVel" -> 100 * d
          [] reg = "VelHome" -> 65536 - 50 * d
          [] reg = "Acceleration" -> 1000 * d
          [] reg = "Deceleration" -> 1100 * d
          [] reg = "PhaseCurrent" -> 10 + d
          [] reg = "AnalogOutput0" -> d
          [] OTHER -> 4000 + d]]

MCInputs == { <<70000, 40000, 0, 65536, 18, 1500>> }
==============================================================================
