------------------------------ MODULE Firmware -------------------------------
(***************************************************************************)
(* The program of one slit driver (Firmware_Slits_AI0_3.txt) and the motor *)
(* it drives.  The program is a loop over numbered blocks; "block" is the  *)
(* block executed next, and a called routine is one action.  Registers are *)
(* shared with the Modbus master, which writes status_state, request_state *)
(* and count_TargetPos between any two blocks (module MotionControl).      *)
(*                                                                         *)
(* Positions are counted from the closed slit in steps of one; the encoder *)
(* read on AnalogInput(0) follows the real opening of the slit.            *)
(***************************************************************************)
EXTENDS Integers

CONSTANTS
  MaxPosition,    \* bound: the slit is fully open
  EncoderOffset   \* what the encoder reads at the closed slit

ASSUME TravelAssumption == MaxPosition \in Nat /\ EncoderOffset \in Nat

HOMING  == 4     \* state_homing, STATEHOMING in the server
MOVEREL == 17    \* state_moveRel, STATEMOVEREL in the server
Positions == 0 .. MaxPosition
Counts    == -1 .. MaxPosition    \* bound: homing is counted down to -1 only

VARIABLES
  block,            \* "loop", "init", "rotation", "stop" or "done"
  status_state,     \* 0 standby 1 start 2 running 3 stopping 4/5 concluded
  request_state,    \* 0, HOMING or MOVEREL
  state,            \* the state in execution, 0 if none
  home_done,        \* 30, and 31 once a homing was executed
  ismoving_flag,
  prev_analoginput0,
  count_TargetPos,
  ControlMode,      \* 0 position control, 1 velocity control
  RefVel,           \* 0 or 1: is a velocity commanded?
  TargetPos,
  Position,         \* the step counter of the drive
  bEnable,
  spinning,         \* external: the motor turns (the drive's bInStop = 0)
  opening,          \* external: the real opening of the slit
  advanced,         \* external: the motor turned since the last sample
  slipped           \* external: it lost a step since the last homing

registers == <<status_state, request_state, state, home_done, count_TargetPos>>
motion    == <<ismoving_flag, prev_analoginput0, ControlMode, RefVel,
               TargetPos, bEnable>>
motor     == <<Position, spinning, opening, advanced, slipped>>
driver    == <<block, registers, motion, motor>>

\* AnalogInput(0)
AnalogInput0 == opening + EncoderOffset

\* The bitwise AND of two numbers below 32.
Bit(n, weight) == (n \div weight) % 2
And(a, b) ==
  LET both(weight) == weight * Bit(a, weight) * Bit(b, weight)
  IN  both(1) + both(2) + both(4) + both(8) + both(16)

\* Blocks 1 to 5 and 50 to 53: power up, with the slit anywhere.
FirmwareInit ==
  /\ block = "loop"
  /\ status_state = 0 /\ request_state = 0 /\ state = 0
  /\ home_done = 30
  /\ ismoving_flag = 0 /\ prev_analoginput0 = 0
  /\ count_TargetPos = MaxPosition
  /\ ControlMode = 0 /\ RefVel = 0 /\ TargetPos = 0 /\ Position = 0
  /\ bEnable = FALSE
  /\ spinning = FALSE /\ advanced = FALSE /\ slipped = FALSE
  /\ opening \in Positions

------------------------------------------------------------------------------
(* Blocks 6 to 17: the main loop accepts a request only in standby. *)

\* request_state AND home_done: with home_done = 30 the even states pass.
req_log_state == And(request_state, home_done)

Accepts == status_state = 0 /\ req_log_state # 0

Loop ==
  /\ block = "loop"
  /\ IF Accepts
       THEN status_state' = 1 /\ state' = request_state /\ request_state' = 0
       ELSE UNCHANGED <<status_state, state, request_state>>
  /\ block' = IF state' \in {HOMING, MOVEREL} THEN "init" ELSE "loop"
  /\ UNCHANGED <<home_done, count_TargetPos, motion, motor>>

\* Blocks 20 and 25 to 31.
initMov ==
  /\ block = "init" /\ block' = "rotation"
  /\ IF status_state = 1
       THEN /\ ControlMode' = IF state = HOMING THEN 1 ELSE 0
            /\ prev_analoginput0' = 0 /\ ismoving_flag' = 0
            /\ bEnable' = TRUE
            /\ status_state' = 2
            /\ RefVel' = IF state = HOMING THEN 1 ELSE RefVel
            /\ TargetPos' = IF state = MOVEREL THEN count_TargetPos ELSE TargetPos
            /\ advanced' = FALSE
       ELSE UNCHANGED <<status_state, motion, advanced>>
  /\ UNCHANGED <<request_state, state, home_done, count_TargetPos,
                 Position, spinning, opening, slipped>>

\* Is the motor commanded to turn?  At the target, or with RefVel = 0, it is
\* not; a closed slit does not stop a motor that homes, it slips.
Commanded ==
  bEnable /\ IF ControlMode = 1 THEN RefVel # 0 ELSE Position # TargetPos

\* Blocks 21 and 32 to 36: within the 50 ms the routine waits, a motor that
\* is commanded to turn has turned.
checkRotation ==
  /\ block = "rotation" /\ block' = "stop"
  /\ IF status_state = 2
       THEN /\ advanced \/ ~Commanded
            /\ ismoving_flag' = IF AnalogInput0 # prev_analoginput0 THEN 1 ELSE 0
            /\ prev_analoginput0' = AnalogInput0
            /\ advanced' = FALSE
       ELSE UNCHANGED <<ismoving_flag, prev_analoginput0, advanced>>
  /\ UNCHANGED <<registers, ControlMode, RefVel, TargetPos, bEnable,
                 Position, spinning, opening, slipped>>

\* Blocks 22 and 37 to 42.  home_done is set even while the motor still turns.
stopMotor ==
  /\ block = "stop" /\ block' = "done"
  /\ IF ismoving_flag = 0
       THEN /\ RefVel' = 0
            /\ TargetPos' = IF spinning THEN Position ELSE TargetPos
            /\ status_state' = IF spinning THEN status_state ELSE 3
            /\ bEnable' = (bEnable /\ spinning)
            /\ home_done' = IF state = HOMING THEN 31 ELSE home_done
       ELSE UNCHANGED <<RefVel, TargetPos, status_state, bEnable, home_done>>
  /\ UNCHANGED <<request_state, state, count_TargetPos, ismoving_flag,
                 prev_analoginput0, ControlMode, motor>>

\* Blocks 23, 24 and 43 to 46: a concluded homing is the new origin.
checkMoveDone_KeepsPosition ==
  /\ block = "done" /\ block' = "loop"
  /\ IF status_state = 3
       THEN status_state' = 5 /\ state' = 0
       ELSE UNCHANGED <<status_state, state>>
  /\ UNCHANGED <<request_state, home_done, count_TargetPos, motion, motor>>

checkMoveDone ==
  /\ block = "done" /\ block' = "loop"
  /\ IF status_state = 3
       THEN /\ Position' = IF state = HOMING THEN 0 ELSE Position
            /\ TargetPos' = IF state = HOMING THEN 0 ELSE TargetPos
            /\ status_state' = 5
            /\ state' = 0
            /\ slipped' = (slipped /\ state # HOMING)
       ELSE UNCHANGED <<Position, TargetPos, status_state, state, slipped>>
  /\ UNCHANGED <<request_state, home_done, count_TargetPos, ismoving_flag,
                 prev_analoginput0, ControlMode, RefVel, bEnable,
                 spinning, opening, advanced>>

Blocks == Loop \/ initMov \/ checkRotation \/ stopMotor \/ checkMoveDone

------------------------------------------------------------------------------
(* The motor, external to the program: it turns one step at a time. *)

Toward(from, to) == IF from < to THEN from + 1 ELSE from - 1
Clamp(p) == IF p < 0 THEN 0 ELSE IF p > MaxPosition THEN MaxPosition ELSE p
Down(p)  == IF p > -1 THEN p - 1 ELSE p

\* Position control moves the slit and the counter alike, until the slit
\* meets an end; velocity control closes the slit and then slips.
Rotate ==
  /\ Commanded
  /\ spinning' = TRUE /\ advanced' = TRUE
  /\ IF ControlMode = 1
       THEN /\ opening' = Clamp(opening - 1)
            /\ Position' = Down(Position)
       ELSE /\ Position' = Toward(Position, TargetPos)
            /\ opening' = Clamp(opening + Position' - Position)
  /\ UNCHANGED <<block, registers, motion, slipped>>

\* An obstacle in the way of a movement: the counter advances, the slit does
\* not.  Bound: once between two homings.
Slip ==
  /\ Commanded /\ ControlMode = 0 /\ ~slipped
  /\ spinning' = TRUE /\ advanced' = TRUE /\ slipped' = TRUE
  /\ Position' = Toward(Position, TargetPos)
  /\ UNCHANGED <<block, registers, motion, opening>>

\* A motor that is no longer commanded comes to rest (bInStop = 1).
Rest ==
  /\ spinning /\ ~Commanded
  /\ spinning' = FALSE
  /\ UNCHANGED <<block, registers, motion, Position, opening, advanced, slipped>>

Driver == Blocks \/ Rotate \/ Slip \/ Rest

DriverTypeOK ==
  /\ block \in {"loop", "init", "rotation", "stop", "done"}
  /\ status_state \in 0 .. 5
  /\ request_state \in {0, HOMING, MOVEREL}
  /\ state \in {0, HOMING, MOVEREL}
  /\ home_done \in {30, 31}
  /\ ismoving_flag \in {0, 1}
  /\ prev_analoginput0 \in Nat
  /\ count_TargetPos \in Positions
  /\ ControlMode \in {0, 1}
  /\ RefVel \in {0, 1}
  /\ TargetPos \in Counts
  /\ Position \in Counts
  /\ opening \in Positions
  /\ {bEnable, spinning, advanced, slipped} \subseteq BOOLEAN
==============================================================================
