---------------------------- MODULE MotionControl ----------------------------
(***************************************************************************)
(* One command of the server against one driver: Homing, MoveTo,           *)
(* GetMovePar, Encode and CheckPositionEncoderSingle (CommandExecutor.c)   *)
(* over the register accesses of DriverFunction.c, composed with the       *)
(* program of the driver and its motor (module Firmware).                  *)
(*                                                                         *)
(* A command is a list of functions the command thread calls in turn, and  *)
(* a function a list of register accesses.  One access is one action, and  *)
(* any number of the driver's steps come between two accesses.             *)
(***************************************************************************)
EXTENDS Firmware, Sequences

CONSTANTS
  LIMITSTATUS_STATE,         \* attempts to read a status that lets go on
  POSITION_TOLERATED_ERROR,
  MaxFaults,                 \* bound: Modbus transactions that fail
  PromptFirmware             \* does SLEEPMODBUS outlast the main loop?

ASSUME LimitAssumption     == LIMITSTATUS_STATE \in Nat
ASSUME ToleranceAssumption == POSITION_TOLERATED_ERROR \in Nat
ASSUME FaultAssumption     == MaxFaults \in Nat
ASSUME PromptAssumption    == PromptFirmware \in BOOLEAN

VARIABLES
  todo,      \* the functions still to be called; the first is in execution
  left,      \* its register accesses still to be made
  count,     \* readings of status_state repeated so far
  seen,      \* current_position as last read; NoReading if that failed
  answer,    \* what the client was told last
  samples,   \* the pairs Encode has pushed
  faults,
  misread,   \* history: the function goes on because a reading failed
  astray     \* history: it so cleared the status of a busy driver

server  == <<todo, left, count, seen, answer, samples>>
history == <<misread, astray>>
vars    == <<driver, server, faults, history>>

NoReading == -2
NoAnswer  == [to |-> "nothing", result |-> 0]

Call(function, argument) == [name |-> function, arg |-> argument]

\* for (encode_position = 0; ...) MoveTo; wait; push the pair.
EncodeLoop ==
  [i \in 1 .. 2 * (MaxPosition + 1) |->
     Call(IF i % 2 = 1 THEN "MoveTo" ELSE "Sample", (i - 1) \div 2)]

\* What the branches of the dispatcher in Main.c call.
Commands ==
  { <<Call("Homing", 0), Call("GetMovePar", 0)>>,
    <<Call("GetMovePar", 0)>>,
    <<Call("CheckPositionEncoder", 0)>>,
    <<Call("Ready", 0)>> \o EncodeLoop }
  \cup { <<Call("MoveTo", x), Call("GetMovePar", 0)>> : x \in Positions }

\* The register accesses of each function.  "Ready" is the wait at the head
\* of Encode, "Sample" what its loop does after MoveTo.
Homing_KeepsStatus == <<"wait", "request">>
Homing == <<"wait", "clear", "request">>
MoveTo_RequestFirst == <<"wait", "clear", "request", "target">>
MoveTo == <<"wait", "clear", "target", "request">>
GetMovePar == <<"wait", "position", "analog">>
CheckPositionEncoder == <<"wait", "position", "analog">>
Sample_NoWait == <<"analog">>
Sample == <<"wait", "analog">>
Ready == <<"wait">>

Accesses ==
  [Homing |-> Homing, MoveTo |-> MoveTo, GetMovePar |-> GetMovePar,
   CheckPositionEncoder |-> CheckPositionEncoder, Ready |-> Ready,
   Sample |-> Sample]

Init ==
  /\ FirmwareInit
  /\ todo = <<>> /\ left = <<>> /\ count = 0
  /\ seen = NoReading /\ answer = NoAnswer /\ samples = <<>>
  /\ faults = 0
  /\ misread = FALSE /\ astray = FALSE

------------------------------------------------------------------------------
(* The control of the command thread. *)

Current == Head(todo)

\* The function returns and the next one starts; or, in the middle of
\* Encode's loop, the whole command ends.
Begin(calls) ==
  /\ todo' = calls
  /\ left' = IF calls = <<>> THEN <<>> ELSE Accesses[Head(calls).name]
  /\ count' = 0

Advance ==
  IF Len(left) = 1 THEN Begin(Tail(todo))
  ELSE left' = Tail(left) /\ count' = 0 /\ UNCHANGED todo

GiveUp ==
  Begin(IF Current.name \in {"Ready", "Sample"} THEN <<>> ELSE Tail(todo))

Answer(result) == answer' = [to |-> Current.name, result |-> result]

\* A Modbus transaction succeeds, or the request is lost, or the reply is;
\* the timeout of 50 ms makes the last two look alike.  The usleep after
\* every access lets the main loop of an idle driver pick a request up.
Transaction(access, outcome) ==
  /\ left # <<>> /\ Head(left) = access
  /\ PromptFirmware => ~Accepts
  /\ IF outcome = "done" THEN UNCHANGED faults
     ELSE /\ faults < MaxFaults /\ faults' = faults + 1

Outcomes == {"done", "lostRequest", "lostReply"}

StartCommand ==
  /\ todo = <<>>
  /\ \E calls \in Commands : Begin(calls)
  /\ answer' = NoAnswer /\ samples' = <<>> /\ seen' = NoReading
  /\ misread' = FALSE
  /\ UNCHANGED <<driver, faults, astray>>

------------------------------------------------------------------------------
(* Register accesses. *)

\* ReadStatusState returns 0 when it fails, and no caller looks at its rc.
StatusRead(outcome) == IF outcome = "done" THEN status_state ELSE 0

LetsGoOn_WhileStopping(status) == status \in {0, 3, 4, 5}
LetsGoOn(status) == status \in {0, 4, 5}

\* The wait loop at the head of every function.  Its last reading is thrown
\* away: the function gives up even if that reading lets it go on.
GivenUp_OneLater == count = LIMITSTATUS_STATE + 1
GivenUp == count = LIMITSTATUS_STATE

ReadStatus(outcome) ==
  /\ Transaction("wait", outcome)
  /\ LET status == StatusRead(outcome)
     IN  IF ~LetsGoOn(status) /\ ~GivenUp
           THEN /\ count' = count + 1
                /\ UNCHANGED <<todo, left, seen, answer, misread>>
           ELSE /\ misread' = (outcome # "done")
                /\ IF GivenUp
                     THEN /\ GiveUp
                          /\ CASE Current.name = "CheckPositionEncoder" -> Answer(status)
                               [] Current.name = "GetMovePar" -> Answer(-2)
                               [] OTHER -> UNCHANGED answer
                     ELSE Advance /\ UNCHANGED answer
                /\ UNCHANGED seen
  /\ UNCHANGED <<driver, samples, astray>>

\* The three writes.  A function whose write fails returns.
Write(outcome) ==
  /\ IF outcome = "done" THEN Advance ELSE GiveUp
  /\ UNCHANGED <<seen, answer, samples, misread>>

ClearStatus(outcome) ==
  /\ Transaction("clear", outcome)
  /\ Write(outcome)
  /\ IF outcome = "lostRequest"
       THEN UNCHANGED <<status_state, astray>>
       ELSE /\ status_state' = 0
            /\ astray' = (astray \/ (misread /\ status_state \in 1 .. 3))
  /\ UNCHANGED <<block, request_state, state, home_done, count_TargetPos,
                 motion, motor>>

WriteTarget(outcome) ==
  /\ Transaction("target", outcome)
  /\ Write(outcome)
  /\ count_TargetPos' =
       IF outcome = "lostRequest" THEN count_TargetPos ELSE Current.arg
  /\ UNCHANGED <<block, status_state, request_state, state, home_done,
                 motion, motor, astray>>

WriteRequest(outcome) ==
  /\ Transaction("request", outcome)
  /\ Write(outcome)
  /\ request_state' = CASE outcome = "lostRequest"  -> request_state
                        [] Current.name = "Homing" -> HOMING
                        [] OTHER                    -> MOVEREL
  /\ UNCHANGED <<block, status_state, state, home_done, count_TargetPos,
                 motion, motor, astray>>

ReadPosition(outcome) ==
  /\ Transaction("position", outcome)
  /\ Advance
  /\ seen' = IF outcome = "done" THEN Position ELSE NoReading
  /\ UNCHANGED <<driver, answer, samples, history>>

\* slope * position + intercept, with the slope of the real slit.
Estimate(position) == position + EncoderOffset

Distance(a, b) == IF a < b THEN b - a ELSE a - b

\* 0, or -1 if counter and encoder disagree.
Verdict_Unsigned(analog) ==
  IF Estimate(seen) - analog > POSITION_TOLERATED_ERROR THEN -1 ELSE 0

Verdict(analog) ==
  IF Distance(Estimate(seen), analog) > POSITION_TOLERATED_ERROR THEN -1 ELSE 0

\* The last access: the answer, or the next pair of Encode.  A sample that
\* could not be read ends Encode, which then discards what it has.
ReadAnalog(outcome) ==
  /\ Transaction("analog", outcome)
  /\ LET failed == outcome # "done"
     IN  CASE Current.name = "Sample" ->
                /\ IF failed THEN GiveUp ELSE Advance
                /\ samples' = IF failed THEN <<>>
                              ELSE Append(samples, [x |-> Current.arg,
                                                    y |-> AnalogInput0])
                /\ UNCHANGED answer
           [] Current.name = "GetMovePar" ->
                /\ Advance
                /\ Answer(IF failed \/ seen = NoReading THEN -2 ELSE 0)
                /\ UNCHANGED samples
           [] OTHER ->
                /\ Advance
                /\ Answer(IF failed \/ seen = NoReading THEN -2
                          ELSE Verdict(AnalogInput0))
                /\ UNCHANGED samples
  /\ UNCHANGED <<driver, seen, history>>

Access ==
  \E outcome \in Outcomes :
    \/ ReadStatus(outcome) \/ ClearStatus(outcome) \/ WriteTarget(outcome)
    \/ WriteRequest(outcome) \/ ReadPosition(outcome) \/ ReadAnalog(outcome)

DriverStep == Driver /\ UNCHANGED <<server, faults, history>>

Next == StartCommand \/ Access \/ DriverStep

Spec == Init /\ [][Next]_vars

\* The command thread runs on, the driver executes its program, and a motor
\* that is told to turn, or to stop, does.  Clients need not send commands,
\* and no transaction need fail.
FairSpec ==
  /\ Spec
  /\ WF_vars(Access)
  /\ WF_vars(Blocks /\ UNCHANGED <<server, faults, history>>)
  /\ WF_vars(Rotate /\ UNCHANGED <<server, faults, history>>)
  /\ WF_vars(Rest /\ UNCHANGED <<server, faults, history>>)

------------------------------------------------------------------------------
(* Properties.  A failed reading of status_state passes for standby, so most *)
(* of them hold only of functions that were not misled that way.             *)

TypeOK ==
  /\ DriverTypeOK
  /\ todo = <<>> <=> left = <<>>
  /\ \A i \in 1 .. Len(todo) : todo[i].name \in DOMAIN Accesses
  /\ Len(left) <= 4
  /\ count \in 0 .. LIMITSTATUS_STATE
  /\ seen \in Counts \cup {NoReading}
  /\ answer.result \in -2 .. 5
  /\ Len(samples) <= MaxPosition + 1
  /\ faults \in 0 .. MaxFaults
  /\ {misread, astray} \subseteq BOOLEAN

\* doc_firmware.txt 27-57: STATUS_STATE goes from standby through start,
\* running and stopping to concluded, and only the server, which must not
\* interrupt a state in execution, takes it back to standby.
Sequence == { <<0, 1>>, <<1, 2>>, <<2, 3>>, <<3, 5>>, <<4, 0>>, <<5, 0>> }

StatusSequence ==
  [][ ~astray' => <<status_state, status_state'>> \in Sequence ]_status_state

\* Since the first homing the counter tells the real opening, whatever
\* commands come in whatever order (firmware, stopMotor and checkMoveDone).
HomedMeansCalibrated ==
  home_done = 31 /\ state # HOMING /\ ~slipped /\ ~astray => Position = opening

\* A state concluded with 5 did what was asked: homing closed the slit, and a
\* movement after it stands at the target the server wrote last (firmware,
\* stopMotor and checkMoveDone; MoveTo writes the target before the request).
ConcludedMeansArrived ==
  [][ status_state = 3 /\ status_state' = 5 /\ ~astray =>
        /\ state = HOMING => opening = 0
        /\ state = MOVEREL /\ home_done = 31 /\ ~slipped =>
             opening = count_TargetPos ]_status_state

\* A position check that compares tells whether counter and encoder agree
\* now, not at some moment between its two readings.
CheckTellsTheTruth ==
  [][ answer'.to = "CheckPositionEncoder" /\ answer'.result \in {-1, 0}
        /\ ~GivenUp /\ ~misread /\ ~astray =>
      ( answer'.result = -1 <=>
          Distance(Estimate(Position), AnalogInput0) > POSITION_TOLERATED_ERROR )
    ]_answer

\* The pairs Encode collects on a homed slit lie on the line of the encoder
\* as long as no transaction fails (Encode, MoveTo and the wait between).
PairsOnTheLine ==
  faults = 0 /\ home_done = 31 /\ ~slipped =>
    \A i \in 1 .. Len(samples) : samples[i].y = Estimate(samples[i].x)

\* A request that reached the driver is accepted, and the state it asks for
\* concluded (MoveTo and Homing clear the status first; firmware, mainLoop to
\* checkMoveDone).
RequestIsExecuted ==
  /\ request_state # 0 ~> state # 0 \/ astray
  /\ state # 0 ~> status_state = 5 \/ astray
==============================================================================
