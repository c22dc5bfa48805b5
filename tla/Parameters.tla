----------------------------- MODULE Parameters ------------------------------
(***************************************************************************)
(* The commands that read and write the parameters of the drivers: GetPar, *)
(* SetPar, SetParMult and the reading loops of the association checks      *)
(* (CommandExecutor.c) over the register functions of DriverFunction.c,    *)
(* composed with the Modbus link.                                          *)
(*                                                                         *)
(* A command is a list of the calls the command thread makes; every call   *)
(* of the link is one action, and replies arrive in between.               *)
(***************************************************************************)
EXTENDS ModbusLink

CONSTANTS
  Asked,        \* the driver numbers a client may name
  Inputs,       \* the parameter lists a client may send, six integers each
  MaxCommands   \* bound: commands

ASSUME InputAssumption ==
  /\ Asked \subseteq Nat /\ MaxCommands \in Nat
  /\ Inputs \subseteq [1 .. 6 -> Int]

VARIABLES
  todo,         \* the calls still to be made; the first is next
  got,          \* what the readings and writings of the command returned
  answer,       \* what the client was told last
  commands,     \* bound: commands so far
  asked         \* history: the words a set_par stands for; forgotten when a
                \* reply to an earlier request may have confirmed a writing

vars == <<link, todo, got, answer, commands, asked>>

\* The order in which the parameters are read and written.
Parameter ==
  <<"MaxVel", "VelHome", "Acceleration", "Deceleration", "PhaseCurrent", "AnalogOutput0">>

ASSUME RegisterAssumption ==
  {Parameter[i] : i \in 1 .. 6} \cup {"SerialNumber"} \subseteq Registers

------------------------------------------------------------------------------
(* What SetPar makes of an integer of the command: a cast to sixteen bits,  *)
(* then the limits of the driver.                                           *)

uint16_t(v) == v % 65536
int16_t(v) == ((v + 32768) % 65536) - 32768

AtMost(v, limit)  == IF v > limit THEN limit ELSE v
AtLeast(v, limit) == IF v < limit THEN limit ELSE v
NotZero(v)        == IF v = 0 THEN 1 ELSE v

MAXVEL          == 12000
MAXVELHOME      == 1000
MINVELHOME      == -1000
MAXACCELERATION == 30000
MAXDECELERATION == 30000
MAXPHASECURRENT == 17
MINPHASECURRENT == 10
MAXANALOGOUTPUT0 == 1023

max_vel(v)        == NotZero(AtMost(uint16_t(v), MAXVEL))
vel_home_OneSide(v) == AtMost(int16_t(v), MAXVELHOME)
vel_home(v)       == AtLeast(AtMost(int16_t(v), MAXVELHOME), MINVELHOME)
acceleration(v)   == NotZero(AtMost(uint16_t(v), MAXACCELERATION))
deceleration(v)   == NotZero(AtMost(uint16_t(v), MAXDECELERATION))
phase_current(v)  == AtLeast(AtMost(uint16_t(v), MAXPHASECURRENT), MINPHASECURRENT)
analog_output0(v) == AtMost(uint16_t(v), MAXANALOGOUTPUT0)

\* The words written: vel_home goes into an unsigned register.
Wanted_Signed(input) ==
  << max_vel(input[1]), vel_home(input[2]), acceleration(input[3]),
     deceleration(input[4]), phase_current(input[5]), analog_output0(input[6]) >>

Wanted(input) ==
  << max_vel(input[1]), uint16_t(vel_home(input[2])), acceleration(input[3]),
     deceleration(input[4]), phase_current(input[5]), analog_output0(input[6]) >>

------------------------------------------------------------------------------
(* The calls. *)

Call(do, slave, reg, word) == [do |-> do, slave |-> slave, reg |-> reg, word |-> word]

Flush == Call("flush", 0, "none", 0)
Conclude(command, slave) == Call(command, slave, "none", 0)
Read(slave, reg)         == Call("read", slave, reg, 0)
Write(slave, reg, word)  == Call("write", slave, reg, word)

\* A driver number modbus_set_slave refuses is an error, and nothing is sent.
Selected(slave, calls) ==
  IF modbus_set_slave(slave) THEN calls ELSE <<Call("refused", slave, "none", 0)>>

ReadMaxVel(slave)        == Read(slave, "MaxVel")
ReadVelHome(slave)       == Read(slave, "VelHome")
ReadAcceleration(slave)  == Read(slave, "Acceleration")
ReadDeceleration(slave)  == Read(slave, "Deceleration")
ReadPhaseCurrent(slave)  == Read(slave, "PhaseCurrent")
ReadAnalogOutput0(slave) == Read(slave, "AnalogOutput0")
ReadSerialNumber(slave)  == Read(slave, "SerialNumber")

SetMaxVel(slave, word)        == Write(slave, "MaxVel", word)
SetVelHome(slave, word)       == Write(slave, "VelHome", word)
SetAcceleration(slave, word)  == Write(slave, "Acceleration", word)
SetDeceleration(slave, word)  == Write(slave, "Deceleration", word)
SetPhaseCurrent(slave, word)  == Write(slave, "PhaseCurrent", word)
SetAnalogOutput0(slave, word) == Write(slave, "AnalogOutput0", word)

Readings(slave) ==
  << ReadMaxVel(slave), ReadVelHome(slave), ReadAcceleration(slave),
     ReadDeceleration(slave), ReadPhaseCurrent(slave), ReadAnalogOutput0(slave) >>

Writings(slave, w) ==
  << SetMaxVel(slave, w[1]), SetVelHome(slave, w[2]), SetAcceleration(slave, w[3]),
     SetDeceleration(slave, w[4]), SetPhaseCurrent(slave, w[5]), SetAnalogOutput0(slave, w[6]) >>

GetPar(slave) == <<Flush>> \o Selected(slave, Readings(slave)) \o <<Conclude("getpar", slave)>>

SetPar(slave, input) ==
  <<Flush>> \o Selected(slave, Writings(slave, Wanted(input))) \o <<Conclude("setpar", slave)>>

\* setmult_par calls SetParMult, which does what SetPar does, for each driver.
\* Bound: for two drivers.
SetParMult(slaves, input) == SetPar(slaves[1], input) \o SetPar(slaves[2], input)

\* CheckDrvAssoc asks every driver for its serial number; one flush for all.
\* Bound: there are two.
CheckDrvAssoc == <<Flush, ReadSerialNumber(1), ReadSerialNumber(2), Conclude("serials", 0)>>

\* CheckParAssoc asks them for the six parameters in the same way.
CheckParAssoc == <<Flush>> \o Readings(1) \o Readings(2) \o <<Conclude("parameters", 0)>>

------------------------------------------------------------------------------
(* The command thread. *)

NoAnswer == [to |-> "nobody", slave |-> 0, got |-> <<>>]

Init ==
  /\ LinkInit
  /\ todo = <<>> /\ got = <<>> /\ answer = NoAnswer
  /\ commands = 0
  /\ asked = <<>>

AllOkay_LastOnly == got # <<>> /\ got[Len(got)].ok
AllOkay == \A i \in 1 .. Len(got) : got[i].ok

\* A command starts only while the programmer is connected; otherwise its
\* answer is -1 for every parameter.
Execute(calls, words) ==
  /\ todo = <<>> /\ commands < MaxCommands
  /\ commands' = commands + 1
  /\ todo' = IF STATE_CONNECT THEN calls ELSE <<>>
  /\ answer' = NoAnswer /\ got' = <<>>
  /\ asked' = words
  /\ UNCHANGED link

get_par(slave) == Execute(GetPar(slave), <<>>)
set_par(slave, input) == Execute(SetPar(slave, input), Wanted(input))
setmult_par(slaves, input) == Execute(SetParMult(slaves, input), Wanted(input))
check_drv_assoc == Execute(CheckDrvAssoc, <<>>)
check_par_assoc == Execute(CheckParAssoc, <<>>)

StartCommand ==
  \/ \E slave \in Asked :
       \/ get_par(slave)
       \/ \E input \in Inputs : set_par(slave, input)
  \/ \E slaves \in Asked \X Asked, input \in Inputs : setmult_par(slaves, input)
  \/ check_drv_assoc
  \/ check_par_assoc

connect ==
  /\ todo = <<>>
  /\ \E opened \in modbus_new_rtu : Connect(opened)
  /\ UNCHANGED <<todo, got, answer, commands, asked>>

Doing(what) == todo # <<>> /\ Head(todo).do = what
Next1 == todo' = Tail(todo)

FlushPort ==
  /\ Doing("flush")
  /\ modbus_flush
  /\ Next1
  /\ got' = <<>>
  /\ UNCHANGED <<answer, commands, asked>>

Refused ==
  /\ Doing("refused")
  /\ Next1
  /\ got' = <<[ok |-> FALSE, word |-> 0, slave |-> Head(todo).slave, reg |-> "none"]>>
  /\ UNCHANGED <<link, answer, commands, asked>>

Send ==
  /\ Doing("read") \/ Doing("write")
  /\ LET call == Head(todo)
     IN  \E fate \in Fates :
           send_msg(build_request_basis(call.slave, IF call.do = "read" THEN READ ELSE WRITE,
                                        call.reg, call.word), fate)
  /\ UNCHANGED <<todo, got, answer, commands, asked>>

\* The reply is waited for; a failed access does not stop the next one.
Receive ==
  /\ Doing("read") \/ Doing("write")
  /\ receive_msg
  /\ got' = Append(got, [ok |-> result'.ok, word |-> result'.word,
                         slave |-> request.slave, reg |-> request.reg])
  /\ Next1
  /\ asked' = IF missed THEN <<>> ELSE asked
  /\ UNCHANGED <<answer, commands>>

\* The end of GetPar: one failure, and no parameter is reported.
Reported(slave) ==
  [to |-> "getpar", slave |-> slave, got |-> IF AllOkay THEN got ELSE <<>>]

ReportParameters ==
  /\ Doing("getpar")
  /\ answer' = Reported(Head(todo).slave)
  /\ Next1
  /\ UNCHANGED <<link, got, commands, asked>>

\* The end of SetPar: what the driver now holds is read back, unless one of
\* the writings failed.
ReadBack ==
  /\ Doing("setpar")
  /\ LET slave == Head(todo).slave
     IN  IF AllOkay
           THEN todo' = GetPar(slave) \o Tail(todo) /\ UNCHANGED answer
           ELSE Next1 /\ answer' = [to |-> "getpar", slave |-> slave, got |-> <<>>]
  /\ UNCHANGED <<link, got, commands, asked>>

\* The checks show what each driver answered, or that it was not found: one
\* failed reading is enough for that.
Found(a) == \A i \in 1 .. Len(got) : got[i].slave = a.slave => got[i].ok
NotFound(a) == [a EXCEPT !.ok = FALSE, !.word = 0]

ReportAll ==
  /\ Doing("serials") \/ Doing("parameters")
  /\ answer' = [to |-> Head(todo).do, slave |-> 0,
                got |-> [i \in 1 .. Len(got) |->
                           IF Found(got[i]) THEN got[i] ELSE NotFound(got[i])]]
  /\ Next1
  /\ UNCHANGED <<link, got, commands, asked>>

CommandThread ==
  FlushPort \/ Refused \/ Send \/ Receive \/ ReportParameters \/ ReadBack \/ ReportAll

ReplyArrives == Arrive /\ UNCHANGED <<todo, got, answer, commands, asked>>

Next == StartCommand \/ connect \/ CommandThread \/ ReplyArrives

Spec == Init /\ [][Next]_vars

\* The command thread runs on and bytes on the line arrive.  No driver need
\* answer.
FairSpec == Spec /\ WF_vars(CommandThread) /\ WF_vars(ReplyArrives)

------------------------------------------------------------------------------
(* Properties. *)

TypeOK ==
  /\ LinkTypeOK
  /\ \A i \in 1 .. Len(todo) : todo[i].word \in Words
  /\ \A i \in 1 .. Len(got) : got[i].word \in Words
  /\ commands \in 0 .. MaxCommands

\* The limits of the DS44, DefineGeneral.h 119-139.
Between(low, v, high) == low <= v /\ v <= high

WithinLimits(word, reg) ==
  /\ reg = "MaxVel"       => Between(1, word, MAXVEL)
  /\ reg = "VelHome"      => Between(MINVELHOME, int16_t(word), MAXVELHOME)
  /\ reg = "Acceleration" => Between(1, word, MAXACCELERATION)
  /\ reg = "Deceleration" => Between(1, word, MAXDECELERATION)
  /\ reg = "PhaseCurrent" => Between(MINPHASECURRENT, word, MAXPHASECURRENT)
  /\ reg = "AnalogOutput0" => word <= MAXANALOGOUTPUT0

ASSUME FactoryWithinLimits ==
  \A d \in Drivers, reg \in Registers : WithinLimits(Factory[d][reg], reg)

\* No driver ever holds a value outside the limits of the DS44, whatever
\* numbers clients send and however they wrap around in sixteen bits; those
\* of vel_home bound the speed in both directions.
RegistersWithinLimits ==
  \A d \in Drivers, reg \in Registers : WithinLimits(regs[d][reg], reg)

\* What a client is told of a driver is what the driver holds, whatever was
\* lost or damaged: only a reply an earlier request of the same command left
\* behind can pass for the answer to another (modbus_flush, check_confirmation).
AnswersAreTheRegisters ==
  [][ ~missed => \A i \in 1 .. Len(answer'.got) :
        LET a == answer'.got[i]
        IN  a.ok => a.slave \in Drivers /\ a.word = regs[a.slave][a.reg] ]_answer

\* A set_par that is answered with parameters has stored all six of them: no
\* partial setting is ever reported as done (SetPar, GetPar).
AnsweredMeansStored ==
  [][ answer'.to = "getpar" /\ answer'.got # <<>> /\ asked' # <<>> =>
        /\ answer'.slave \in Drivers
        /\ \A i \in 1 .. 6 : regs[answer'.slave][Parameter[i]] = asked[i] ]_answer

\* The library is never entered with a context a failed connect has freed, or
\* before the first connect (Connect, and the guards of Main.c).
NeverOnAFreedContext == todo # <<>> => ctx = "open"

\* A driver that does not answer, or answers nonsense, does not hold up the
\* command thread (the timeouts of _modbus_init_common, receive_msg).
EveryCommandEnds == todo # <<>> ~> todo = <<>>
==============================================================================
