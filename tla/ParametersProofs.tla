-------------------------- MODULE ParametersProofs ---------------------------
(***************************************************************************)
(* Proofs about the commands on parameters, for any drivers, registers,    *)
(* driver numbers and parameter lists and any number of faults: the        *)
(* drivers hold sixteen-bit words within the limits of the DS44, the       *)
(* library is only entered with an open context, what a client is told is  *)
(* what the driver holds, and a set_par that is answered is stored.        *)
(***************************************************************************)
EXTENDS Parameters, SequenceTheorems, TLAPS

------------------------------------------------------------------------------
(* What SetPar makes of any integer at all. *)

\* A sixteen-bit word, by its bounds.
LEMMA IsWord ==
  ASSUME NEW x \in Int, 0 <= x, x <= 65535
  PROVE  x \in Words
<1>1. MAXWORD \in Int /\ x <= MAXWORD
  BY DEF MAXWORD
<1> QED BY <1>1 DEF Words

\* A remainder is between zero and the divisor.
LEMMA Remainder ==
  ASSUME NEW v \in Int, NEW M \in Nat, M > 0
  PROVE  v % M \in Int /\ 0 <= v % M /\ v % M < M
OBVIOUS

\* The cast to uint16_t gives sixteen bits ...
LEMMA Unsigned ==
  ASSUME NEW v \in Int
  PROVE  uint16_t(v) \in Int /\ 0 <= uint16_t(v) /\ uint16_t(v) <= 65535
BY DEF uint16_t

\* ... and so does the one to int16_t, with their sign.
LEMMA Signed ==
  ASSUME NEW v \in Int
  PROVE  int16_t(v) \in Int /\ 0 - 32768 <= int16_t(v) /\ int16_t(v) <= 32767
<1>1. v + 32768 \in Int
  OBVIOUS
<1>2. /\ (v + 32768) % 65536 \in Int
      /\ 0 <= (v + 32768) % 65536 /\ (v + 32768) % 65536 <= 65535
  BY <1>1, Remainder
<1> QED BY <1>2 DEF int16_t

\* A vel_home within its limits survives the unsigned register.
LEMMA SignedSurvives ==
  ASSUME NEW v \in Int, 0 - 1000 <= v, v <= 1000
  PROVE  int16_t(uint16_t(v)) = v
<1>1. CASE v >= 0
  BY <1>1 DEF uint16_t, int16_t
<1>2. CASE v < 0
  BY <1>2 DEF uint16_t, int16_t
<1> QED BY <1>1, <1>2

\* The clamps keep their parameter within its limits.
LEMMA Clamps ==
  ASSUME NEW v \in Int
  PROVE  /\ max_vel(v) \in Int /\ Between(1, max_vel(v), MAXVEL)
         /\ vel_home(v) \in Int /\ Between(MINVELHOME, vel_home(v), MAXVELHOME)
         /\ acceleration(v) \in Int /\ Between(1, acceleration(v), MAXACCELERATION)
         /\ deceleration(v) \in Int /\ Between(1, deceleration(v), MAXDECELERATION)
         /\ phase_current(v) \in Int
         /\ Between(MINPHASECURRENT, phase_current(v), MAXPHASECURRENT)
         /\ analog_output0(v) \in Int /\ Between(0, analog_output0(v), MAXANALOGOUTPUT0)
<1>1. uint16_t(v) \in Int /\ 0 <= uint16_t(v)
  BY Unsigned
<1>2. int16_t(v) \in Int
  BY Signed
<1>3. max_vel(v) \in Int /\ Between(1, max_vel(v), MAXVEL)
  BY <1>1 DEF max_vel, NotZero, AtMost, MAXVEL, Between
<1>4. vel_home(v) \in Int /\ Between(MINVELHOME, vel_home(v), MAXVELHOME)
  BY <1>2 DEF vel_home, AtLeast, AtMost, MINVELHOME, MAXVELHOME, Between
<1>5. acceleration(v) \in Int /\ Between(1, acceleration(v), MAXACCELERATION)
  BY <1>1 DEF acceleration, NotZero, AtMost, MAXACCELERATION, Between
<1>6. deceleration(v) \in Int /\ Between(1, deceleration(v), MAXDECELERATION)
  BY <1>1 DEF deceleration, NotZero, AtMost, MAXDECELERATION, Between
<1>7. /\ phase_current(v) \in Int
      /\ Between(MINPHASECURRENT, phase_current(v), MAXPHASECURRENT)
  BY <1>1 DEF phase_current, AtLeast, AtMost, MINPHASECURRENT, MAXPHASECURRENT, Between
<1>8. analog_output0(v) \in Int /\ Between(0, analog_output0(v), MAXANALOGOUTPUT0)
  BY <1>1 DEF analog_output0, AtMost, MAXANALOGOUTPUT0, Between
<1> QED BY <1>3, <1>4, <1>5, <1>6, <1>7, <1>8

\* A writing SetPar makes: a word, within the limits of its register.
Lawful(word, reg) == word \in Words /\ WithinLimits(word, reg)

\* All six writings of SetPar are, whatever the client sent.
LEMMA WantedIsLawful ==
  ASSUME NEW input \in [1 .. 6 -> Int]
  PROVE  /\ Lawful(Wanted(input)[1], "MaxVel")
         /\ Lawful(Wanted(input)[2], "VelHome")
         /\ Lawful(Wanted(input)[3], "Acceleration")
         /\ Lawful(Wanted(input)[4], "Deceleration")
         /\ Lawful(Wanted(input)[5], "PhaseCurrent")
         /\ Lawful(Wanted(input)[6], "AnalogOutput0")
<1>1. /\ Wanted(input)[1] = max_vel(input[1])
      /\ Wanted(input)[2] = uint16_t(vel_home(input[2]))
      /\ Wanted(input)[3] = acceleration(input[3])
      /\ Wanted(input)[4] = deceleration(input[4])
      /\ Wanted(input)[5] = phase_current(input[5])
      /\ Wanted(input)[6] = analog_output0(input[6])
  BY DEF Wanted
<1>2. /\ input[1] \in Int /\ input[2] \in Int /\ input[3] \in Int
      /\ input[4] \in Int /\ input[5] \in Int /\ input[6] \in Int
  OBVIOUS
<1>3. Lawful(max_vel(input[1]), "MaxVel")
  <2>1. max_vel(input[1]) \in Int /\ Between(1, max_vel(input[1]), MAXVEL)
    BY <1>2, Clamps
  <2>2. max_vel(input[1]) \in Words
    BY <2>1, IsWord DEF Between, MAXVEL
  <2> QED BY <2>1, <2>2 DEF Lawful, WithinLimits
<1>4. Lawful(uint16_t(vel_home(input[2])), "VelHome")
  <2>1. vel_home(input[2]) \in Int /\ Between(MINVELHOME, vel_home(input[2]), MAXVELHOME)
    BY <1>2, Clamps
  <2>2. int16_t(uint16_t(vel_home(input[2]))) = vel_home(input[2])
    BY <2>1, SignedSurvives DEF Between, MINVELHOME, MAXVELHOME
  <2>3. uint16_t(vel_home(input[2])) \in Words
    BY <2>1, Unsigned, IsWord
  <2> QED BY <2>1, <2>2, <2>3 DEF Lawful, WithinLimits
<1>5. Lawful(acceleration(input[3]), "Acceleration")
  <2>1. acceleration(input[3]) \in Int /\ Between(1, acceleration(input[3]), MAXACCELERATION)
    BY <1>2, Clamps
  <2>2. acceleration(input[3]) \in Words
    BY <2>1, IsWord DEF Between, MAXACCELERATION
  <2> QED BY <2>1, <2>2 DEF Lawful, WithinLimits
<1>6. Lawful(deceleration(input[4]), "Deceleration")
  <2>1. deceleration(input[4]) \in Int /\ Between(1, deceleration(input[4]), MAXDECELERATION)
    BY <1>2, Clamps
  <2>2. deceleration(input[4]) \in Words
    BY <2>1, IsWord DEF Between, MAXDECELERATION
  <2> QED BY <2>1, <2>2 DEF Lawful, WithinLimits
<1>7. Lawful(phase_current(input[5]), "PhaseCurrent")
  <2>1. /\ phase_current(input[5]) \in Int
        /\ Between(MINPHASECURRENT, phase_current(input[5]), MAXPHASECURRENT)
    BY <1>2, Clamps
  <2>2. phase_current(input[5]) \in Words
    BY <2>1, IsWord DEF Between, MINPHASECURRENT, MAXPHASECURRENT
  <2> QED BY <2>1, <2>2 DEF Lawful, WithinLimits
<1>8. Lawful(analog_output0(input[6]), "AnalogOutput0")
  <2>1. analog_output0(input[6]) \in Int /\ Between(0, analog_output0(input[6]), MAXANALOGOUTPUT0)
    BY <1>2, Clamps
  <2>2. analog_output0(input[6]) \in Words
    BY <2>1, IsWord DEF Between, MAXANALOGOUTPUT0
  <2> QED BY <2>1, <2>2 DEF Lawful, WithinLimits, Between
<1> QED BY <1>1, <1>3, <1>4, <1>5, <1>6, <1>7, <1>8

------------------------------------------------------------------------------
(* The calls of a command. *)

Kinds == {"flush", "refused", "read", "write", "getpar", "setpar", "serials", "parameters"}
Accesses == {"read", "write"}
Telling  == {"read", "getpar", "serials", "parameters"}
Changing == {"write", "setpar"}

RegisterNames == {"SerialNumber", "MaxVel", "VelHome", "Acceleration", "Deceleration",
                  "PhaseCurrent", "AnalogOutput0"}
Names == RegisterNames \cup {"none"}

CallSet ==
  {c \in [do : Kinds, slave : Nat, reg : Names, word : Words] :
     /\ c.do = "write" => WithinLimits(c.word, c.reg)
     /\ c.do \in Accesses => c.reg \in RegisterNames}

\* The calls that change no register, and those that tell nobody anything.
Quiet == {c \in CallSet : c.do \notin Changing}
Mute  == {c \in CallSet : c.do \notin Telling}

\* The registers the server names are registers of the drivers.
LEMMA NamesAreRegisters == RegisterNames \subseteq Registers
<1>1. /\ Parameter[1] = "MaxVel" /\ Parameter[2] = "VelHome" /\ Parameter[3] = "Acceleration"
      /\ Parameter[4] = "Deceleration" /\ Parameter[5] = "PhaseCurrent"
      /\ Parameter[6] = "AnalogOutput0"
  BY DEF Parameter
<1>2. /\ 1 \in 1 .. 6 /\ 2 \in 1 .. 6 /\ 3 \in 1 .. 6
      /\ 4 \in 1 .. 6 /\ 5 \in 1 .. 6 /\ 6 \in 1 .. 6
  OBVIOUS
<1>3. \A i \in 1 .. 6 : Parameter[i] \in Registers
  BY RegisterAssumption, Zenon
<1>4. "SerialNumber" \in Registers
  BY RegisterAssumption, Zenon
<1>5. \A r \in RegisterNames : \/ r = "SerialNumber" \/ r = "MaxVel" \/ r = "VelHome"
                               \/ r = "Acceleration" \/ r = "Deceleration"
                               \/ r = "PhaseCurrent" \/ r = "AnalogOutput0"
  BY DEF RegisterNames
<1> QED BY <1>1, <1>2, <1>3, <1>4, <1>5

\* What it takes to be one of these calls.
LEMMA IsCall ==
  ASSUME NEW slave \in Nat, NEW do \in Kinds, NEW reg \in Names, NEW word \in Words,
         do = "write" => WithinLimits(word, reg),
         do \in Accesses => reg \in RegisterNames
  PROVE  /\ Call(do, slave, reg, word) \in CallSet
         /\ do \notin Changing => Call(do, slave, reg, word) \in Quiet
         /\ do \notin Telling => Call(do, slave, reg, word) \in Mute
<1> DEFINE c == Call(do, slave, reg, word)
<1>1. c \in [do : Kinds, slave : Nat, reg : Names, word : Words]
  BY DEF Call
<1>2. c.do = do /\ c.reg = reg /\ c.word = word
  BY DEF Call
<1>3. /\ c.do = "write" => WithinLimits(c.word, c.reg)
      /\ c.do \in Accesses => c.reg \in RegisterNames
  BY <1>2, Zenon
<1> HIDE DEF c
<1>4. c \in CallSet
  BY <1>1, <1>3, Zenon DEF CallSet
<1>5. /\ do \notin Changing => c \in Quiet
      /\ do \notin Telling => c \in Mute
  BY <1>2, <1>4, Zenon DEF Quiet, Mute
<1> QED BY <1>4, <1>5 DEF c

\* A call that accesses no register, a reading, and a lawful writing.
LEMMA NoAccess ==
  ASSUME NEW slave \in Nat, NEW do \in Kinds, do \notin Accesses
  PROVE  /\ Call(do, slave, "none", 0) \in CallSet
         /\ do \notin Changing => Call(do, slave, "none", 0) \in Quiet
         /\ do \notin Telling => Call(do, slave, "none", 0) \in Mute
<1>1. 0 \in Words /\ "none" \in Names
  BY IsWord DEF Names
<1>2. do # "write"
  BY DEF Accesses
<1> QED BY <1>1, <1>2, IsCall, Zenon

LEMMA IsReading ==
  ASSUME NEW slave \in Nat, NEW reg \in RegisterNames
  PROVE  Read(slave, reg) \in Quiet
<1>1. 0 \in Words /\ reg \in Names /\ "read" \in Kinds /\ "read" \notin Changing
  BY IsWord DEF Names, Kinds, Changing
<1>2. "read" # "write"
  OBVIOUS
<1>3. Call("read", slave, reg, 0) \in Quiet
  BY <1>1, <1>2, IsCall, Zenon
<1> QED BY <1>3 DEF Read

LEMMA IsWriting ==
  ASSUME NEW slave \in Nat, NEW reg \in RegisterNames, NEW word, Lawful(word, reg)
  PROVE  Write(slave, reg, word) \in Mute
<1>1. word \in Words /\ WithinLimits(word, reg)
  BY DEF Lawful
<1>2. "write" \in Kinds /\ "write" \notin Telling /\ reg \in Names
  BY DEF Kinds, Telling, Names
<1>3. Call("write", slave, reg, word) \in Mute
  BY <1>1, <1>2, IsCall, Zenon
<1> QED BY <1>3 DEF Write

\* The calls around them.
LEMMA Frame ==
  ASSUME NEW slave \in Nat
  PROVE  /\ Flush \in Quiet /\ Flush \in Mute
         /\ Call("refused", slave, "none", 0) \in Quiet
         /\ Call("refused", slave, "none", 0) \in Mute
         /\ Conclude("getpar", slave) \in Quiet
         /\ Conclude("serials", slave) \in Quiet
         /\ Conclude("parameters", slave) \in Quiet
         /\ Conclude("setpar", slave) \in Mute
<1>1. /\ "flush" \in Kinds /\ "refused" \in Kinds /\ "getpar" \in Kinds
      /\ "serials" \in Kinds /\ "parameters" \in Kinds /\ "setpar" \in Kinds
  BY DEF Kinds
<1>2. /\ "flush" \notin Changing /\ "refused" \notin Changing /\ "getpar" \notin Changing
      /\ "serials" \notin Changing /\ "parameters" \notin Changing
      /\ "flush" \notin Telling /\ "refused" \notin Telling /\ "setpar" \notin Telling
  BY DEF Changing, Telling
<1>3. /\ "flush" \notin Accesses /\ "refused" \notin Accesses /\ "getpar" \notin Accesses
      /\ "serials" \notin Accesses /\ "parameters" \notin Accesses /\ "setpar" \notin Accesses
  BY DEF Accesses
<1>4. 0 \in Nat
  OBVIOUS
<1> QED BY <1>1, <1>2, <1>3, <1>4, NoAccess, Zenon DEF Flush, Conclude

LEMMA CallsMonotonic == Seq(Quiet) \subseteq Seq(CallSet) /\ Seq(Mute) \subseteq Seq(CallSet)
<1>1. Quiet \subseteq CallSet /\ Mute \subseteq CallSet
  BY Zenon DEF Quiet, Mute
<1> QED BY <1>1

\* Sequences of one, two and six.
LEMMA OneMakesASeq == ASSUME NEW S, NEW a \in S PROVE <<a>> \in Seq(S)
OBVIOUS

LEMMA TwoMakeASeq == ASSUME NEW S, NEW a \in S, NEW b \in S PROVE <<a, b>> \in Seq(S)
OBVIOUS

LEMMA SixCalls ==
  ASSUME NEW S, NEW a \in S, NEW b \in S, NEW c \in S, NEW d \in S, NEW e \in S, NEW f \in S
  PROVE  <<a, b, c, d, e, f>> \in Seq(S)
OBVIOUS

\* A block of calls between flush and conclusion is a sequence of calls.
LEMMA BlockIsCalls ==
  ASSUME NEW S, NEW slave \in Nat, NEW calls \in Seq(S), NEW what,
         Flush \in S, Conclude(what, slave) \in S, Call("refused", slave, "none", 0) \in S
  PROVE  <<Flush>> \o Selected(slave, calls) \o <<Conclude(what, slave)>> \in Seq(S)
<1>1. Selected(slave, calls) \in Seq(S)
  BY DEF Selected
<1>2. <<Flush>> \in Seq(S) /\ <<Conclude(what, slave)>> \in Seq(S)
  OBVIOUS
<1> QED BY <1>1, <1>2

\* The readings of one driver change nothing.
LEMMA ReadingsAreQuiet ==
  ASSUME NEW slave \in Nat
  PROVE  Readings(slave) \in Seq(Quiet)
<1>1. /\ ReadMaxVel(slave) \in Quiet /\ ReadVelHome(slave) \in Quiet
      /\ ReadAcceleration(slave) \in Quiet /\ ReadDeceleration(slave) \in Quiet
      /\ ReadPhaseCurrent(slave) \in Quiet /\ ReadAnalogOutput0(slave) \in Quiet
  BY IsReading DEF ReadMaxVel, ReadVelHome, ReadAcceleration, ReadDeceleration,
       ReadPhaseCurrent, ReadAnalogOutput0, RegisterNames
<1> QED BY <1>1, SixCalls DEF Readings

\* The writings of SetPar are lawful, and tell nothing.
LEMMA WritingsAreMute ==
  ASSUME NEW slave \in Nat, NEW input \in [1 .. 6 -> Int]
  PROVE  Writings(slave, Wanted(input)) \in Seq(Mute)
<1> DEFINE w == Wanted(input)
<1>1. /\ Lawful(w[1], "MaxVel") /\ Lawful(w[2], "VelHome") /\ Lawful(w[3], "Acceleration")
      /\ Lawful(w[4], "Deceleration") /\ Lawful(w[5], "PhaseCurrent")
      /\ Lawful(w[6], "AnalogOutput0")
  BY WantedIsLawful
<1> HIDE DEF w
<1>2. /\ SetMaxVel(slave, w[1]) \in Mute /\ SetVelHome(slave, w[2]) \in Mute
      /\ SetAcceleration(slave, w[3]) \in Mute /\ SetDeceleration(slave, w[4]) \in Mute
      /\ SetPhaseCurrent(slave, w[5]) \in Mute /\ SetAnalogOutput0(slave, w[6]) \in Mute
  BY <1>1, IsWriting DEF SetMaxVel, SetVelHome, SetAcceleration, SetDeceleration,
       SetPhaseCurrent, SetAnalogOutput0, RegisterNames
<1>3. Writings(slave, w) \in Seq(Mute)
  BY <1>2, SixCalls DEF Writings
<1> QED BY <1>3 DEF w

\* A command a client can send either reads or writes.
LEMMA ReadOrWrite ==
  ASSUME NEW slave \in Nat
  PROVE  /\ GetPar(slave) \in Seq(Quiet)
         /\ \A input \in [1 .. 6 -> Int] : SetPar(slave, input) \in Seq(Mute)
         /\ CheckDrvAssoc \in Seq(Quiet)
         /\ CheckParAssoc \in Seq(Quiet)
<1>1. GetPar(slave) \in Seq(Quiet)
  BY ReadingsAreQuiet, Frame, BlockIsCalls DEF GetPar
<1>2. ASSUME NEW input \in [1 .. 6 -> Int] PROVE SetPar(slave, input) \in Seq(Mute)
  BY WritingsAreMute, Frame, BlockIsCalls DEF SetPar
<1>3. CheckDrvAssoc \in Seq(Quiet)
  <2>1. /\ Flush \in Quiet /\ Conclude("serials", 0) \in Quiet
        /\ ReadSerialNumber(1) \in Quiet /\ ReadSerialNumber(2) \in Quiet
    BY Frame, IsReading DEF ReadSerialNumber, RegisterNames
  <2> QED BY <2>1 DEF CheckDrvAssoc
<1>4. CheckParAssoc \in Seq(Quiet)
  <2>1. Flush \in Quiet /\ Conclude("parameters", 0) \in Quiet
    BY Frame
  <2>2. <<Flush>> \in Seq(Quiet) /\ <<Conclude("parameters", 0)>> \in Seq(Quiet)
    BY <2>1
  <2>3. Readings(1) \in Seq(Quiet) /\ Readings(2) \in Seq(Quiet)
    BY ReadingsAreQuiet
  <2> QED BY <2>2, <2>3 DEF CheckParAssoc
<1> QED BY <1>1, <1>2, <1>3, <1>4

\* All are made of calls.
LEMMA CommandsAreCalls ==
  ASSUME NEW slave \in Nat
  PROVE  /\ GetPar(slave) \in Seq(CallSet)
         /\ \A input \in [1 .. 6 -> Int] : SetPar(slave, input) \in Seq(CallSet)
         /\ CheckDrvAssoc \in Seq(CallSet)
         /\ CheckParAssoc \in Seq(CallSet)
BY ReadOrWrite, CallsMonotonic, Zenon

------------------------------------------------------------------------------
(* The invariant: whatever is still to be written is lawful. *)

IInv ==
  /\ todo \in Seq(CallSet)
  /\ regs \in [Drivers -> [Registers -> Words]]
  /\ RegistersWithinLimits
  /\ STATE_CONNECT = (ctx = "open")
  /\ NeverOnAFreedContext

\* A lawful writing keeps the registers lawful, whichever drivers it reaches.
LEMMA ExecutedIsLawful ==
  ASSUME NEW req,
         regs \in [Drivers -> [Registers -> Words]], RegistersWithinLimits,
         req.function = WRITE => Lawful(req.word, req.reg)
  PROVE  /\ Executed(req) \in [Drivers -> [Registers -> Words]]
         /\ \A d \in Drivers, reg \in Registers : WithinLimits(Executed(req)[d][reg], reg)
<1>1. CASE req.function # WRITE
  BY <1>1 DEF Executed, RegistersWithinLimits
<1>2. CASE req.function = WRITE
  <2>1. req.word \in Words /\ WithinLimits(req.word, req.reg)
    BY <1>2 DEF Lawful
  <2>2. Executed(req) = [d \in Drivers |->
           IF d \in Reached(req) THEN [regs[d] EXCEPT ![req.reg] = req.word] ELSE regs[d]]
    BY <1>2 DEF Executed
  <2>3. Executed(req) \in [Drivers -> [Registers -> Words]]
    BY <2>1, <2>2
  <2>4. ASSUME NEW d \in Drivers, NEW reg \in Registers
        PROVE  WithinLimits(Executed(req)[d][reg], reg)
    <3>1. WithinLimits(regs[d][reg], reg)
      BY Zenon DEF RegistersWithinLimits
    <3>2. CASE d \in Reached(req) /\ reg = req.reg
      <4>1. Executed(req)[d][reg] = req.word
        BY <2>2, <3>2
      <4> QED BY <2>1, <3>2, <4>1
    <3>3. CASE ~(d \in Reached(req) /\ reg = req.reg)
      <4>1. Executed(req)[d][reg] = regs[d][reg]
        BY <2>2, <3>3
      <4> QED BY <3>1, <4>1
    <3> QED BY <3>2, <3>3
  <2> QED BY <2>3, <2>4
<1> QED BY <1>1, <1>2

\* A command puts lawful calls on the list, and only over an open context.
LEMMA CommandIsLawful ==
  ASSUME IInv, NEW calls \in Seq(CallSet), NEW words, Execute(calls, words)
  PROVE  IInv'
<1>1. todo' \in Seq(CallSet)
  BY DEF Execute, IInv
<1>2. UNCHANGED <<regs, ctx, STATE_CONNECT>>
  BY DEF Execute, link
<1>3. NeverOnAFreedContext'
  BY <1>2 DEF Execute, IInv, NeverOnAFreedContext
<1>4. RegistersWithinLimits'
  BY <1>2 DEF IInv, RegistersWithinLimits
<1> QED BY <1>1, <1>2, <1>3, <1>4 DEF IInv

\* Every step keeps the invariant.
LEMMA Step ==
  ASSUME IInv, [Next]_vars
  PROVE  IInv'
<1> USE DEF IInv
<1>1. CASE StartCommand
  <2>1. ASSUME NEW slave \in Asked, get_par(slave) PROVE IInv'
    <3>1. slave \in Nat
      BY InputAssumption
    <3> QED BY <2>1, <3>1, CommandsAreCalls, CommandIsLawful DEF get_par
  <2>2. ASSUME NEW slave \in Asked, NEW input \in Inputs, set_par(slave, input) PROVE IInv'
    <3>1. slave \in Nat /\ input \in [1 .. 6 -> Int]
      BY InputAssumption
    <3>2. SetPar(slave, input) \in Seq(CallSet)
      BY <3>1, CommandsAreCalls
    <3> QED BY <2>2, <3>2, CommandIsLawful DEF set_par
  <2>3. ASSUME NEW slaves \in Asked \X Asked, NEW input \in Inputs, setmult_par(slaves, input)
        PROVE IInv'
    <3>1. slaves[1] \in Nat /\ slaves[2] \in Nat /\ input \in [1 .. 6 -> Int]
      BY InputAssumption
    <3>2. SetPar(slaves[1], input) \in Seq(CallSet) /\ SetPar(slaves[2], input) \in Seq(CallSet)
      BY <3>1, CommandsAreCalls
    <3>3. SetParMult(slaves, input) \in Seq(CallSet)
      BY <3>2 DEF SetParMult
    <3> QED BY <2>3, <3>3, CommandIsLawful DEF setmult_par
  <2>4. CASE check_drv_assoc
    BY <2>4, CommandsAreCalls, CommandIsLawful DEF check_drv_assoc
  <2>5. CASE check_par_assoc
    BY <2>5, CommandsAreCalls, CommandIsLawful DEF check_par_assoc
  <2> QED BY <1>1, <2>1, <2>2, <2>3, <2>4, <2>5 DEF StartCommand
<1>2. CASE connect
  <2>1. todo = <<>> /\ todo' = todo /\ regs' = regs
    BY <1>2 DEF connect, Connect
  <2>2. STATE_CONNECT' = (ctx' = "open")
    BY <1>2 DEF connect, Connect, Connected
  <2> QED BY <2>1, <2>2 DEF NeverOnAFreedContext, RegistersWithinLimits
<1>3. CASE FlushPort
  BY <1>3 DEF FlushPort, Doing, Next1, modbus_flush, NeverOnAFreedContext, RegistersWithinLimits
<1>4. CASE Refused
  BY <1>4 DEF Refused, Doing, Next1, link, NeverOnAFreedContext, RegistersWithinLimits
<1>5. CASE Send
  <2> DEFINE call == Head(todo)
  <2> DEFINE req == build_request_basis(call.slave, IF call.do = "read" THEN READ ELSE WRITE,
                                        call.reg, call.word)
  <2>1. todo # <<>> /\ todo' = todo /\ (call.do = "read" \/ call.do = "write")
    BY <1>5 DEF Send, Doing
  <2>2. PICK fate \in Fates : send_msg(req, fate)
    BY <1>5 DEF Send
  <2>3. call \in CallSet
    BY <2>1
  <2>4. call.word \in Words /\ (call.do = "write" => WithinLimits(call.word, call.reg))
    BY <2>3 DEF CallSet
  <2>5. req.function = WRITE => Lawful(req.word, req.reg)
    BY <2>1, <2>4 DEF build_request_basis, Lawful, READ, WRITE
  <2> HIDE DEF req
  <2>6. /\ regs' \in [Drivers -> [Registers -> Words]]
        /\ RegistersWithinLimits'
    <3>1. regs' = regs \/ regs' = Executed(req)
      BY <2>2 DEF send_msg
    <3>2. /\ Executed(req) \in [Drivers -> [Registers -> Words]]
          /\ \A d \in Drivers, reg \in Registers : WithinLimits(Executed(req)[d][reg], reg)
      BY <2>5, ExecutedIsLawful
    <3> QED BY <3>1, <3>2 DEF RegistersWithinLimits
  <2>7. ctx' = ctx /\ STATE_CONNECT' = STATE_CONNECT
    BY <2>2 DEF send_msg
  <2> QED BY <2>1, <2>6, <2>7 DEF NeverOnAFreedContext
<1>6. CASE Receive
  <2>1. UNCHANGED <<ctx, STATE_CONNECT, regs>>
    BY <1>6 DEF Receive, receive_msg, receive_whole, receive_pieces, receive_garbage,
                receive_timeout, Return
  <2>2. todo' = Tail(todo)
    BY <1>6 DEF Receive, Next1
  <2>3. todo # <<>>
    BY <1>6 DEF Receive, Doing
  <2> QED BY <2>1, <2>2, <2>3 DEF NeverOnAFreedContext, RegistersWithinLimits
<1>7. CASE ReportParameters
  BY <1>7 DEF ReportParameters, Doing, Next1, link, NeverOnAFreedContext, RegistersWithinLimits
<1>8. CASE ReadBack
  <2>1. todo # <<>> /\ UNCHANGED <<ctx, STATE_CONNECT, regs>>
    BY <1>8 DEF ReadBack, Doing, link
  <2>2. Head(todo) \in CallSet
    BY <2>1
  <2>3. Head(todo).slave \in Nat
    BY <2>2 DEF CallSet
  <2>4. GetPar(Head(todo).slave) \in Seq(CallSet)
    BY <2>3, CommandsAreCalls
  <2>5. Tail(todo) \in Seq(CallSet)
    BY <2>1
  <2>6. todo' \in Seq(CallSet)
    <3>1. CASE AllOkay
      <4>1. todo' = GetPar(Head(todo).slave) \o Tail(todo)
        BY <1>8, <3>1 DEF ReadBack, Next1
      <4> QED BY <4>1, <2>4, <2>5
    <3>2. CASE ~AllOkay
      <4>1. todo' = Tail(todo)
        BY <1>8, <3>2 DEF ReadBack, Next1
      <4> QED BY <4>1, <2>5
    <3> QED BY <3>1, <3>2
  <2> QED BY <2>1, <2>6 DEF NeverOnAFreedContext, RegistersWithinLimits
<1>9. CASE ReportAll
  BY <1>9 DEF ReportAll, Doing, Next1, link, NeverOnAFreedContext, RegistersWithinLimits
<1>10. CASE ReplyArrives
  BY <1>10 DEF ReplyArrives, Arrive, NeverOnAFreedContext, RegistersWithinLimits
<1>11. CASE UNCHANGED vars
  BY <1>11 DEF vars, link, NeverOnAFreedContext, RegistersWithinLimits
<1> QED BY <1>1, <1>2, <1>3, <1>4, <1>5, <1>6, <1>7, <1>8, <1>9, <1>10, <1>11
        DEF Next, CommandThread

\* It holds at the start.
LEMMA Start == Init => IInv
<1> SUFFICES ASSUME Init PROVE IInv
  OBVIOUS
<1>1. todo = <<>> /\ regs = Factory /\ STATE_CONNECT = FALSE /\ ctx = "null"
  BY DEF Init, LinkInit
<1>2. RegistersWithinLimits
  BY <1>1, FactoryWithinLimits, Zenon DEF RegistersWithinLimits
<1>3. todo \in Seq(CallSet)
  BY <1>1
<1>4. NeverOnAFreedContext
  BY <1>1 DEF NeverOnAFreedContext
<1>5. regs \in [Drivers -> [Registers -> Words]]
  BY <1>1, FactoryAssumption
<1>6. STATE_CONNECT = (ctx = "open")
  <2>1. (ctx = "open") = FALSE
    BY <1>1
  <2> QED BY <1>1, <2>1
<1> QED BY <1>2, <1>3, <1>4, <1>5, <1>6, Zenon DEF IInv

\* No driver ever holds a parameter outside the limits of the DS44, whatever
\* integers clients send and whatever happens on the line (SetPar, SetParMult).
THEOREM LimitsAreKept == Spec => []RegistersWithinLimits
<1>1. IInv => RegistersWithinLimits
  BY DEF IInv
<1> QED BY <1>1, Start, Step, PTL DEF Spec

\* The library is only entered with a context that is open, whatever connects
\* fail in between (Connect; the guards on STATE_CONNECT in Main.c).
THEOREM ContextIsOpen == Spec => []NeverOnAFreedContext
<1>1. IInv => NeverOnAFreedContext
  BY DEF IInv
<1> QED BY <1>1, Start, Step, PTL DEF Spec

------------------------------------------------------------------------------
(* Types. *)

Requests == [slave : Nat, function : {READ, WRITE}, reg : RegisterNames, nb : {1, 2}, word : Words]

Replies == [function : Nat, nb : {1, 2}, damaged : BOOLEAN, word : Words,
            piece : {"whole", "head", "rest"}]

Outcomes == [ok : BOOLEAN, word : Words, slave : Nat, reg : Names]

\* The request that belongs to a call.
RequestOf(call) ==
  build_request_basis(call.slave, IF call.do = "read" THEN READ ELSE WRITE, call.reg, call.word)

TInv ==
  /\ IInv
  /\ ctx \in {"null", "freed", "open"}
  /\ request = NoRequest \/ request \in Requests
  /\ inflight \in Seq(Replies) /\ rx \in Seq(Replies)
  /\ result \in [ok : BOOLEAN, word : Words]
  /\ got \in Seq(Outcomes)
  /\ faults \in 0 .. MaxFaults /\ missed \in BOOLEAN
  /\ commands \in 0 .. MaxCommands

LEMMA ZeroIsWord == 0 \in Words
BY IsWord

\* A call that is sent makes a request.
LEMMA RequestIsTyped ==
  ASSUME NEW call \in CallSet, call.do \in Accesses
  PROVE  RequestOf(call) \in Requests
<1>1. call.slave \in Nat /\ call.word \in Words /\ call.reg \in RegisterNames
  BY DEF CallSet
<1> QED BY <1>1 DEF RequestOf, build_request_basis, Requests

\* What a driver of the line sends is made of replies.
LEMMA SendsReplies ==
  ASSUME NEW req \in Requests, req.slave \in Drivers, NEW fate \in Fates,
         regs \in [Drivers -> [Registers -> Words]]
  PROVE  /\ \A damaged \in BOOLEAN : Reply(req, damaged) \in Replies
         /\ Sends(req, fate) \in Seq(Replies)
<1>1. req.function \in {READ, WRITE} /\ req.nb \in {1, 2} /\ req.reg \in Registers
  BY NamesAreRegisters DEF Requests
<1>2. req.function \in Nat /\ req.function + 128 \in Nat
  BY <1>1 DEF READ, WRITE
<1>3. regs[req.slave][req.reg] \in Words /\ 0 \in Words
  BY <1>1, ZeroIsWord
<1>4. \A damaged \in BOOLEAN : Reply(req, damaged) \in Replies
  BY <1>1, <1>2, <1>3 DEF Reply, Replies
<1>5. Exception(req) \in Replies
  BY <1>2, <1>4 DEF Exception, Replies, Reply
<1>6. ASSUME NEW r \in Replies, NEW piece \in {"head", "rest"} PROVE Piece(r, piece) \in Replies
  BY <1>6 DEF Piece, Replies
<1>7. CASE fate \in {"request lost", "reply lost"}
  <2>1. Sends(req, fate) = <<>>
    BY <1>7, Zenon DEF Sends
  <2> QED BY <1>4, <2>1
<1>8. CASE fate = "damaged"
  <2>1. Sends(req, fate) = <<Reply(req, TRUE)>>
    BY <1>8 DEF Sends
  <2>2. Reply(req, TRUE) \in Replies
    BY <1>4
  <2> QED BY <1>4, <2>1, <2>2, OneMakesASeq, Zenon
<1>9. CASE fate = "exception"
  <2>1. Sends(req, fate) = <<Exception(req)>>
    BY <1>9 DEF Sends
  <2> QED BY <1>4, <1>5, <2>1
<1>10. CASE fate = "cut"
  <2>1. Sends(req, fate) = <<Piece(Reply(req, FALSE), "head"), Piece(Reply(req, FALSE), "rest")>>
    BY <1>10 DEF Sends
  <2>2. Reply(req, FALSE) \in Replies
    BY <1>4
  <2>3. /\ Piece(Reply(req, FALSE), "head") \in Replies
        /\ Piece(Reply(req, FALSE), "rest") \in Replies
    BY <1>6, <2>2
  <2> QED BY <1>4, <2>1, <2>3, TwoMakeASeq, Zenon
<1>11. CASE fate = "arrives"
  <2>1. Sends(req, fate) = <<Reply(req, FALSE)>>
    BY <1>11 DEF Sends
  <2>2. Reply(req, FALSE) \in Replies
    BY <1>4
  <2> QED BY <1>4, <2>1, <2>2, OneMakesASeq, Zenon
<1> QED BY <1>7, <1>8, <1>9, <1>10, <1>11 DEF Fates

\* A transaction reads the buffer and leaves a part of it.
LEMMA ReceiveIsTyped ==
  ASSUME TInv, receive_msg
  PROVE  /\ request' = NoRequest
         /\ rx' \in Seq(Replies)
         /\ result' \in [ok : BOOLEAN, word : Words]
         /\ inflight' = inflight
         /\ faults' \in 0 .. MaxFaults
         /\ missed' \in BOOLEAN
         /\ ctx' = ctx
<1>1. rx \in Seq(Replies) /\ faults \in 0 .. MaxFaults /\ missed \in BOOLEAN
  BY DEF TInv
<1>2. Failed \in [ok : BOOLEAN, word : Words]
  BY ZeroIsWord DEF Failed
<1>3. ASSUME NEW r \in Replies PROVE Confirmed(r) \in [ok : BOOLEAN, word : Words]
  <2>1. r.word \in Words
    BY DEF Replies
  <2> QED BY <1>2, <2>1 DEF Confirmed, Done
<1>4. request' = NoRequest /\ ctx' = ctx
  BY DEF receive_msg, receive_whole, receive_pieces, receive_garbage, receive_timeout, Return
<1>5. CASE receive_whole
  <2>1. rx # <<>> /\ Head(rx) \in Replies /\ Tail(rx) \in Seq(Replies)
    BY <1>1, <1>5 DEF receive_whole
  <2>2. result' = Confirmed(Head(rx)) /\ rx' = Tail(rx)
    BY <1>5 DEF receive_whole, Return
  <2>3. inflight' = inflight /\ faults' = faults
    BY <1>5 DEF receive_whole
  <2>4. missed' \in BOOLEAN
    BY <1>5 DEF receive_whole, Return
  <2> QED BY <1>1, <1>3, <1>4, <2>1, <2>2, <2>3, <2>4
<1>6. CASE receive_pieces
  <2>1. Len(rx) > 1
    BY <1>6 DEF receive_pieces
  <2>2. Head(rx) \in Replies /\ SubSeq(rx, 3, Len(rx)) \in Seq(Replies)
    BY <1>1, <2>1
  <2>3. result' = Confirmed(Head(rx)) /\ rx' = SubSeq(rx, 3, Len(rx))
    BY <1>6 DEF receive_pieces, Return
  <2>4. inflight' = inflight /\ faults' = faults
    BY <1>6 DEF receive_pieces
  <2>5. missed' \in BOOLEAN
    BY <1>6 DEF receive_pieces, Return
  <2> QED BY <1>1, <1>3, <1>4, <2>2, <2>3, <2>4, <2>5
<1>7. CASE receive_garbage
  <2>0. PICK n \in 1 .. Len(rx) :
          \E half \in {<<>>, <<Piece(rx[n], "rest")>>} :
            Return(Failed, half \o SubSeq(rx, n + 1, Len(rx)))
    BY <1>7, Zenon DEF receive_garbage
  <2>1. PICK half \in {<<>>, <<Piece(rx[n], "rest")>>} :
          Return(Failed, half \o SubSeq(rx, n + 1, Len(rx)))
    BY <2>0, Zenon
  <2>2. rx[n] \in Replies
    BY <1>1
  <2>3. Piece(rx[n], "rest") \in Replies
    BY <2>2 DEF Piece, Replies
  <2>4. half \in Seq(Replies)
    <3>1. <<>> \in Seq(Replies) /\ <<Piece(rx[n], "rest")>> \in Seq(Replies)
      BY <2>3, EmptySeq, OneMakesASeq, Zenon
    <3> QED BY <3>1
  <2>5. SubSeq(rx, n + 1, Len(rx)) \in Seq(Replies)
    BY <1>1
  <2>6. result' = Failed /\ rx' = half \o SubSeq(rx, n + 1, Len(rx))
    BY <2>1 DEF Return
  <2>7. rx' \in Seq(Replies)
    BY <2>4, <2>5, <2>6
  <2>8. inflight' = inflight /\ faults' = faults
    BY <1>7 DEF receive_garbage
  <2>9. missed' \in BOOLEAN
    BY <2>1 DEF Return
  <2> QED BY <1>1, <1>2, <1>4, <2>6, <2>7, <2>8, <2>9
<1>8. CASE receive_timeout
  <2>1. result' = Failed /\ rx' = <<>> /\ missed' \in BOOLEAN
    BY <1>8 DEF receive_timeout, Return
  <2>2. inflight' = inflight
    BY <1>8 DEF receive_timeout
  <2>3. faults' \in 0 .. MaxFaults
    BY <1>1, <1>8, LinkAssumption DEF receive_timeout
  <2>4. rx' \in Seq(Replies)
    BY <2>1
  <2> QED BY <1>1, <1>2, <1>4, <2>1, <2>2, <2>3, <2>4
<1> QED BY <1>5, <1>6, <1>7, <1>8 DEF receive_msg

\* Every step keeps the types.
LEMMA TypeStep ==
  ASSUME TInv, [Next]_vars
  PROVE  TInv'
<1>1. IInv'
  BY Step DEF TInv
<1>2. todo \in Seq(CallSet) /\ got \in Seq(Outcomes) /\ regs \in [Drivers -> [Registers -> Words]]
  BY DEF TInv, IInv
<1> DEFINE LinkTypes ==
      /\ request = NoRequest \/ request \in Requests
      /\ inflight \in Seq(Replies) /\ rx \in Seq(Replies)
      /\ result \in [ok : BOOLEAN, word : Words]
      /\ faults \in 0 .. MaxFaults /\ missed \in BOOLEAN
<1>3. LinkTypes /\ ctx \in {"null", "freed", "open"} /\ commands \in 0 .. MaxCommands
  BY DEF TInv
<1>4. ASSUME UNCHANGED link PROVE LinkTypes' /\ ctx' \in {"null", "freed", "open"}
  BY <1>3, <1>4 DEF link
<1>5. <<>> \in Seq(Outcomes)
  BY EmptySeq
<1> DEFINE AllTypes ==
      /\ LinkTypes /\ ctx \in {"null", "freed", "open"}
      /\ got \in Seq(Outcomes) /\ commands \in 0 .. MaxCommands
<1>6. AllTypes'
  <2>1. ASSUME NEW calls, NEW words, Execute(calls, words)
        PROVE  AllTypes'
    <3>1. UNCHANGED link /\ got' = <<>> /\ commands < MaxCommands /\ commands' = commands + 1
      BY <2>1 DEF Execute
    <3>2. commands' \in 0 .. MaxCommands
      BY <1>3, <3>1, InputAssumption
    <3> QED BY <1>4, <1>5, <3>1, <3>2
  <2>2. CASE StartCommand
    BY <2>1, <2>2, Zenon DEF StartCommand, get_par, set_par, setmult_par, check_drv_assoc,
       check_par_assoc
  <2>3. CASE connect
    <3>1. /\ UNCHANGED <<request, inflight, rx, result, faults, missed, got, commands>>
          /\ ctx' \in modbus_new_rtu
      BY <2>3 DEF connect, Connect
    <3> QED BY <1>2, <1>3, <3>1 DEF modbus_new_rtu
  <2>4. CASE FlushPort
    <3>1. /\ UNCHANGED <<ctx, request, inflight, result, faults, commands>>
          /\ rx' = <<>> /\ missed' \in BOOLEAN /\ got' = <<>>
      BY <2>4 DEF FlushPort, modbus_flush, Flushed
    <3>2. rx' \in Seq(Replies)
      BY <3>1
    <3> QED BY <1>3, <1>5, <3>1, <3>2
  <2>5. CASE Refused
    <3>1. /\ todo # <<>> /\ UNCHANGED <<link, commands>>
          /\ got' = <<[ok |-> FALSE, word |-> 0, slave |-> Head(todo).slave, reg |-> "none"]>>
      BY <2>5 DEF Refused, Doing
    <3>2. Head(todo) \in CallSet
      BY <1>2, <3>1
    <3>3. Head(todo).slave \in Nat
      BY <3>2 DEF CallSet
    <3>4. [ok |-> FALSE, word |-> 0, slave |-> Head(todo).slave, reg |-> "none"] \in Outcomes
      BY <3>3, ZeroIsWord DEF Outcomes, Names
    <3>5. got' \in Seq(Outcomes)
      BY <3>1, <3>4
    <3> QED BY <1>3, <1>4, <3>1, <3>5
  <2>6. CASE Send
    <3>1. /\ todo # <<>> /\ Head(todo).do \in Accesses
          /\ \E fate \in Fates : send_msg(RequestOf(Head(todo)), fate)
          /\ UNCHANGED <<got, commands>>
      BY <2>6 DEF Send, Doing, Accesses, RequestOf
    <3> DEFINE req == RequestOf(Head(todo))
    <3>2. Head(todo) \in CallSet
      BY <1>2, <3>1
    <3>3. req \in Requests
      BY <3>1, <3>2, RequestIsTyped
    <3>4. PICK fate \in Fates : send_msg(req, fate)
      BY <3>1
    <3> HIDE DEF req
    <3>5. request' = req /\ UNCHANGED <<ctx, rx, result, missed>>
      BY <3>4 DEF send_msg
    <3>6. faults' \in 0 .. MaxFaults
      <4>1. /\ fate # "arrives" => faults < MaxFaults
            /\ faults' = IF fate = "arrives" THEN faults ELSE faults + 1
        BY <3>4 DEF send_msg
      <4>2. faults \in 0 .. MaxFaults /\ MaxFaults \in Nat
        BY <1>3, LinkAssumption
      <4> QED BY <4>1, <4>2
    <3>7. inflight' \in Seq(Replies)
      <4>1. CASE req.slave \in Drivers
        <5>1. Sends(req, fate) \in Seq(Replies)
          BY <1>2, <3>3, <4>1, SendsReplies
        <5>2. inflight' = inflight \o Sends(req, fate)
          BY <3>4, <4>1 DEF send_msg
        <5> QED BY <1>3, <5>1, <5>2
      <4>2. CASE req.slave \notin Drivers
        BY <1>3, <3>4, <4>2 DEF send_msg
      <4> QED BY <4>1, <4>2
    <3> QED BY <1>2, <1>3, <3>1, <3>3, <3>5, <3>6, <3>7
  <2>7. CASE Receive
    <3>1. /\ request # NoRequest /\ receive_msg /\ commands' = commands
          /\ got' = Append(got, [ok |-> result'.ok, word |-> result'.word,
                                 slave |-> request.slave, reg |-> request.reg])
      BY <2>7 DEF Receive, receive_msg
    <3>2. /\ request' = NoRequest /\ rx' \in Seq(Replies) /\ inflight' = inflight
          /\ result' \in [ok : BOOLEAN, word : Words] /\ ctx' = ctx
          /\ faults' \in 0 .. MaxFaults /\ missed' \in BOOLEAN
      BY <3>1, ReceiveIsTyped
    <3>3. request.slave \in Nat /\ request.reg \in Names
      BY <1>3, <3>1 DEF Requests, Names
    <3>4. [ok |-> result'.ok, word |-> result'.word, slave |-> request.slave,
           reg |-> request.reg] \in Outcomes
      BY <3>2, <3>3 DEF Outcomes
    <3>5. got' \in Seq(Outcomes)
      BY <1>2, <3>1, <3>4
    <3> QED BY <1>3, <3>1, <3>2, <3>5
  <2>8. CASE ReportParameters \/ ReadBack \/ ReportAll
    <3>1. UNCHANGED <<link, got, commands>>
      BY <2>8 DEF ReportParameters, ReadBack, ReportAll
    <3> QED BY <1>2, <1>3, <1>4, <3>1
  <2>9. CASE ReplyArrives
    <3>1. /\ inflight # <<>> /\ rx' = Append(rx, Head(inflight)) /\ inflight' = Tail(inflight)
          /\ UNCHANGED <<ctx, request, result, faults, missed, got, commands>>
      BY <2>9 DEF ReplyArrives, Arrive
    <3>2. rx' \in Seq(Replies) /\ inflight' \in Seq(Replies)
      BY <1>3, <3>1
    <3> QED BY <1>2, <1>3, <3>1, <3>2
  <2>10. CASE UNCHANGED vars
    BY <1>2, <1>3, <1>4, <2>10 DEF vars
  <2> QED BY <2>2, <2>3, <2>4, <2>5, <2>6, <2>7, <2>8, <2>9, <2>10 DEF Next, CommandThread
<1> QED BY <1>1, <1>6 DEF TInv

\* They hold at the start.
LEMMA TypeStart == Init => TInv
<1> SUFFICES ASSUME Init PROVE TInv
  OBVIOUS
<1>1. IInv
  BY Start
<1>2. /\ ctx = "null" /\ request = NoRequest /\ inflight = <<>> /\ rx = <<>>
      /\ result = Failed /\ faults = 0 /\ missed = FALSE
      /\ got = <<>> /\ commands = 0
  BY DEF Init, LinkInit
<1>3. result \in [ok : BOOLEAN, word : Words]
  BY <1>2, ZeroIsWord DEF Failed
<1>4. faults \in 0 .. MaxFaults /\ commands \in 0 .. MaxCommands
  BY <1>2, LinkAssumption, InputAssumption
<1>5. inflight \in Seq(Replies) /\ rx \in Seq(Replies) /\ got \in Seq(Outcomes)
  BY <1>2, EmptySeq, Zenon
<1> QED BY <1>1, <1>2, <1>3, <1>4, <1>5 DEF TInv

LEMMA TypesImply == TInv => TypeOK
<1> SUFFICES ASSUME TInv PROVE TypeOK
  OBVIOUS
<1>1. ASSUME NEW i \in 1 .. Len(todo) PROVE todo[i].word \in Words
  <2>1. todo[i] \in CallSet
    BY DEF TInv, IInv
  <2> QED BY <2>1 DEF CallSet
<1>2. ASSUME NEW i \in 1 .. Len(got) PROVE got[i].word \in Words
  <2>1. got[i] \in Outcomes
    BY DEF TInv
  <2> QED BY <2>1 DEF Outcomes
<1>3. request.function \in {0, READ, WRITE} /\ request.word \in Words
  BY ZeroIsWord DEF TInv, NoRequest, Requests
<1>4. result.word \in Words
  BY DEF TInv
<1>5. STATE_CONNECT \in BOOLEAN
  <2>1. STATE_CONNECT = (ctx = "open")
    BY Zenon DEF TInv, IInv
  <2> QED BY <2>1
<1>6. regs \in [Drivers -> [Registers -> Words]]
  BY DEF TInv, IInv
<1> QED BY <1>1, <1>2, <1>3, <1>4, <1>5, <1>6 DEF TypeOK, LinkTypeOK, TInv

------------------------------------------------------------------------------
(* What a reply says, as long as no earlier request has left one behind.   *)

\* A reply that passes for the answer to req is about what req names, and a
\* writing that is confirmed has been executed.
Genuine(r, req, held) ==
  ~r.damaged /\ r.function = req.function =>
    /\ req.slave \in Drivers
    /\ req.function = READ => r.word = held[req.slave][req.reg]
    /\ req.function = WRITE => held[req.slave][req.reg] = req.word

LInv ==
  /\ request # NoRequest =>
       todo # <<>> /\ Head(todo).do \in Accesses /\ request = RequestOf(Head(todo))
  /\ ~missed /\ request = NoRequest => rx = <<>> /\ inflight = <<>>
  /\ ~missed /\ request # NoRequest =>
       /\ \A i \in 1 .. Len(rx) : Genuine(rx[i], request, regs)
       /\ \A i \in 1 .. Len(inflight) : Genuine(inflight[i], request, regs)

\* A driver of the line that executes a writing holds what was written.
LEMMA WritingIsExecuted ==
  ASSUME NEW req \in Requests, req.slave \in Drivers, req.function = WRITE,
         regs \in [Drivers -> [Registers -> Words]]
  PROVE  Executed(req)[req.slave][req.reg] = req.word
<1>1. req.slave # 0 /\ req.reg \in Registers
  BY LinkAssumption, NamesAreRegisters DEF Requests
<1>2. req.slave \in Reached(req)
  BY <1>1 DEF Reached
<1> QED BY <1>1, <1>2 DEF Executed

LEMMA OneIsGenuine ==
  ASSUME NEW r, NEW req, NEW held, Genuine(r, req, held)
  PROVE  \A i \in 1 .. Len(<<r>>) : Genuine(<<r>>[i], req, held)
<1>1. Len(<<r>>) = 1 /\ <<r>>[1] = r
  OBVIOUS
<1>2. \A i \in 1 .. 1 : i = 1
  OBVIOUS
<1> QED BY <1>1, <1>2, Zenon

LEMMA TwoAreGenuine ==
  ASSUME NEW r, NEW t, NEW req, NEW held, Genuine(r, req, held), Genuine(t, req, held)
  PROVE  \A i \in 1 .. Len(<<r, t>>) : Genuine(<<r, t>>[i], req, held)
<1>1. Len(<<r, t>>) = 2 /\ <<r, t>>[1] = r /\ <<r, t>>[2] = t
  OBVIOUS
<1>2. \A i \in 1 .. 2 : i = 1 \/ i = 2
  OBVIOUS
<1> QED BY <1>1, <1>2, Zenon

LEMMA NoneInEmpty == \A i \in 1 .. Len(<<>>) : FALSE
OBVIOUS

LEMMA SumDiffers == \A x \in Int : x + 128 # x
OBVIOUS

LEMMA Functions == READ \in Int /\ WRITE \in Int /\ READ # WRITE
BY DEF READ, WRITE

\* What a damaged or lost reply says is never believed ...
LEMMA BadRepliesAreGenuine ==
  ASSUME NEW req \in Requests, NEW held,
         NEW fate \in {"request lost", "reply lost", "damaged", "exception"}
  PROVE  \A i \in 1 .. Len(Sends(req, fate)) : Genuine(Sends(req, fate)[i], req, held)
<1>1. CASE fate \in {"request lost", "reply lost"}
  <2>1. Sends(req, fate) = <<>>
    BY <1>1, Zenon DEF Sends
  <2> QED BY <2>1, NoneInEmpty, Zenon
<1>2. CASE fate = "damaged"
  <2>1. Sends(req, fate) = <<Reply(req, TRUE)>>
    BY <1>2 DEF Sends
  <2>2. Genuine(Reply(req, TRUE), req, held)
    BY DEF Genuine, Reply
  <2> QED BY <2>1, <2>2, OneIsGenuine, Zenon
<1>3. CASE fate = "exception"
  <2>1. Sends(req, fate) = <<Exception(req)>>
    BY <1>3 DEF Sends
  <2>2. Exception(req).function = req.function + 128
    BY DEF Exception, Reply
  <2>3. req.function \in Int
    BY Functions DEF Requests
  <2>4. Exception(req).function # req.function
    BY <2>2, <2>3, SumDiffers, Zenon
  <2>5. Genuine(Exception(req), req, held)
    BY <2>4, Zenon DEF Genuine
  <2> QED BY <2>1, <2>5, OneIsGenuine, Zenon
<1> QED BY <1>1, <1>2, <1>3

\* ... and a whole one says what the request has made of the registers.
LEMMA GoodRepliesAreGenuine ==
  ASSUME NEW req \in Requests, req.slave \in Drivers, NEW fate \in {"cut", "arrives"},
         regs \in [Drivers -> [Registers -> Words]]
  PROVE  \A i \in 1 .. Len(Sends(req, fate)) : Genuine(Sends(req, fate)[i], req, Executed(req))
<1>1. req.function = READ \/ req.function = WRITE
  BY DEF Requests
<1>2. req.function = READ => Executed(req) = regs
  BY Functions DEF Executed
<1>3. req.function = WRITE => Executed(req)[req.slave][req.reg] = req.word
  BY WritingIsExecuted
<1>4. Reply(req, FALSE).function = READ => Reply(req, FALSE).word = regs[req.slave][req.reg]
  BY DEF Reply
<1>5. Genuine(Reply(req, FALSE), req, Executed(req))
  BY <1>2, <1>3, <1>4 DEF Genuine
<1>6. ASSUME NEW piece PROVE Genuine(Piece(Reply(req, FALSE), piece), req, Executed(req))
  BY <1>5 DEF Genuine, Piece, Reply
<1>7. CASE fate = "cut"
  <2>1. Sends(req, fate) = <<Piece(Reply(req, FALSE), "head"), Piece(Reply(req, FALSE), "rest")>>
    BY <1>7 DEF Sends
  <2> QED BY <1>6, <2>1, TwoAreGenuine, Zenon
<1>8. CASE fate = "arrives"
  <2>1. Sends(req, fate) = <<Reply(req, FALSE)>>
    BY <1>8 DEF Sends
  <2> QED BY <1>5, <2>1, OneIsGenuine, Zenon
<1> QED BY <1>7, <1>8
\* The end of a transaction: a reply left behind is remembered, and a success
\* is what a reply that passed both checks has said.
LEMMA ReceiveEnds ==
  ASSUME TInv, receive_msg
  PROVE  /\ request' = NoRequest /\ regs' = regs /\ inflight' = inflight
         /\ ~missed' => ~missed /\ rx' = <<>> /\ inflight' = <<>>
         /\ result'.ok => \E i \in 1 .. Len(rx) :
              ~rx[i].damaged /\ rx[i].function = request.function /\ result'.word = rx[i].word
<1>1. ASSUME NEW value, NEW rest, Return(value, rest), inflight' = inflight
      PROVE  /\ request' = NoRequest /\ regs' = regs /\ result' = value
             /\ ~missed' => ~missed /\ rx' = <<>> /\ inflight' = <<>>
  BY <1>1 DEF Return
<1>2. rx \in Seq(Replies)
  BY DEF TInv
<1>3. ~Failed.ok
  BY DEF Failed
<1>4. ASSUME rx # <<>>, result' = Confirmed(Head(rx)), result'.ok
      PROVE  \E i \in 1 .. Len(rx) :
              ~rx[i].damaged /\ rx[i].function = request.function /\ result'.word = rx[i].word
  <2>1. 1 \in 1 .. Len(rx) /\ Head(rx) = rx[1]
    BY <1>2, <1>4
  <2>2. check_integrity(rx[1]) /\ check_confirmation(request, rx[1])
    BY <1>3, <1>4, <2>1, Zenon DEF Confirmed
  <2>3. result' = Done(rx[1].word)
    BY <1>4, <2>1, <2>2, Zenon DEF Confirmed
  <2>4. result'.word = rx[1].word
    BY <2>3 DEF Done
  <2>5. ~rx[1].damaged /\ rx[1].function = request.function
    BY <2>2, Zenon DEF check_integrity, check_confirmation
  <2> QED BY <2>1, <2>4, <2>5, Zenon
<1>5. CASE receive_whole
  <2>1. rx # <<>> /\ Return(Confirmed(Head(rx)), Tail(rx)) /\ inflight' = inflight
    BY <1>5 DEF receive_whole
  <2>2. result' = Confirmed(Head(rx))
    BY <1>1, <2>1, Zenon
  <2> QED BY <1>1, <1>4, <2>1, <2>2, Zenon
<1>6. CASE receive_pieces
  <2>1. /\ Len(rx) > 1 /\ Return(Confirmed(Head(rx)), SubSeq(rx, 3, Len(rx)))
        /\ inflight' = inflight
    BY <1>6 DEF receive_pieces
  <2>2. result' = Confirmed(Head(rx))
    BY <1>1, <2>1, Zenon
  <2>3. rx # <<>>
    BY <1>2, <2>1
  <2> QED BY <1>1, <1>4, <2>1, <2>2, <2>3, Zenon
<1>7. CASE receive_garbage
  <2>1. inflight' = inflight
    BY <1>7 DEF receive_garbage
  <2>2. \E rest : Return(Failed, rest)
    BY <1>7, Zenon DEF receive_garbage
  <2>3. result' = Failed
    BY <2>2 DEF Return
  <2> QED BY <1>1, <1>3, <2>1, <2>2, <2>3, Zenon
<1>8. CASE receive_timeout
  <2>1. Return(Failed, <<>>) /\ inflight' = inflight
    BY <1>8 DEF receive_timeout
  <2>2. result' = Failed
    BY <2>1 DEF Return
  <2> QED BY <1>1, <1>3, <2>1, <2>2, Zenon
<1> QED BY <1>5, <1>6, <1>7, <1>8 DEF receive_msg

\* A transaction that is not misled by an earlier one and succeeds has read
\* what the driver holds, or written what it was to write.
LEMMA SuccessIsGenuine ==
  ASSUME TInv, LInv, Receive, ~missed, result'.ok
  PROVE  /\ request \in Requests /\ request = RequestOf(Head(todo))
         /\ request.slave \in Drivers
         /\ request.function = READ => result'.word = regs[request.slave][request.reg]
         /\ request.function = WRITE => regs[request.slave][request.reg] = request.word
<1>1. receive_msg /\ request # NoRequest
  BY DEF Receive, receive_msg
<1>2. request \in Requests /\ request = RequestOf(Head(todo))
  BY <1>1 DEF TInv, LInv
<1>3. PICK i \in 1 .. Len(rx) :
        ~rx[i].damaged /\ rx[i].function = request.function /\ result'.word = rx[i].word
  BY <1>1, ReceiveEnds, Zenon
<1>4. Genuine(rx[i], request, regs)
  BY <1>1, <1>3, Zenon DEF LInv
<1>5. /\ request.slave \in Drivers
      /\ request.function = READ => rx[i].word = regs[request.slave][request.reg]
      /\ request.function = WRITE => regs[request.slave][request.reg] = request.word
  BY <1>3, <1>4, Zenon DEF Genuine
<1> QED BY <1>2, <1>3, <1>5, Zenon

\* Every step keeps this.
LEMMA LinkStep ==
  ASSUME TInv, LInv, [Next]_vars
  PROVE  LInv'
<1>1. todo \in Seq(CallSet) /\ rx \in Seq(Replies) /\ inflight \in Seq(Replies)
  BY DEF TInv, IInv
<1>2. ASSUME UNCHANGED link, ~Doing("read"), ~Doing("write") PROVE LInv'
  <2>1. request = NoRequest
    BY <1>2 DEF LInv, Doing, Accesses
  <2> QED BY <1>2, <2>1 DEF LInv, link
<1>3. ASSUME NEW calls, NEW words, Execute(calls, words) PROVE LInv'
  <2>1. UNCHANGED link /\ todo = <<>>
    BY <1>3 DEF Execute
  <2> QED BY <1>2, <2>1 DEF Doing
<1>4. CASE StartCommand
  BY <1>3, <1>4, Zenon DEF StartCommand, get_par, set_par, setmult_par, check_drv_assoc,
     check_par_assoc
<1>5. CASE connect
  <2>1. UNCHANGED <<request, inflight, rx, regs, missed, todo>> /\ todo = <<>>
    BY <1>5 DEF connect, Connect
  <2>2. request = NoRequest
    BY <2>1 DEF LInv
  <2> QED BY <2>1, <2>2 DEF LInv
<1>6. CASE FlushPort
  <2>1. Doing("flush") /\ request' = request /\ inflight' = inflight /\ rx' = <<>>
    BY <1>6 DEF FlushPort, modbus_flush, Flushed
  <2>2. request = NoRequest
    BY <2>1 DEF LInv, Doing, Accesses
  <2>3. ~missed' => inflight = <<>>
    BY <1>6 DEF FlushPort, modbus_flush
  <2> QED BY <2>1, <2>2, <2>3 DEF LInv
<1>7. CASE Refused \/ ReportParameters \/ ReadBack \/ ReportAll
  <2>1. UNCHANGED link /\ ~Doing("read") /\ ~Doing("write")
    BY <1>7 DEF Refused, ReportParameters, ReadBack, ReportAll, Doing
  <2> QED BY <1>2, <2>1
<1>8. CASE Send
  <2> DEFINE req == RequestOf(Head(todo))
  <2>1. /\ todo # <<>> /\ todo' = todo /\ Head(todo).do \in Accesses
        /\ \E fate \in Fates : send_msg(req, fate)
    BY <1>8 DEF Send, Doing, Accesses, RequestOf
  <2>2. Head(todo) \in CallSet
    BY <1>1, <2>1
  <2>3. req \in Requests
    BY <2>1, <2>2, RequestIsTyped
  <2>4. PICK fate \in Fates : send_msg(req, fate)
    BY <2>1
  <2>5. Head(todo') = Head(todo)
    BY <2>1
  <2>6. request' = req /\ req = RequestOf(Head(todo'))
    BY <2>4, <2>5, Zenon DEF send_msg
  <2> HIDE DEF req
  <2>7. ASSUME ~missed'
        PROVE  /\ \A i \in 1 .. Len(rx') : Genuine(rx'[i], request', regs')
               /\ \A i \in 1 .. Len(inflight') : Genuine(inflight'[i], request', regs')
    <3>1. request = NoRequest /\ missed' = missed /\ rx' = rx
      BY <2>4 DEF send_msg
    <3>2. rx' = <<>> /\ inflight = <<>>
      BY <2>7, <3>1, Zenon DEF LInv
    <3>3. \A i \in 1 .. Len(rx') : Genuine(rx'[i], request', regs')
      BY <3>2, NoneInEmpty, Zenon
    <3>4. CASE req.slave \in Drivers
      <4>1. Sends(req, fate) \in Seq(Replies)
        BY <2>3, <3>4, SendsReplies DEF TInv, IInv
      <4>2. inflight' = inflight \o Sends(req, fate)
        BY <2>4, <3>4 DEF send_msg
      <4>3. inflight' = Sends(req, fate)
        BY <3>2, <4>1, <4>2
      <4>4. \A i \in 1 .. Len(Sends(req, fate)) : Genuine(Sends(req, fate)[i], req, regs')
        <5>1. CASE fate \in {"request lost", "reply lost", "damaged", "exception"}
          BY <2>3, <5>1, BadRepliesAreGenuine, Zenon
        <5>2. CASE fate \in {"cut", "arrives"}
          <6>1. regs' = Executed(req)
            BY <2>4, <5>2 DEF send_msg
          <6>2. regs \in [Drivers -> [Registers -> Words]]
            BY DEF TInv, IInv
          <6> QED BY <2>3, <3>4, <5>2, <6>1, <6>2, GoodRepliesAreGenuine, Zenon
        <5> QED BY <5>1, <5>2 DEF Fates
      <4> QED BY <2>6, <3>3, <4>3, <4>4, Zenon
    <3>5. CASE req.slave \notin Drivers
      <4>1. inflight' = <<>>
        BY <2>4, <3>2, <3>5 DEF send_msg
      <4> QED BY <3>3, <4>1, NoneInEmpty, Zenon
    <3> QED BY <3>4, <3>5
  <2>8. req # NoRequest
    BY <2>3 DEF Requests, NoRequest
  <2> QED BY <2>1, <2>5, <2>6, <2>7, <2>8 DEF LInv
<1>9. CASE Receive
  <2>1. receive_msg
    BY <1>9 DEF Receive
  <2>2. request' = NoRequest /\ (~missed' => rx' = <<>> /\ inflight' = <<>>)
    BY <2>1, ReceiveEnds, Zenon
  <2> QED BY <2>2, Zenon DEF LInv
<1>10. CASE ReplyArrives
  <2>1. /\ inflight # <<>> /\ rx' = Append(rx, Head(inflight)) /\ inflight' = Tail(inflight)
        /\ UNCHANGED <<regs, request, missed, todo>>
    BY <1>10 DEF ReplyArrives, Arrive
  <2>2. CASE ~missed
    <3>1. request # NoRequest
      BY <2>1, <2>2 DEF LInv
    <3>2. /\ \A i \in 1 .. Len(rx) : Genuine(rx[i], request, regs)
          /\ \A i \in 1 .. Len(inflight) : Genuine(inflight[i], request, regs)
      BY <2>2, <3>1, Zenon DEF LInv
    <3>3. ASSUME NEW i \in 1 .. Len(rx') PROVE Genuine(rx'[i], request, regs)
      <4>1. CASE i \in 1 .. Len(rx)
        <5>1. rx'[i] = rx[i]
          BY <1>1, <2>1, <4>1
        <5> QED BY <3>2, <4>1, <5>1, Zenon
      <4>2. CASE i \notin 1 .. Len(rx)
        <5>1. rx'[i] = inflight[1] /\ 1 \in 1 .. Len(inflight)
          BY <1>1, <2>1, <3>3, <4>2
        <5> QED BY <3>2, <5>1, Zenon
      <4> QED BY <4>1, <4>2
    <3>4. ASSUME NEW i \in 1 .. Len(inflight') PROVE Genuine(inflight'[i], request, regs)
      <4>1. inflight'[i] = inflight[i + 1] /\ i + 1 \in 1 .. Len(inflight)
        BY <1>1, <2>1, <3>4
      <4> QED BY <3>2, <4>1, Zenon
    <3> QED BY <2>1, <3>1, <3>3, <3>4 DEF LInv
  <2>3. CASE missed
    BY <2>1, <2>3 DEF LInv
  <2> QED BY <2>2, <2>3
<1>11. CASE UNCHANGED vars
  BY <1>11 DEF vars, link, LInv
<1> QED BY <1>4, <1>5, <1>6, <1>7, <1>8, <1>9, <1>10, <1>11 DEF Next, CommandThread

------------------------------------------------------------------------------
(* What a command has learnt.                                              *)

Truthful(held) ==
  \A i \in 1 .. Len(got) :
    got[i].ok => got[i].slave \in Drivers /\ got[i].word = held[got[i].slave][got[i].reg]

\* No command reads behind a writing without a flush, which forgets what was
\* learnt; so what a reading has learnt is still what the driver holds.
TellInv ==
  /\ \E q \in Seq(Quiet), m \in Seq(Mute) : todo = q \o m
  /\ ~missed /\ todo # <<>> /\ Head(todo).do \in Telling => Truthful(regs)

\* A sequence of quiet calls before mute ones: its head, and what is left.
LEMMA QuietThenMute ==
  ASSUME NEW q \in Seq(Quiet), NEW m \in Seq(Mute), NEW c, c = q \o m, c # <<>>
  PROVE  /\ \E p \in Seq(Quiet), n \in Seq(Mute) : Tail(c) = p \o n
         /\ Head(c).do \in Changing => Tail(c) \in Seq(Mute)
<1>1. CASE q = <<>>
  <2>1. c = m
    BY <1>1
  <2>2. Tail(c) \in Seq(Mute)
    BY <2>1
  <2>3. Tail(c) = <<>> \o Tail(c)
    BY <2>2
  <2>4. <<>> \in Seq(Quiet)
    BY EmptySeq
  <2> QED BY <2>2, <2>3, <2>4, Zenon
<1>2. CASE q # <<>>
  <2>1. Head(c) = Head(q) /\ Head(q) \in Quiet /\ Tail(q) \in Seq(Quiet)
    BY <1>2
  <2>2. Tail(c) = Tail(q) \o m
    BY <1>2
  <2>3. Head(c).do \notin Changing
    BY <2>1 DEF Quiet
  <2> QED BY <2>1, <2>2, <2>3, Zenon
<1> QED BY <1>1, <1>2

\* A block of calls begins with its flush.
LEMMA BlockBegins ==
  ASSUME NEW slave \in Nat, NEW t \in Seq(CallSet)
  PROVE  /\ GetPar(slave) # <<>>
         /\ GetPar(slave) \o t # <<>> /\ Head(GetPar(slave) \o t) = Flush
<1>1. Selected(slave, Readings(slave)) \in Seq(CallSet)
  <2>1. Readings(slave) \in Seq(CallSet)
    BY ReadingsAreQuiet, CallsMonotonic
  <2>2. Call("refused", slave, "none", 0) \in CallSet
    BY Frame, Zenon DEF Quiet
  <2> QED BY <2>1, <2>2, OneMakesASeq DEF Selected
<1>2. Flush \in CallSet /\ Conclude("getpar", slave) \in CallSet
  BY Frame, Zenon DEF Quiet
<1>3. <<Flush>> \in Seq(CallSet) /\ <<Conclude("getpar", slave)>> \in Seq(CallSet)
  BY <1>2, OneMakesASeq
<1>4. GetPar(slave) = <<Flush>> \o Selected(slave, Readings(slave)) \o <<Conclude("getpar", slave)>>
  BY DEF GetPar
<1> DEFINE x == Selected(slave, Readings(slave))
<1> DEFINE y == <<Conclude("getpar", slave)>>
<1> HIDE DEF x, y
<1>5. /\ (<<Flush>> \o x \o y) # <<>>
      /\ (<<Flush>> \o x \o y) \o t # <<>> /\ Head((<<Flush>> \o x \o y) \o t) = Flush
  BY <1>1, <1>2, <1>3 DEF x, y
<1> QED BY <1>4, <1>5 DEF x, y

\* A step that takes the first call off the list, and learns only the truth.
LEMMA TellTail ==
  ASSUME TInv, TellInv, todo # <<>>, todo' = Tail(todo),
         Head(todo).do \notin Changing /\ ~missed' => Truthful(regs)'
  PROVE  TellInv'
<1>1. PICK q \in Seq(Quiet), m \in Seq(Mute) : todo = q \o m
  BY DEF TellInv
<1>2. /\ \E p \in Seq(Quiet), n \in Seq(Mute) : todo' = p \o n
      /\ Head(todo).do \in Changing => todo' \in Seq(Mute)
  BY <1>1, QuietThenMute
<1>3. ASSUME todo' \in Seq(Mute), todo' # <<>> PROVE Head(todo').do \notin Telling
  <2>1. Head(todo') \in Mute
    BY <1>3
  <2> QED BY <2>1 DEF Mute
<1> QED BY <1>2, <1>3, Zenon DEF TellInv

\* Every step keeps this.
LEMMA TellStep ==
  ASSUME TInv, LInv, TellInv, [Next]_vars
  PROVE  TellInv'
<1>1. todo \in Seq(CallSet) /\ got \in Seq(Outcomes)
  BY DEF TInv, IInv
<1>2. got' = <<>> => Truthful(regs)'
  BY NoneInEmpty, Zenon DEF Truthful
<1>3. ASSUME NEW q \in Seq(Quiet), NEW m \in Seq(Mute), NEW words, Execute(q \o m, words)
      PROVE  TellInv'
  <2>1. (todo' = q \o m \/ todo' = <<>>) /\ got' = <<>>
    BY <1>3 DEF Execute
  <2>2. <<>> \in Seq(Quiet) /\ <<>> \in Seq(Mute) /\ <<>> = <<>> \o <<>>
    BY EmptySeq
  <2> QED BY <1>2, <2>1, <2>2, Zenon DEF TellInv
<1>4. ASSUME NEW q \in Seq(Quiet), NEW words, Execute(q, words) PROVE TellInv'
  <2>1. <<>> \in Seq(Mute) /\ q = q \o <<>>
    BY EmptySeq
  <2> QED BY <1>3, <1>4, <2>1
<1>5. ASSUME NEW m \in Seq(Mute), NEW words, Execute(m, words) PROVE TellInv'
  <2>1. <<>> \in Seq(Quiet) /\ m = <<>> \o m
    BY EmptySeq
  <2> QED BY <1>3, <1>5, <2>1
<1>6. CASE StartCommand
  <2>1. ASSUME NEW slave \in Asked, get_par(slave) PROVE TellInv'
    BY <1>4, <2>1, ReadOrWrite, InputAssumption DEF get_par
  <2>2. ASSUME NEW slave \in Asked, NEW input \in Inputs, set_par(slave, input) PROVE TellInv'
    <3>1. SetPar(slave, input) \in Seq(Mute)
      BY ReadOrWrite, InputAssumption
    <3> QED BY <1>5, <2>2, <3>1 DEF set_par
  <2>3. ASSUME NEW slaves \in Asked \X Asked, NEW input \in Inputs, setmult_par(slaves, input)
        PROVE TellInv'
    <3>1. slaves[1] \in Nat /\ slaves[2] \in Nat /\ input \in [1 .. 6 -> Int]
      BY InputAssumption
    <3>2. SetPar(slaves[1], input) \in Seq(Mute) /\ SetPar(slaves[2], input) \in Seq(Mute)
      BY <3>1, ReadOrWrite
    <3>3. SetParMult(slaves, input) \in Seq(Mute)
      BY <3>2 DEF SetParMult
    <3> QED BY <1>5, <2>3, <3>3 DEF setmult_par
  <2>4. CASE check_drv_assoc
    BY <1>4, <2>4, ReadOrWrite DEF check_drv_assoc
  <2>5. CASE check_par_assoc
    BY <1>4, <2>5, ReadOrWrite DEF check_par_assoc
  <2> QED BY <1>6, <2>1, <2>2, <2>3, <2>4, <2>5 DEF StartCommand
<1>7. CASE connect
  <2>1. todo = <<>> /\ todo' = todo
    BY <1>7 DEF connect
  <2> QED BY <2>1 DEF TellInv
<1>8. CASE FlushPort
  <2>1. todo # <<>> /\ todo' = Tail(todo) /\ got' = <<>>
    BY <1>8 DEF FlushPort, Doing, Next1
  <2> QED BY <1>2, <2>1, TellTail
<1>9. CASE Refused
  <2>1. todo # <<>> /\ todo' = Tail(todo)
    BY <1>9 DEF Refused, Doing, Next1
  <2>2. Len(got') = 1 /\ ~got'[1].ok
    BY <1>9 DEF Refused
  <2>3. \A i \in 1 .. 1 : i = 1
    OBVIOUS
  <2>4. Truthful(regs)'
    BY <2>2, <2>3, Zenon DEF Truthful
  <2> QED BY <2>1, <2>4, TellTail
<1>10. CASE Send
  <2>1. /\ todo # <<>> /\ todo' = todo /\ got' = got /\ Head(todo).do \in Accesses
        /\ \E fate \in Fates : send_msg(RequestOf(Head(todo)), fate)
    BY <1>10 DEF Send, Doing, Accesses, RequestOf
  <2>2. missed' = missed
    BY <2>1 DEF send_msg
  <2>3. Head(todo).do \in Telling => regs' = regs
    <3>1. SUFFICES ASSUME Head(todo).do \in Telling PROVE regs' = regs
      OBVIOUS
    <3>2. Head(todo).do = "read"
      BY <2>1, <3>1 DEF Telling, Accesses
    <3>3. RequestOf(Head(todo)).function = READ
      BY <3>2 DEF RequestOf, build_request_basis
    <3>4. Executed(RequestOf(Head(todo))) = regs
      BY <3>3, Functions DEF Executed
    <3> QED BY <2>1, <3>4 DEF send_msg
  <2> QED BY <2>1, <2>2, <2>3 DEF TellInv, Truthful
<1>11. CASE Receive
  <2>1. /\ todo # <<>> /\ todo' = Tail(todo) /\ receive_msg /\ Head(todo).do \in Accesses
        /\ got' = Append(got, [ok |-> result'.ok, word |-> result'.word,
                               slave |-> request.slave, reg |-> request.reg])
    BY <1>11 DEF Receive, Doing, Next1, Accesses
  <2>2. regs' = regs /\ (~missed' => ~missed)
    BY <2>1, ReceiveEnds, Zenon
  <2>3. ASSUME Head(todo).do \notin Changing, ~missed' PROVE Truthful(regs)'
    <3>1. Head(todo).do = "read"
      BY <2>1, <2>3 DEF Accesses, Changing
    <3>2. Truthful(regs)
      BY <2>1, <2>2, <2>3, <3>1 DEF TellInv, Telling
    <3>3. result'.ok => /\ request.slave \in Drivers
                        /\ result'.word = regs[request.slave][request.reg]
      <4>1. SUFFICES ASSUME result'.ok
                     PROVE  /\ request.slave \in Drivers
                            /\ result'.word = regs[request.slave][request.reg]
        OBVIOUS
      <4>2. /\ request = RequestOf(Head(todo)) /\ request.slave \in Drivers
            /\ request.function = READ => result'.word = regs[request.slave][request.reg]
        BY <1>11, <2>2, <2>3, <4>1, SuccessIsGenuine, Zenon
      <4>3. RequestOf(Head(todo)).function = READ
        BY <3>1 DEF RequestOf, build_request_basis
      <4> QED BY <4>2, <4>3
    <3>4. ASSUME NEW i \in 1 .. Len(got'), got'[i].ok
          PROVE  got'[i].slave \in Drivers /\ got'[i].word = regs[got'[i].slave][got'[i].reg]
      <4>1. CASE i \in 1 .. Len(got)
        <5>1. got'[i] = got[i]
          BY <1>1, <2>1, <4>1
        <5> QED BY <3>2, <3>4, <4>1, <5>1, Zenon DEF Truthful
      <4>2. CASE i \notin 1 .. Len(got)
        <5>1. got'[i] = [ok |-> result'.ok, word |-> result'.word,
                         slave |-> request.slave, reg |-> request.reg]
          BY <1>1, <2>1, <3>4, <4>2
        <5> QED BY <3>3, <3>4, <5>1
      <4> QED BY <4>1, <4>2
    <3> QED BY <2>2, <3>4, Zenon DEF Truthful
  <2> QED BY <2>1, <2>3, TellTail, Zenon
<1>12. CASE ReportParameters \/ ReportAll
  <2>1. /\ todo # <<>> /\ todo' = Tail(todo) /\ UNCHANGED <<link, got>>
        /\ Head(todo).do \in Telling
    BY <1>12 DEF ReportParameters, ReportAll, Doing, Next1, Telling
  <2>2. ~missed' => Truthful(regs)'
    BY <2>1 DEF TellInv, link, Truthful
  <2> QED BY <2>1, <2>2, TellTail, Zenon
<1>13. CASE ReadBack
  <2>1. /\ todo # <<>> /\ Head(todo).do = "setpar"
        /\ \/ todo' = GetPar(Head(todo).slave) \o Tail(todo)
           \/ todo' = Tail(todo)
    BY <1>13 DEF ReadBack, Doing, Next1
  <2>2. Head(todo).do \in Changing
    BY <2>1 DEF Changing
  <2>3. CASE todo' = Tail(todo)
    BY <2>1, <2>2, <2>3, TellTail, Zenon
  <2>4. CASE todo' = GetPar(Head(todo).slave) \o Tail(todo)
    <3>1. Head(todo) \in CallSet /\ Tail(todo) \in Seq(CallSet)
      BY <1>1, <2>1
    <3>2. Head(todo).slave \in Nat
      BY <3>1 DEF CallSet
    <3>3. GetPar(Head(todo).slave) \in Seq(Quiet)
      BY <3>2, ReadOrWrite
    <3>4. Tail(todo) \in Seq(Mute)
      BY <2>1, <2>2, QuietThenMute, Zenon DEF TellInv
    <3>5. Head(todo') = Flush
      BY <2>4, <3>1, <3>2, BlockBegins
    <3>6. Flush.do \notin Telling
      BY DEF Flush, Call, Telling
    <3> QED BY <2>4, <3>3, <3>4, <3>5, <3>6, Zenon DEF TellInv
  <2> QED BY <2>1, <2>3, <2>4
<1>14. CASE ReplyArrives
  BY <1>14 DEF ReplyArrives, Arrive, TellInv, Truthful
<1>15. CASE UNCHANGED vars
  BY <1>15 DEF vars, link, TellInv, Truthful
<1> QED BY <1>6, <1>7, <1>8, <1>9, <1>10, <1>11, <1>12, <1>13, <1>14, <1>15
        DEF Next, CommandThread

\* It holds at the start.
LEMMA LinkStart == Init => LInv /\ TellInv
<1> SUFFICES ASSUME Init PROVE LInv /\ TellInv
  OBVIOUS
<1>1. todo = <<>> /\ request = NoRequest /\ rx = <<>> /\ inflight = <<>>
  BY DEF Init, LinkInit
<1>2. <<>> \in Seq(Quiet) /\ <<>> \in Seq(Mute) /\ <<>> = <<>> \o <<>>
  BY EmptySeq
<1> QED BY <1>1, <1>2, Zenon DEF LInv, TellInv

\* What a step tells a client is what the drivers hold.
LEMMA AnswerIsTrue ==
  ASSUME TInv, TellInv, [Next]_vars, answer' # answer, ~missed, NEW i \in 1 .. Len(answer'.got),
         answer'.got[i].ok
  PROVE  /\ answer'.got[i].slave \in Drivers
         /\ answer'.got[i].word = regs[answer'.got[i].slave][answer'.got[i].reg]
<1> DEFINE Goal == /\ answer'.got[i].slave \in Drivers
                   /\ answer'.got[i].word = regs[answer'.got[i].slave][answer'.got[i].reg]
<1>1. todo \in Seq(CallSet) /\ got \in Seq(Outcomes)
  BY DEF TInv, IInv
<1>2. ASSUME answer'.got = <<>> PROVE Goal
  BY <1>2, NoneInEmpty, Zenon
<1>3. ASSUME NEW calls, NEW words, Execute(calls, words) PROVE Goal
  <2>1. answer' = NoAnswer
    BY <1>3 DEF Execute
  <2>2. answer'.got = <<>>
    BY <2>1 DEF NoAnswer
  <2> QED BY <1>2, <2>2
<1>4. CASE StartCommand
  BY <1>3, <1>4, Zenon DEF StartCommand, get_par, set_par, setmult_par, check_drv_assoc,
     check_par_assoc
<1>5. CASE connect \/ FlushPort \/ Refused \/ Send \/ Receive \/ ReplyArrives \/ UNCHANGED vars
  BY <1>5 DEF connect, FlushPort, Refused, Send, Receive, ReplyArrives, vars
<1>6. ASSUME Head(todo).do \in Telling, todo # <<>>, NEW k \in 1 .. Len(got), got[k].ok
      PROVE  got[k].slave \in Drivers /\ got[k].word = regs[got[k].slave][got[k].reg]
  BY <1>6, Zenon DEF TellInv, Truthful
<1>7. CASE ReportParameters
  <2>1. todo # <<>> /\ Head(todo).do = "getpar" /\ answer' = Reported(Head(todo).slave)
    BY <1>7 DEF ReportParameters, Doing
  <2>2. answer'.got = got \/ answer'.got = <<>>
    BY <2>1 DEF Reported
  <2>3. Head(todo).do \in Telling
    BY <2>1 DEF Telling
  <2> QED BY <1>2, <1>6, <2>1, <2>2, <2>3, Zenon
<1>8. CASE ReadBack
  <2>1. CASE AllOkay
    BY <1>8, <2>1 DEF ReadBack
  <2>2. CASE ~AllOkay
    <3>1. answer' = [to |-> "getpar", slave |-> Head(todo).slave, got |-> <<>>]
      BY <1>8, <2>2 DEF ReadBack
    <3>2. answer'.got = <<>>
      BY <3>1
    <3> QED BY <1>2, <3>2
  <2> QED BY <2>1, <2>2
<1>9. CASE ReportAll
  <2>1. /\ todo # <<>> /\ Head(todo).do \in Telling
        /\ answer'.got = [k \in 1 .. Len(got) |->
                            IF Found(got[k]) THEN got[k] ELSE NotFound(got[k])]
    BY <1>9 DEF ReportAll, Doing, Telling
  <2>2. Len(got) \in Nat
    BY <1>1
  <2>3. Len(answer'.got) = Len(got)
    BY <2>1, <2>2
  <2>4. i \in 1 .. Len(got)
    BY <2>3, Zenon
  <2>5. answer'.got[i] = IF Found(got[i]) THEN got[i] ELSE NotFound(got[i])
    BY <2>1, <2>4
  <2>6. ~NotFound(got[i]).ok
    <3>1. got[i] \in Outcomes
      BY <1>1, <2>4
    <3> QED BY <3>1 DEF NotFound, Outcomes
  <2>7. answer'.got[i] = got[i]
    BY <2>5, <2>6, Zenon
  <2> QED BY <1>6, <2>1, <2>4, <2>7, Zenon
<1> QED BY <1>4, <1>5, <1>7, <1>8, <1>9 DEF Next, CommandThread

------------------------------------------------------------------------------
(* How far a set_par has come.  The words it stands for are asked, which   *)
(* is empty for other commands and once a reply may have been mistaken.    *)

Setting(slave, words) ==
  <<Flush>> \o Selected(slave, Writings(slave, words)) \o <<Conclude("setpar", slave)>>

\* What is left of it when n writings are done, and when the driver number
\* is refused.
Left(slave, words, n) ==
  SubSeq(Writings(slave, words), n + 1, 6) \o <<Conclude("setpar", slave)>>
Denied(slave) == <<Call("refused", slave, "none", 0), Conclude("setpar", slave)>>

\* The calls by which the parameters are read back.
Reread(slave) ==
  {c \in Quiet : c.do \in {"flush", "read", "refused"} \/ c = Conclude("getpar", slave)}

Stored(slave, held, words) ==
  slave \in Drivers /\ \A i \in 1 .. 6 : held[slave][Parameter[i]] = words[i]

\* After n writings, those that succeeded are stored.
Writing(slave, later, n, c, g, held, words) ==
  /\ c = Left(slave, words, n) \o later
  /\ Len(g) = n
  /\ \A i \in 1 .. n : g[i].ok =>
       slave \in Drivers /\ held[slave][Parameter[i]] = words[i]

Rereading(slave, later, c, held, words) ==
  /\ Stored(slave, held, words)
  /\ \E d \in Seq(Reread(slave)) : d # <<>> /\ c = d \o later

Follows(later, words) == later = <<>> \/ \E next \in Nat : later = Setting(next, words)

Stage(c, g, held, words) ==
  \/ c = <<>>
  \/ \E slave \in Nat, later \in Seq(CallSet) :
       /\ Follows(later, words)
       /\ \/ c = Setting(slave, words) \o later
          \/ c = Denied(slave) \o later
          \/ c = <<Conclude("setpar", slave)>> \o later /\ \E i \in 1 .. Len(g) : ~g[i].ok
          \/ \E n \in 0 .. 6 : Writing(slave, later, n, c, g, held, words)
          \/ Rereading(slave, later, c, held, words)

SInv ==
  asked # <<>> =>
    /\ \E input \in [1 .. 6 -> Int] : asked = Wanted(input)
    /\ Stage(todo, got, regs, asked)

\* The writings of SetPar, one by one.
LEMMA EachWriting ==
  ASSUME NEW slave, NEW w
  PROVE  /\ Len(Writings(slave, w)) = 6
         /\ \A i \in 1 .. 6 : Writings(slave, w)[i] = Write(slave, Parameter[i], w[i])
<1>1. \A i \in 1 .. 6 : i = 1 \/ i = 2 \/ i = 3 \/ i = 4 \/ i = 5 \/ i = 6
  OBVIOUS
<1>2. /\ Parameter[1] = "MaxVel" /\ Parameter[2] = "VelHome" /\ Parameter[3] = "Acceleration"
      /\ Parameter[4] = "Deceleration" /\ Parameter[5] = "PhaseCurrent"
      /\ Parameter[6] = "AnalogOutput0"
  BY DEF Parameter
<1> DEFINE a == SetMaxVel(slave, w[1])
<1> DEFINE b == SetVelHome(slave, w[2])
<1> DEFINE c == SetAcceleration(slave, w[3])
<1> DEFINE d == SetDeceleration(slave, w[4])
<1> DEFINE e == SetPhaseCurrent(slave, w[5])
<1> DEFINE f == SetAnalogOutput0(slave, w[6])
<1>3. Writings(slave, w) = <<a, b, c, d, e, f>>
  BY DEF Writings
<1>4. /\ a = Write(slave, Parameter[1], w[1]) /\ b = Write(slave, Parameter[2], w[2])
      /\ c = Write(slave, Parameter[3], w[3]) /\ d = Write(slave, Parameter[4], w[4])
      /\ e = Write(slave, Parameter[5], w[5]) /\ f = Write(slave, Parameter[6], w[6])
  BY <1>2 DEF SetMaxVel, SetVelHome, SetAcceleration, SetDeceleration, SetPhaseCurrent,
     SetAnalogOutput0
<1> HIDE DEF a, b, c, d, e, f
<1>5. /\ Len(<<a, b, c, d, e, f>>) = 6
      /\ <<a, b, c, d, e, f>>[1] = a /\ <<a, b, c, d, e, f>>[2] = b
      /\ <<a, b, c, d, e, f>>[3] = c /\ <<a, b, c, d, e, f>>[4] = d
      /\ <<a, b, c, d, e, f>>[5] = e /\ <<a, b, c, d, e, f>>[6] = f
  OBVIOUS
<1> QED BY <1>1, <1>3, <1>4, <1>5, Zenon

LEMMA ParametersDiffer == \A i, j \in 1 .. 6 : i # j => Parameter[i] # Parameter[j]
<1>1. \A i \in 1 .. 6 : i = 1 \/ i = 2 \/ i = 3 \/ i = 4 \/ i = 5 \/ i = 6
  OBVIOUS
<1>2. /\ Parameter[1] = "MaxVel" /\ Parameter[2] = "VelHome" /\ Parameter[3] = "Acceleration"
      /\ Parameter[4] = "Deceleration" /\ Parameter[5] = "PhaseCurrent"
      /\ Parameter[6] = "AnalogOutput0"
  BY DEF Parameter
<1> QED BY <1>1, <1>2

\* The next call of a list, and what is behind it.
LEMMA ConsIsHeadTail ==
  ASSUME NEW a \in CallSet, NEW x \in Seq(CallSet)
  PROVE  <<a>> \o x # <<>> /\ Head(<<a>> \o x) = a /\ Tail(<<a>> \o x) = x
OBVIOUS

LEMMA BlockIsHeadTail ==
  ASSUME NEW a \in CallSet, NEW x \in Seq(CallSet), NEW y \in Seq(CallSet),
         NEW z \in Seq(CallSet), NEW b, b = <<a>> \o x \o y
  PROVE  /\ b \o z # <<>> /\ Head(b \o z) = a
         /\ Tail(b \o z) = Tail(b) \o z /\ Tail(b) = x \o y
<1>1. b \in Seq(CallSet) /\ b # <<>> /\ Head(b) = a
  OBVIOUS
<1>2. Tail(b) = x \o y
  OBVIOUS
<1>3. b \o z # <<>> /\ Head(b \o z) = Head(b) /\ Tail(b \o z) = Tail(b) \o z
  BY <1>1
<1> QED BY <1>1, <1>2, <1>3, Zenon

LEMMA TailOfBlock ==
  ASSUME NEW a \in CallSet
  PROVE  \A v, w \in Seq(CallSet) : Tail(<<a>> \o v \o w) = v \o w
<1> SUFFICES ASSUME NEW v \in Seq(CallSet), NEW w \in Seq(CallSet)
             PROVE  Tail(<<a>> \o v \o w) = v \o w
  OBVIOUS
<1>1. Tail(<<a>> \o (v \o w)) = v \o w
  OBVIOUS
<1>2. (<<a>> \o v) \o w = <<a>> \o (v \o w)
  <2>1. <<a>> \in Seq(CallSet)
    BY OneMakesASeq
  <2> QED BY <2>1, ConcatAssociative
<1> QED BY <1>1, <1>2

LEMMA PairIsConcat ==
  ASSUME NEW S, NEW a \in S, NEW b \in S
  PROVE  <<a>> \o <<b>> = <<a, b>>
<1>1. <<a>> \in Seq(S) /\ <<b>> \in Seq(S)
  BY OneMakesASeq
<1>2. Len(<<a>>) = 1 /\ Len(<<b>>) = 1 /\ <<a>>[1] = a /\ <<b>>[1] = b
  OBVIOUS
<1>3. Len(<<a, b>>) = 2 /\ <<a, b>>[1] = a /\ <<a, b>>[2] = b
  OBVIOUS
<1>4. Len(<<a>> \o <<b>>) = 2 /\ (<<a>> \o <<b>>)[1] = a /\ (<<a>> \o <<b>>)[2] = b
  BY <1>1, <1>2, ConcatProperties
<1>5. <<a>> \o <<b>> \in Seq(S) /\ <<a, b>> \in Seq(S)
  BY <1>1, TwoMakeASeq
<1>6. \A i \in 1 .. 2 : i = 1 \/ i = 2
  OBVIOUS
<1>7. \A i \in 1 .. 2 : (<<a>> \o <<b>>)[i] = <<a, b>>[i]
  BY <1>3, <1>4, <1>6, Zenon
<1> QED BY <1>3, <1>4, <1>5, <1>7, SeqEqual

LEMMA TwoAhead ==
  ASSUME NEW a \in CallSet, NEW b \in CallSet, NEW z \in Seq(CallSet)
  PROVE  /\ <<a, b>> \o z # <<>> /\ Head(<<a, b>> \o z) = a
         /\ Tail(<<a, b>> \o z) = <<b>> \o z
<1>1. <<a>> \in Seq(CallSet) /\ <<b>> \in Seq(CallSet)
  BY OneMakesASeq
<1>2. <<b>> \o z \in Seq(CallSet)
  BY <1>1
<1>3. <<a, b>> \o z = <<a>> \o (<<b>> \o z)
  <2>1. <<a>> \o <<b>> = <<a, b>>
    BY PairIsConcat
  <2>2. (<<a>> \o <<b>>) \o z = <<a>> \o (<<b>> \o z)
    BY <1>1, ConcatAssociative
  <2> QED BY <2>1, <2>2, Zenon
<1> QED BY <1>2, <1>3, ConsIsHeadTail, Zenon

LEMMA RestOfSix ==
  ASSUME NEW w \in Seq(CallSet), Len(w) = 6, NEW a \in CallSet, NEW z \in Seq(CallSet),
         NEW n \in 0 .. 5
  PROVE  /\ (SubSeq(w, n + 1, 6) \o <<a>>) \o z # <<>>
         /\ Head((SubSeq(w, n + 1, 6) \o <<a>>) \o z) = w[n + 1]
         /\ Tail((SubSeq(w, n + 1, 6) \o <<a>>) \o z) = (SubSeq(w, n + 2, 6) \o <<a>>) \o z
<1> DEFINE x == SubSeq(w, n + 1, 6)
<1>1. n + 1 \in 1 .. Len(w) /\ 6 \in n + 1 .. Len(w) /\ n + 1 + 1 = n + 2
  OBVIOUS
<1>2. Head(x) = w[n + 1] /\ Tail(x) = SubSeq(w, n + 2, 6)
  BY <1>1, HeadTailOfSubSeq
<1>6. x \in Seq(CallSet) /\ x # <<>>
  <2>1. ASSUME NEW i \in n + 1 .. 6 PROVE w[i] \in CallSet
    <3>1. i \in 1 .. Len(w)
      OBVIOUS
    <3> QED BY <3>1, ElementOfSeq
  <2>2. x \in Seq(CallSet) /\ Len(x) = IF n + 1 <= 6 THEN 6 - (n + 1) + 1 ELSE 0
    BY <2>1, SubSeqProperties
  <2>3. Len(x) # 0
    BY <2>2
  <2>4. Len(<<>>) = 0
    OBVIOUS
  <2> QED BY <2>2, <2>3, <2>4, Zenon
<1>3. Tail(x) \in Seq(CallSet)
  BY <1>6
<1> HIDE DEF x
<1>4. (x \o <<a>>) \o z # <<>> /\ Head((x \o <<a>>) \o z) = Head(x)
  BY <1>6
<1>5. Tail((x \o <<a>>) \o z) = (Tail(x) \o <<a>>) \o z
  BY <1>3, <1>6
<1> QED BY <1>2, <1>4, <1>5 DEF x

LEMMA SixDone ==
  ASSUME NEW w \in Seq(CallSet), Len(w) = 6, NEW a \in CallSet
  PROVE  /\ SubSeq(w, 7, 6) \o <<a>> = <<a>>
         /\ SubSeq(w, 1, 6) = w
<1>1. SubSeq(w, 7, 6) = <<>>
  BY SubSeqEmpty
<1>2. <<>> \o <<a>> = <<a>>
  OBVIOUS
<1>3. SubSeq(w, 1, 6) = w
  BY SubSeqFull
<1> QED BY <1>1, <1>2, <1>3
\* The calls of a set_par, for what follows.
LEMMA SettingParts ==
  ASSUME NEW slave \in Nat, NEW input \in [1 .. 6 -> Int]
  PROVE  /\ Writings(slave, Wanted(input)) \in Seq(CallSet)
         /\ Flush \in CallSet /\ Call("refused", slave, "none", 0) \in CallSet
         /\ Conclude("setpar", slave) \in CallSet
         /\ Setting(slave, Wanted(input)) = SetPar(slave, input)
         /\ Setting(slave, Wanted(input)) \in Seq(CallSet)
<1>1. Setting(slave, Wanted(input)) = SetPar(slave, input)
  BY DEF Setting, SetPar
<1>2. /\ Writings(slave, Wanted(input)) \in Seq(CallSet)
      /\ SetPar(slave, input) \in Seq(CallSet)
  BY WritingsAreMute, CallsMonotonic, CommandsAreCalls
<1>3. /\ Flush \in CallSet /\ Call("refused", slave, "none", 0) \in CallSet
      /\ Conclude("setpar", slave) \in CallSet
  BY Frame, Zenon DEF Mute
<1> QED BY <1>1, <1>2, <1>3

\* Where a set_par can stand, by the call that is next.
AtFlush(slave, later, c, words) ==
  /\ Head(c).do = "flush"
  /\ Tail(c) = Left(slave, words, 0) \o later \/ Tail(c) = Denied(slave) \o later

AtRefused(slave, later, c) ==
  Head(c).do = "refused" /\ Tail(c) = <<Conclude("setpar", slave)>> \o later

AtWrite(slave, later, n, c, g, held, words) ==
  /\ Head(c) = Write(slave, Parameter[n + 1], words[n + 1])
  /\ Writing(slave, later, n, c, g, held, words)
  /\ Tail(c) = Left(slave, words, n + 1) \o later

AtConclusion(slave, later, c, g, held, words) ==
  /\ Head(c) = Conclude("setpar", slave) /\ Tail(c) = later
  /\ (\E i \in 1 .. Len(g) : ~g[i].ok) \/ Stored(slave, held, words)

AtReread(slave, later, c, held, words) ==
  /\ Head(c) \in Reread(slave) /\ Stored(slave, held, words)
  /\ Tail(c) = later \/ Rereading(slave, later, Tail(c), held, words)

At(slave, later, c, g, held, words) ==
  \/ AtFlush(slave, later, c, words)
  \/ AtRefused(slave, later, c)
  \/ \E n \in 0 .. 5 : AtWrite(slave, later, n, c, g, held, words)
  \/ AtConclusion(slave, later, c, g, held, words)
  \/ AtReread(slave, later, c, held, words)

LEMMA FlushDoes == Flush.do = "flush"
BY DEF Flush, Call

LEMMA RefusedDoes == \A slave : Call("refused", slave, "none", 0).do = "refused"
BY DEF Call

\* The head and the tail of two sequences one after the other.
LEMMA TailOfConcat ==
  ASSUME NEW S, NEW a \in Seq(S), a # <<>>, NEW b \in Seq(S)
  PROVE  Head(a \o b) = Head(a) /\ Tail(a \o b) = Tail(a) \o b
OBVIOUS

LEMMA WhereItStands ==
  ASSUME NEW input \in [1 .. 6 -> Int], NEW c, NEW g, NEW held,
         Stage(c, g, held, Wanted(input)), c # <<>>
  PROVE  \E slave \in Nat, later \in Seq(CallSet) :
           Follows(later, Wanted(input)) /\ At(slave, later, c, g, held, Wanted(input))
<1> DEFINE words == Wanted(input)
<1>1. PICK slave \in Nat, later \in Seq(CallSet) :
       /\ Follows(later, words)
       /\ \/ c = Setting(slave, words) \o later
          \/ c = Denied(slave) \o later
          \/ c = <<Conclude("setpar", slave)>> \o later /\ \E i \in 1 .. Len(g) : ~g[i].ok
          \/ \E n \in 0 .. 6 : Writing(slave, later, n, c, g, held, words)
          \/ Rereading(slave, later, c, held, words)
  BY DEF Stage
<1>2. /\ Writings(slave, words) \in Seq(CallSet)
      /\ Flush \in CallSet /\ Call("refused", slave, "none", 0) \in CallSet
      /\ Conclude("setpar", slave) \in CallSet
  BY SettingParts
<1>3. /\ Len(Writings(slave, words)) = 6
      /\ \A i \in 1 .. 6 : Writings(slave, words)[i] = Write(slave, Parameter[i], words[i])
  BY EachWriting
<1> HIDE DEF words
<1>4. SubSeq(Writings(slave, words), 1, 6) = Writings(slave, words)
  BY <1>2, <1>3, SixDone
<1>5. CASE c = Setting(slave, words) \o later
  <2> DEFINE x == Selected(slave, Writings(slave, words))
  <2> DEFINE y == <<Conclude("setpar", slave)>>
  <2>1. <<Call("refused", slave, "none", 0)>> \in Seq(CallSet) /\ y \in Seq(CallSet)
    BY <1>2, OneMakesASeq
  <2>2. x \in Seq(CallSet)
    BY <1>2, <2>1 DEF Selected
  <2>3. Head(c) = Flush /\ \A u : u = x \o y => Tail(c) = u \o later
    <3> DEFINE b == Setting(slave, words)
    <3>1. b = <<Flush>> \o x \o y
      BY Zenon DEF Setting
    <3> HIDE DEF x, y, b
    <3>2. c = b \o later
      BY <1>5 DEF b
    <3>3. Flush \in CallSet /\ later \in Seq(CallSet)
      BY <1>1, <1>2
    <3>4. x \in Seq(CallSet) /\ y \in Seq(CallSet)
      BY <2>1, <2>2
    <3>5. Head(b \o later) = Flush
      BY <3>1, <3>3, <3>4, BlockIsHeadTail
    <3>6. Tail(b) = x \o y
      BY <3>1, <3>3, <3>4, TailOfBlock, Zenon
    <3>7. b \in Seq(CallSet) /\ b # <<>>
      BY <3>1, <3>3, <3>4
    <3>8. Tail(b \o later) = Tail(b) \o later
      BY <3>3, <3>7
    <3> QED BY <3>2, <3>5, <3>6, <3>8, Zenon
  <2>4. CASE modbus_set_slave(slave)
    <3>1. x = Writings(slave, words)
      BY <2>4 DEF Selected
    <3>2. Left(slave, words, 0) = x \o y
      <4>1. 0 + 1 = 1
        OBVIOUS
      <4> HIDE DEF x
      <4> QED BY <1>4, <3>1, <4>1, Zenon DEF Left
    <3> HIDE DEF x, y
    <3>3. AtFlush(slave, later, c, words)
      BY <2>3, <3>2, FlushDoes, Zenon DEF AtFlush
    <3> QED BY <1>1, <3>3, Zenon DEF At, words
  <2>5. CASE ~modbus_set_slave(slave)
    <3>1. x = <<Call("refused", slave, "none", 0)>>
      BY <2>5 DEF Selected
    <3>2. x \o y = Denied(slave)
      <4> HIDE DEF x
      <4> QED BY <1>2, <3>1, PairIsConcat, Zenon DEF Denied
    <3> HIDE DEF x, y
    <3>3. AtFlush(slave, later, c, words)
      BY <2>3, <3>2, FlushDoes, Zenon DEF AtFlush
    <3> QED BY <1>1, <3>3, Zenon DEF At, words
  <2> QED BY <2>4, <2>5
<1>6. CASE c = Denied(slave) \o later
  <2>1. /\ Head(c) = Call("refused", slave, "none", 0)
        /\ Tail(c) = <<Conclude("setpar", slave)>> \o later
    BY <1>1, <1>2, <1>6, TwoAhead, Zenon DEF Denied
  <2>2. AtRefused(slave, later, c)
    BY <2>1, RefusedDoes, Zenon DEF AtRefused
  <2> QED BY <1>1, <2>2 DEF At, words
<1>7. CASE c = <<Conclude("setpar", slave)>> \o later /\ \E i \in 1 .. Len(g) : ~g[i].ok
  <2>1. Head(c) = Conclude("setpar", slave) /\ Tail(c) = later
    BY <1>1, <1>2, <1>7, ConsIsHeadTail, Zenon
  <2>2. AtConclusion(slave, later, c, g, held, words)
    BY <1>7, <2>1 DEF AtConclusion
  <2> QED BY <1>1, <2>2 DEF At, words
<1>8. ASSUME NEW n \in 0 .. 6, Writing(slave, later, n, c, g, held, words)
      PROVE  At(slave, later, c, g, held, words)
  <2>1. CASE n \in 0 .. 5
    <3>1. Head(c) = Writings(slave, words)[n + 1] /\ Tail(c) = Left(slave, words, n + 1) \o later
      <4>1. n + 1 + 1 = n + 2
        BY <2>1
      <4>2. c = (SubSeq(Writings(slave, words), n + 1, 6) \o <<Conclude("setpar", slave)>>) \o later
        BY <1>8, Zenon DEF Writing, Left
      <4>3. /\ Head(c) = Writings(slave, words)[n + 1]
            /\ Tail(c) = (SubSeq(Writings(slave, words), n + 2, 6)
                            \o <<Conclude("setpar", slave)>>) \o later
        BY <1>2, <1>3, <2>1, <4>2, RestOfSix, Zenon
      <4> QED BY <4>1, <4>3, Zenon DEF Left
    <3>2. n + 1 \in 1 .. 6
      BY <2>1
    <3>3. AtWrite(slave, later, n, c, g, held, words)
      BY <1>3, <1>8, <3>1, <3>2 DEF AtWrite
    <3> QED BY <2>1, <3>3 DEF At
  <2>2. CASE n = 6
    <3>1. Left(slave, words, 6) = <<Conclude("setpar", slave)>>
      BY <1>2, <1>3, SixDone DEF Left
    <3>2. Head(c) = Conclude("setpar", slave) /\ Tail(c) = later
      <4>1. c = <<Conclude("setpar", slave)>> \o later
        BY <1>8, <2>2, <3>1, Zenon DEF Writing
      <4> QED BY <1>2, <4>1, ConsIsHeadTail, Zenon
    <3>3. (\E i \in 1 .. Len(g) : ~g[i].ok) \/ Stored(slave, held, words)
      <4>1. /\ Len(g) = 6
            /\ \A i \in 1 .. 6 : g[i].ok =>
                 slave \in Drivers /\ held[slave][Parameter[i]] = words[i]
        BY <1>8, <2>2, Zenon DEF Writing
      <4>2. 1 \in 1 .. 6
        OBVIOUS
      <4> QED BY <4>1, <4>2, Zenon DEF Stored
    <3>4. AtConclusion(slave, later, c, g, held, words)
      BY <3>2, <3>3 DEF AtConclusion
    <3> QED BY <3>4 DEF At
  <2> QED BY <2>1, <2>2
<1>9. CASE Rereading(slave, later, c, held, words)
  <2>1. PICK d \in Seq(Reread(slave)) : d # <<>> /\ c = d \o later
    BY <1>9 DEF Rereading
  <2>2. Head(c) = Head(d) /\ Head(d) \in Reread(slave) /\ Tail(d) \in Seq(Reread(slave))
    BY <2>1
  <2>3. d \in Seq(CallSet)
    <3>1. Reread(slave) \subseteq CallSet
      BY Zenon DEF Reread, Quiet
    <3> QED BY <3>1, SeqMonotonic
  <2>4. Tail(c) = Tail(d) \o later
    <3>1. later \in Seq(CallSet) /\ d # <<>>
      BY <2>1
    <3>2. Tail(d \o later) = Tail(d) \o later
      BY <2>3, <3>1, TailOfConcat, Zenon
    <3> QED BY <2>1, <3>2
  <2>5. CASE Tail(d) = <<>>
    <3>1. Tail(c) = later
      <4>1. <<>> \o later = later
        OBVIOUS
      <4> QED BY <2>4, <2>5, <4>1, Zenon
    <3>2. AtReread(slave, later, c, held, words)
      BY <1>9, <2>2, <3>1 DEF AtReread, Rereading
    <3> QED BY <1>1, <3>2 DEF At, words
  <2>6. CASE Tail(d) # <<>>
    <3>1. Rereading(slave, later, Tail(c), held, words)
      BY <1>9, <2>2, <2>4, <2>6, Zenon DEF Rereading
    <3>2. AtReread(slave, later, c, held, words)
      BY <1>9, <2>2, <3>1, Zenon DEF AtReread, Rereading
    <3> QED BY <1>1, <3>2 DEF At, words
  <2> QED BY <2>5, <2>6
<1> QED BY <1>1, <1>5, <1>6, <1>7, <1>8, <1>9 DEF words
\* The reading back is made of such calls.
LEMMA GetParRereads ==
  ASSUME NEW slave \in Nat
  PROVE  GetPar(slave) \in Seq(Reread(slave)) /\ GetPar(slave) # <<>>
<1>1. /\ Flush \in Reread(slave) /\ Call("refused", slave, "none", 0) \in Reread(slave)
      /\ Conclude("getpar", slave) \in Reread(slave)
  <2>1. Flush.do = "flush" /\ Call("refused", slave, "none", 0).do = "refused"
    BY DEF Flush, Call
  <2>2. "flush" \in {"flush", "read", "refused"} /\ "refused" \in {"flush", "read", "refused"}
    OBVIOUS
  <2> QED BY <2>1, <2>2, Frame, Zenon DEF Reread
<1>2. ASSUME NEW reg \in RegisterNames PROVE Read(slave, reg) \in Reread(slave)
  <2>1. Read(slave, reg).do = "read"
    BY DEF Read, Call
  <2>2. "read" \in {"flush", "read", "refused"}
    OBVIOUS
  <2> QED BY <2>1, <2>2, IsReading, Zenon DEF Reread
<1>3. /\ ReadMaxVel(slave) \in Reread(slave) /\ ReadVelHome(slave) \in Reread(slave)
      /\ ReadAcceleration(slave) \in Reread(slave) /\ ReadDeceleration(slave) \in Reread(slave)
      /\ ReadPhaseCurrent(slave) \in Reread(slave) /\ ReadAnalogOutput0(slave) \in Reread(slave)
  BY <1>2 DEF ReadMaxVel, ReadVelHome, ReadAcceleration, ReadDeceleration,
       ReadPhaseCurrent, ReadAnalogOutput0, RegisterNames
<1>4. Readings(slave) \in Seq(Reread(slave))
  BY <1>3, SixCalls DEF Readings
<1>5. GetPar(slave) \in Seq(Reread(slave))
  BY <1>1, <1>4, BlockIsCalls DEF GetPar
<1> QED BY <1>5, BlockBegins, EmptySeq

\* A new block, or the end, is a stage of its own.
LEMMA NextBlock ==
  ASSUME NEW g, NEW held, NEW words, NEW later, Follows(later, words),
         \A next \in Nat : Setting(next, words) \in Seq(CallSet)
  PROVE  Stage(later, g, held, words)
<1>1. CASE later = <<>>
  BY <1>1 DEF Stage
<1>2. CASE later # <<>>
  <2>1. PICK next \in Nat : later = Setting(next, words)
    BY <1>2 DEF Follows
  <2>2. <<>> \in Seq(CallSet) /\ Follows(<<>>, words)
    BY EmptySeq DEF Follows
  <2>3. later = Setting(next, words) \o <<>>
    BY <2>1
  <2> QED BY <2>2, <2>3, Zenon DEF Stage
<1> QED BY <1>1, <1>2

\* How the stages follow each other.
LEMMA StageStep ==
  ASSUME TInv, LInv, SInv, asked # <<>>, asked' = asked, todo # <<>>, CommandThread
  PROVE  Stage(todo', got', regs', asked)
<1>1. PICK input \in [1 .. 6 -> Int] : asked = Wanted(input)
  BY DEF SInv
<1>2. Stage(todo, got, regs, asked)
  BY DEF SInv
<1>3. PICK slave \in Nat, later \in Seq(CallSet) :
        Follows(later, asked) /\ At(slave, later, todo, got, regs, asked)
  BY <1>1, <1>2, WhereItStands
<1>4. \A next \in Nat : Setting(next, asked) \in Seq(CallSet)
  BY <1>1, SettingParts
<1>5. todo \in Seq(CallSet) /\ got \in Seq(Outcomes) /\ regs \in [Drivers -> [Registers -> Words]]
  BY DEF TInv, IInv
<1>6. ASSUME todo' = later PROVE Stage(todo', got', regs', asked)
  BY <1>3, <1>4, <1>6, NextBlock, Zenon
<1>7. CASE AtFlush(slave, later, todo, asked)
  <2>1. Head(todo).do = "flush"
    BY <1>7 DEF AtFlush
  <2>2. FlushPort
    BY <2>1 DEF CommandThread, Refused, Send, Receive, ReportParameters, ReadBack, ReportAll, Doing
  <2>3. todo' = Tail(todo) /\ got' = <<>> /\ regs' = regs
    BY <2>2 DEF FlushPort, Next1, modbus_flush
  <2>4. CASE todo' = Denied(slave) \o later
    BY <1>3, <2>4, Zenon DEF Stage
  <2>5. CASE todo' = Left(slave, asked, 0) \o later
    <3>1. Len(got') = 0 /\ \A i \in 1 .. 0 : FALSE
      BY <2>3
    <3>2. Writing(slave, later, 0, todo', got', regs', asked)
      BY <2>5, <3>1, Zenon DEF Writing
    <3>3. 0 \in 0 .. 6
      OBVIOUS
    <3> QED BY <1>3, <3>2, <3>3, Zenon DEF Stage
  <2> QED BY <1>7, <2>3, <2>4, <2>5 DEF AtFlush
<1>8. CASE AtRefused(slave, later, todo)
  <2>1. Head(todo).do = "refused"
    BY <1>8 DEF AtRefused
  <2>2. Refused
    BY <2>1 DEF CommandThread, FlushPort, Send, Receive, ReportParameters, ReadBack, ReportAll,
       Doing
  <2>3. todo' = <<Conclude("setpar", slave)>> \o later
    BY <1>8, <2>2 DEF AtRefused, Refused, Next1
  <2>4. Len(got') = 1 /\ ~got'[1].ok
    BY <2>2 DEF Refused
  <2>5. 1 \in 1 .. Len(got')
    BY <2>4
  <2> QED BY <1>3, <2>3, <2>4, <2>5, Zenon DEF Stage
<1>9. ASSUME NEW n \in 0 .. 5, AtWrite(slave, later, n, todo, got, regs, asked)
      PROVE  Stage(todo', got', regs', asked)
  <2>1. /\ Head(todo) = Write(slave, Parameter[n + 1], asked[n + 1])
        /\ Tail(todo) = Left(slave, asked, n + 1) \o later
        /\ Writing(slave, later, n, todo, got, regs, asked)
    BY <1>9 DEF AtWrite
  <2>2. Head(todo).do = "write"
    BY <2>1 DEF Write, Call
  <2>3. RequestOf(Head(todo)).function = WRITE
    BY <2>2 DEF RequestOf, build_request_basis
  <2>4. /\ RequestOf(Head(todo)).slave = slave
        /\ RequestOf(Head(todo)).reg = Parameter[n + 1]
        /\ RequestOf(Head(todo)).word = asked[n + 1]
    BY <2>1 DEF RequestOf, build_request_basis, Write, Call
  <2>5. CASE Send
    <3>1. todo' = todo /\ got' = got /\ \E fate \in Fates : send_msg(RequestOf(Head(todo)), fate)
      BY <2>5 DEF Send, RequestOf
    <3>2. regs' = regs \/ regs' = Executed(RequestOf(Head(todo)))
      BY <3>1 DEF send_msg
    <3>3. ASSUME NEW i \in 1 .. n, got[i].ok
          PROVE  slave \in Drivers /\ regs'[slave][Parameter[i]] = asked[i]
      <4>1. slave \in Drivers /\ regs[slave][Parameter[i]] = asked[i]
        BY <2>1, <3>3, Zenon DEF Writing
      <4>2. CASE regs' = regs
        BY <4>1, <4>2
      <4>3. CASE regs' = Executed(RequestOf(Head(todo)))
        <5> DEFINE req == RequestOf(Head(todo))
        <5>1. Parameter[i] # Parameter[n + 1]
          <6>1. i \in 1 .. 6 /\ n + 1 \in 1 .. 6 /\ i # n + 1
            OBVIOUS
          <6> QED BY <6>1, ParametersDiffer
        <5>2. Parameter[i] # req.reg
          BY <2>4, <5>1
        <5> HIDE DEF req
        <5>3. Executed(req)[slave][Parameter[i]] = regs[slave][Parameter[i]]
          BY <1>5, <4>1, <5>2 DEF Executed
        <5> QED BY <4>1, <4>3, <5>3 DEF req
      <4> QED BY <3>2, <4>2, <4>3
    <3>4. Writing(slave, later, n, todo', got', regs', asked)
      BY <2>1, <3>1, <3>3, Zenon DEF Writing
    <3>5. n \in 0 .. 6
      OBVIOUS
    <3> QED BY <1>3, <3>4, <3>5, Zenon DEF Stage
  <2>6. CASE Receive
    <3>1. /\ todo' = Tail(todo) /\ receive_msg
          /\ got' = Append(got, [ok |-> result'.ok, word |-> result'.word,
                                 slave |-> request.slave, reg |-> request.reg])
          /\ asked' = IF missed THEN <<>> ELSE asked
      BY <2>6 DEF Receive, Next1
    <3>2. regs' = regs
      BY <3>1, ReceiveEnds, Zenon
    <3>3. ~missed
      BY <3>1
    <3>4. Len(got) = n
      BY <2>1 DEF Writing
    <3>5. Len(got') = n + 1
      BY <1>5, <3>1, <3>4
    <3>6. ASSUME NEW i \in 1 .. n + 1, got'[i].ok
          PROVE  slave \in Drivers /\ regs[slave][Parameter[i]] = asked[i]
      <4>1. CASE i \in 1 .. n
        <5>1. got'[i] = got[i]
          BY <1>5, <3>1, <3>4, <4>1
        <5> QED BY <2>1, <3>6, <4>1, <5>1, Zenon DEF Writing
      <4>2. CASE i \notin 1 .. n
        <5>1. i = n + 1
          BY <3>6, <4>2
        <5>2. got'[i] = [ok |-> result'.ok, word |-> result'.word,
                         slave |-> request.slave, reg |-> request.reg]
          BY <1>5, <3>1, <3>4, <5>1
        <5>3. result'.ok
          BY <3>6, <5>2
        <5>4. /\ request = RequestOf(Head(todo)) /\ request.slave \in Drivers
              /\ request.function = WRITE => regs[request.slave][request.reg] = request.word
          BY <2>6, <3>3, <5>3, SuccessIsGenuine, Zenon
        <5> QED BY <2>3, <2>4, <5>1, <5>4
      <4> QED BY <4>1, <4>2
    <3>7. Writing(slave, later, n + 1, todo', got', regs', asked)
      BY <2>1, <3>1, <3>2, <3>5, <3>6, Zenon DEF Writing
    <3>8. n + 1 \in 0 .. 6
      OBVIOUS
    <3> QED BY <1>3, <3>7, <3>8, Zenon DEF Stage
  <2>7. Send \/ Receive
    BY <2>2 DEF CommandThread, FlushPort, Refused, ReportParameters, ReadBack, ReportAll, Doing
  <2> QED BY <2>5, <2>6, <2>7
<1>10. CASE AtConclusion(slave, later, todo, got, regs, asked)
  <2>1. /\ Head(todo) = Conclude("setpar", slave) /\ Tail(todo) = later
        /\ (\E i \in 1 .. Len(got) : ~got[i].ok) \/ Stored(slave, regs, asked)
    BY <1>10, Zenon DEF AtConclusion
  <2>2. Head(todo).do = "setpar" /\ Head(todo).slave = slave
    BY <2>1 DEF Conclude, Call
  <2>3. ReadBack
    BY <2>2 DEF CommandThread, FlushPort, Refused, Send, Receive, ReportParameters, ReportAll,
       Doing
  <2>4. CASE ~AllOkay
    <3>1. todo' = later
      BY <2>1, <2>3, <2>4 DEF ReadBack, Next1
    <3> QED BY <1>6, <3>1
  <2>5. CASE AllOkay
    <3>1. todo' = GetPar(slave) \o later /\ regs' = regs
      BY <2>1, <2>2, <2>3, <2>5 DEF ReadBack, link
    <3>2. Stored(slave, regs, asked)
      BY <2>1, <2>5, Zenon DEF AllOkay
    <3>3. Rereading(slave, later, todo', regs', asked)
      BY <3>1, <3>2, GetParRereads, Zenon DEF Rereading
    <3> QED BY <1>3, <3>3, Zenon DEF Stage
  <2> QED BY <2>4, <2>5
<1>11. CASE AtReread(slave, later, todo, regs, asked)
  <2>1. /\ Head(todo) \in Reread(slave) /\ Stored(slave, regs, asked)
        /\ Tail(todo) = later \/ Rereading(slave, later, Tail(todo), regs, asked)
    BY <1>11, Zenon DEF AtReread
  <2>2. Head(todo).do \in {"flush", "read", "refused", "getpar"}
    <3>1. Conclude("getpar", slave).do = "getpar"
      BY DEF Conclude, Call
    <3> QED BY <2>1, <3>1 DEF Reread
  <2>3. ASSUME todo' = Tail(todo), regs' = regs PROVE Stage(todo', got', regs', asked)
    <3>1. CASE Tail(todo) = later
      BY <1>6, <2>3, <3>1
    <3>2. CASE Rereading(slave, later, Tail(todo), regs, asked)
      <4>1. Rereading(slave, later, todo', regs', asked)
        BY <2>3, <3>2
      <4> QED BY <1>3, <4>1, Zenon DEF Stage
    <3> QED BY <2>1, <3>1, <3>2
  <2>4. CASE FlushPort
    BY <2>3, <2>4 DEF FlushPort, Next1, modbus_flush
  <2>5. CASE Refused \/ ReportParameters
    BY <2>3, <2>5 DEF Refused, ReportParameters, Next1, link
  <2>6. CASE Receive
    <3>1. todo' = Tail(todo) /\ receive_msg
      BY <2>6 DEF Receive, Next1
    <3>2. regs' = regs
      BY <3>1, ReceiveEnds, Zenon
    <3> QED BY <2>3, <3>1, <3>2
  <2>7. CASE Send
    <3>1. Head(todo).do = "read"
      BY <2>2, <2>7 DEF Send, Doing
    <3>2. RequestOf(Head(todo)).function = READ
      BY <3>1 DEF RequestOf, build_request_basis
    <3>3. Executed(RequestOf(Head(todo))) = regs
      BY <3>2, Functions DEF Executed
    <3>4. /\ todo' = todo /\ got' = got
          /\ \E fate \in Fates : send_msg(RequestOf(Head(todo)), fate)
      BY <2>7 DEF Send, RequestOf
    <3>5. regs' = regs
      BY <3>3, <3>4 DEF send_msg
    <3> QED BY <1>2, <3>4, <3>5, Zenon
  <2>8. ~ReadBack /\ ~ReportAll
    BY <2>2 DEF ReadBack, ReportAll, Doing
  <2> QED BY <2>4, <2>5, <2>6, <2>7, <2>8 DEF CommandThread
<1> QED BY <1>3, <1>7, <1>8, <1>9, <1>10, <1>11, Zenon DEF At

\* What a set_par is made of, in these terms.
LEMMA SettingBegins ==
  ASSUME NEW slave \in Nat, NEW input \in [1 .. 6 -> Int], NEW g, NEW held
  PROVE  Stage(SetPar(slave, input), g, held, Wanted(input))
<1>1. SetPar(slave, input) = Setting(slave, Wanted(input))
  BY Zenon DEF SetPar, Setting
<1>2. Setting(slave, Wanted(input)) \in Seq(CallSet)
  BY SettingParts
<1>3. Setting(slave, Wanted(input)) = Setting(slave, Wanted(input)) \o <<>>
  BY <1>2
<1>4. <<>> \in Seq(CallSet) /\ Follows(<<>>, Wanted(input))
  BY EmptySeq DEF Follows
<1> QED BY <1>1, <1>3, <1>4, Zenon DEF Stage

LEMMA SettingsBegin ==
  ASSUME NEW slaves \in Nat \X Nat, NEW input \in [1 .. 6 -> Int], NEW g, NEW held
  PROVE  Stage(SetParMult(slaves, input), g, held, Wanted(input))
<1>1. slaves[1] \in Nat /\ slaves[2] \in Nat
  OBVIOUS
<1>2. SetParMult(slaves, input) =
        Setting(slaves[1], Wanted(input)) \o Setting(slaves[2], Wanted(input))
  BY Zenon DEF SetParMult, SetPar, Setting
<1>3. Setting(slaves[2], Wanted(input)) \in Seq(CallSet)
  BY <1>1, SettingParts
<1>4. Follows(Setting(slaves[2], Wanted(input)), Wanted(input))
  BY <1>1 DEF Follows
<1> QED BY <1>1, <1>2, <1>3, <1>4, Zenon DEF Stage

\* Every step keeps the stages.
LEMMA SettingStep ==
  ASSUME TInv, LInv, SInv, [Next]_vars
  PROVE  SInv'
<1>1. ASSUME asked' = <<>> PROVE SInv'
  BY <1>1, Zenon DEF SInv
<1>2. ASSUME UNCHANGED <<todo, got, regs, asked>> PROVE SInv'
  BY <1>2, Zenon DEF SInv
<1>3. ASSUME NEW calls, NEW input \in [1 .. 6 -> Int], Execute(calls, Wanted(input)),
             Stage(calls, got', regs', Wanted(input))
      PROVE  SInv'
  <2>1. asked' = Wanted(input) /\ (todo' = calls \/ todo' = <<>>)
    BY <1>3 DEF Execute
  <2>2. Stage(<<>>, got', regs', Wanted(input))
    BY Zenon DEF Stage
  <2>3. Stage(todo', got', regs', asked')
    BY <1>3, <2>1, <2>2, Zenon
  <2> QED BY <2>1, <2>3, Zenon DEF SInv
<1>4. CASE StartCommand
  <2>1. ASSUME NEW slave \in Asked, NEW input \in Inputs, set_par(slave, input) PROVE SInv'
    <3>1. slave \in Nat /\ input \in [1 .. 6 -> Int]
      BY InputAssumption
    <3> QED BY <1>3, <2>1, <3>1, SettingBegins, Zenon DEF set_par
  <2>2. ASSUME NEW slaves \in Asked \X Asked, NEW input \in Inputs, setmult_par(slaves, input)
        PROVE  SInv'
    <3>1. slaves \in Nat \X Nat /\ input \in [1 .. 6 -> Int]
      BY InputAssumption
    <3> QED BY <1>3, <2>2, <3>1, SettingsBegin, Zenon DEF setmult_par
  <2>3. ASSUME NEW slave \in Asked, get_par(slave) PROVE SInv'
    BY <1>1, <2>3 DEF get_par, Execute
  <2>4. ASSUME check_drv_assoc \/ check_par_assoc PROVE SInv'
    BY <1>1, <2>4 DEF check_drv_assoc, check_par_assoc, Execute
  <2> QED BY <1>4, <2>1, <2>2, <2>3, <2>4, Zenon DEF StartCommand
<1>5. CASE CommandThread
  <2>1. asked' = asked \/ asked' = <<>>
    BY <1>5 DEF CommandThread, FlushPort, Refused, Send, Receive, ReportParameters, ReadBack,
       ReportAll
  <2>2. todo # <<>>
    BY <1>5 DEF CommandThread, FlushPort, Refused, Send, Receive, ReportParameters, ReadBack,
       ReportAll, Doing
  <2>3. ASSUME asked' = asked, asked # <<>> PROVE SInv'
    <3>1. Stage(todo', got', regs', asked')
      BY <1>5, <2>2, <2>3, StageStep, Zenon
    <3> QED BY <2>3, <3>1, Zenon DEF SInv
  <2> QED BY <1>1, <2>1, <2>3
<1>6. CASE connect \/ ReplyArrives \/ UNCHANGED vars
  BY <1>2, <1>6 DEF connect, Connect, ReplyArrives, Arrive, vars, link
<1> QED BY <1>4, <1>5, <1>6 DEF Next

LEMMA SettingStart == Init => SInv
BY DEF Init, SInv

\* What answers a set_par with parameters finds them stored.
LEMMA AnswerIsStored ==
  ASSUME TInv, SInv, [Next]_vars, answer' # answer, answer'.to = "getpar", answer'.got # <<>>,
         asked' # <<>>, NEW i \in 1 .. 6
  PROVE  answer'.slave \in Drivers /\ regs[answer'.slave][Parameter[i]] = asked[i]
<1>1. ASSUME NEW calls, NEW words, Execute(calls, words) PROVE FALSE
  <2>1. answer' = NoAnswer
    BY <1>1 DEF Execute
  <2> QED BY <2>1 DEF NoAnswer
<1>2. ~StartCommand
  BY <1>1, Zenon DEF StartCommand, get_par, set_par, setmult_par, check_drv_assoc,
     check_par_assoc
<1>3. ~(connect \/ FlushPort \/ Refused \/ Send \/ Receive \/ ReplyArrives \/ UNCHANGED vars)
  BY DEF connect, FlushPort, Refused, Send, Receive, ReplyArrives, vars
<1>4. ~ReadBack
  <2>1. ASSUME answer' = [to |-> "getpar", slave |-> Head(todo).slave, got |-> <<>>] PROVE FALSE
    BY <2>1
  <2> QED BY <2>1 DEF ReadBack
<1>5. ~ReportAll
  <2>1. ASSUME ReportAll PROVE FALSE
    <3>1. answer'.to = Head(todo).do
      BY <2>1 DEF ReportAll
    <3> QED BY <2>1, <3>1 DEF ReportAll, Doing
  <2> QED BY <2>1
<1>6. ReportParameters
  BY <1>2, <1>3, <1>4, <1>5 DEF Next, CommandThread
<1>7. /\ todo # <<>> /\ Head(todo).do = "getpar" /\ asked' = asked
      /\ answer' = Reported(Head(todo).slave)
  BY <1>6 DEF ReportParameters, Doing
<1>8. PICK input \in [1 .. 6 -> Int] : asked = Wanted(input)
  BY <1>7, Zenon DEF SInv
<1>9. Stage(todo, got, regs, Wanted(input))
  BY <1>7, <1>8, Zenon DEF SInv
<1>10. PICK slave \in Nat, later \in Seq(CallSet) :
         At(slave, later, todo, got, regs, asked)
  BY <1>7, <1>8, <1>9, WhereItStands, Zenon
<1>11. ASSUME NEW n \in 0 .. 5, AtWrite(slave, later, n, todo, got, regs, asked) PROVE FALSE
  <2>1. Head(todo).do = "write"
    BY <1>11 DEF AtWrite, Write, Call
  <2> QED BY <1>7, <2>1
<1>12. ~AtConclusion(slave, later, todo, got, regs, asked)
  <2>1. Conclude("setpar", slave).do = "setpar"
    BY DEF Conclude, Call
  <2> QED BY <1>7, <2>1 DEF AtConclusion
<1>13. ~AtFlush(slave, later, todo, asked) /\ ~AtRefused(slave, later, todo)
  BY <1>7 DEF AtFlush, AtRefused
<1>14. AtReread(slave, later, todo, regs, asked)
  BY <1>10, <1>11, <1>12, <1>13, Zenon DEF At
<1>15. Head(todo) = Conclude("getpar", slave) /\ Stored(slave, regs, asked)
  BY <1>7, <1>14 DEF AtReread, Reread
<1>16. answer'.slave = slave
  BY <1>7, <1>15 DEF Reported, Conclude, Call
<1> QED BY <1>15, <1>16, Zenon DEF Stored

------------------------------------------------------------------------------
(* What holds of every run. *)

\* The calls, the link, the outcomes and the registers keep their types: what
\* travels and what is stored is always a sixteen-bit word.
THEOREM TypeCorrect == Spec => []TypeOK
BY TypeStart, TypeStep, TypesImply, PTL DEF Spec

\* As long as no reply of an earlier request has been left behind, what a
\* client is told of a driver is what the driver holds, whatever was lost,
\* damaged, cut in two or late (modbus_flush, check_confirmation, GetPar,
\* CheckDrvAssoc, CheckParAssoc).
THEOREM AnswersAreTrue == Spec => AnswersAreTheRegisters
<1> DEFINE Told == ~missed => \A i \in 1 .. Len(answer'.got) :
              LET a == answer'.got[i]
              IN  a.ok => a.slave \in Drivers /\ a.word = regs[a.slave][a.reg]
<1> DEFINE Inv == TInv /\ LInv /\ TellInv
<1>1. Init => Inv
  BY TypeStart, LinkStart
<1>2. Inv /\ [Next]_vars => Inv'
  BY TypeStep, LinkStep, TellStep
<1>3. Inv /\ [Next]_vars => [Told]_answer
  <2> SUFFICES ASSUME Inv, [Next]_vars, answer' # answer, ~missed,
                      NEW i \in 1 .. Len(answer'.got), answer'.got[i].ok
               PROVE  /\ answer'.got[i].slave \in Drivers
                      /\ answer'.got[i].word = regs[answer'.got[i].slave][answer'.got[i].reg]
    OBVIOUS
  <2> QED BY AnswerIsTrue
<1> HIDE DEF Inv
<1> QED BY <1>1, <1>2, <1>3, PTL DEF Spec, AnswersAreTheRegisters

\* A set_par that is answered with parameters has stored all six of them, in
\* each of the drivers it names (SetPar, SetParMult, GetPar).
THEOREM AnsweredIsStored == Spec => AnsweredMeansStored
<1> DEFINE Kept == answer'.to = "getpar" /\ answer'.got # <<>> /\ asked' # <<>> =>
              /\ answer'.slave \in Drivers
              /\ \A i \in 1 .. 6 : regs[answer'.slave][Parameter[i]] = asked[i]
<1> DEFINE Inv == TInv /\ LInv /\ SInv
<1>1. Init => Inv
  BY TypeStart, LinkStart, SettingStart
<1>2. Inv /\ [Next]_vars => Inv'
  BY TypeStep, LinkStep, SettingStep
<1>3. Inv /\ [Next]_vars => [Kept]_answer
  BY AnswerIsStored
<1> HIDE DEF Inv
<1> QED BY <1>1, <1>2, <1>3, PTL DEF Spec, AnsweredMeansStored
==============================================================================
