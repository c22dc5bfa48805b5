--------------------------- MODULE DispatcherProofs ----------------------------
(***************************************************************************)
(* Proofs about the loop of Main.c, for any clients, any lines, any number *)
(* of drivers and any number of lines under way.                           *)
(***************************************************************************)
EXTENDS Dispatcher, FiniteSetTheorems, SequenceTheorems, TLAPS

------------------------------------------------------------------------------
(* Counting the lines of one client in the queue.                          *)

Commands == [from : Clients, line : Lines]

Mine(q, c) == {i \in 1 .. Len(q) : q[i].from = c}

LEMMA MineIsFinite ==
  ASSUME NEW q \in Seq(Commands), NEW c
  PROVE  IsFiniteSet(Mine(q, c)) /\ Cardinality(Mine(q, c)) \in Nat
<1>1. Len(q) \in Nat
  OBVIOUS
<1>2. IsFiniteSet(1 .. Len(q))
  BY <1>1, FS_Interval
<1>3. Mine(q, c) \in SUBSET (1 .. Len(q))
  BY DEF Mine
<1>4. IsFiniteSet(Mine(q, c))
  BY <1>2, <1>3, FS_Subset
<1> QED BY <1>4, FS_CardinalityType

\* A line that arrives is one more of its client.
LEMMA MineAppend ==
  ASSUME NEW q \in Seq(Commands), NEW m \in Commands, NEW c
  PROVE  Cardinality(Mine(Append(q, m), c)) =
           Cardinality(Mine(q, c)) + (IF m.from = c THEN 1 ELSE 0)
<1> DEFINE n == Len(q)
<1>1. n \in Nat /\ n + 1 \notin Mine(q, c)
  BY DEF Mine
<1>2. CASE m.from = c
  <2>1. Mine(Append(q, m), c) = Mine(q, c) \cup {n + 1}
    BY <1>1, <1>2 DEF Mine
  <2> QED BY <1>1, <1>2, <2>1, MineIsFinite, FS_AddElement
<1>3. CASE m.from # c
  <2>1. Mine(Append(q, m), c) = Mine(q, c)
    BY <1>1, <1>3 DEF Mine
  <2> QED BY <1>3, <2>1, MineIsFinite
<1> QED BY <1>2, <1>3

\* The line taken is one less of its client: the others move up by one.
LEMMA MineTail ==
  ASSUME NEW q \in Seq(Commands), q # <<>>, NEW c
  PROVE  Cardinality(Mine(q, c)) =
           Cardinality(Mine(Tail(q), c)) + (IF Head(q).from = c THEN 1 ELSE 0)
<1> DEFINE rest == Mine(q, c) \ {1}
           moved == Mine(Tail(q), c)
<1>1. /\ Tail(q) \in Seq(Commands) /\ Len(q) \in Nat \ {0}
      /\ Len(Tail(q)) = Len(q) - 1
      /\ \A i \in 1 .. Len(Tail(q)) : Tail(q)[i] = q[i + 1]
      /\ Head(q) = q[1]
  BY HeadTailProperties, EmptySeq
<1>2. /\ IsFiniteSet(rest)
      /\ Cardinality(rest) =
           IF 1 \in Mine(q, c) THEN Cardinality(Mine(q, c)) - 1 ELSE Cardinality(Mine(q, c))
  BY MineIsFinite, FS_RemoveElement
<1>3. 1 \in Mine(q, c) <=> Head(q).from = c
  BY <1>1 DEF Mine
<1>4. ExistsBijection(rest, moved)
  <2> DEFINE f == [i \in rest |-> i - 1]
  <2>1. ASSUME NEW i \in rest PROVE i - 1 \in moved
    BY <1>1 DEF Mine
  <2>2. f \in Injection(rest, moved)
    <3>1. f \in [rest -> moved]
      BY <2>1
    <3>2. \A a, b \in rest : f[a] = f[b] => a = b
      BY DEF Mine
    <3> QED BY <3>1, <3>2 DEF Injection, IsInjective
  <2>3. ASSUME NEW j \in moved PROVE \E i \in rest : f[i] = j
    <3>1. j + 1 \in rest /\ (j + 1) - 1 = j
      BY <1>1, <2>3 DEF Mine
    <3> QED BY <3>1
  <2>4. f \in Surjection(rest, moved)
    BY <2>1, <2>3 DEF Surjection
  <2> QED BY <2>2, <2>4 DEF ExistsBijection, Bijection
<1>5. Cardinality(moved) = Cardinality(rest)
  BY <1>2, <1>4, FS_Bijection
<1>6. Cardinality(Mine(q, c)) \in Nat
  BY MineIsFinite
<1> QED BY <1>2, <1>3, <1>5, <1>6

------------------------------------------------------------------------------
(* The branch of a turn and the functions it calls.                        *)

\* An argument that is not there is read all the same.
Numbers == Nat \cup {line.args[1] : line \in Lines}

Routines == Naming \cup Special \cup
  {"Homing", "Encode", "MoveTo", "MoveToMult", "HelpCommand", "LogFileRead",
   "check_internal_status", "ReadActualEncoderValue", "device_list", "unrecognized",
   "CheckPositionEncoderToAll"}

FunctionCalls == [do : Routines, drv : Numbers]

\* The drivers that calls answer for.
NamedBy(calls) == {calls[k].drv : k \in {k \in DOMAIN calls : calls[k].do \in Naming}}

LEMMA RankIs ==
  ASSUME NEW name \in Range(Chain)
  PROVE  Rank[name] \in 1 .. Len(Chain) /\ Chain[Rank[name]] = name
<1>1. DOMAIN Chain = 1 .. Len(Chain)
  BY DEF Chain
<1>2. \E i \in 1 .. Len(Chain) : Chain[i] = name
  BY <1>1 DEF Range
<1>3. Rank[name] = CHOOSE i \in 1 .. Len(Chain) : Chain[i] = name
  BY DEF Rank
<1> QED BY <1>2, <1>3

LEMMA ChainHas ==
  {"exit", "read_serial_log", "read_par_log", "read_log", "read_encoder_log",
   "check_drv_assoc", "check_par_assoc", "check_encode_assoc", "connect", "help",
   "get_par", "check_position", "set_par", "homing", "get_mov_par", "encode",
   "move_to", "get_all_parameter", "homing_mult", "moveto_mult", "setmult_par",
   "check_internal_status", "load_encoder_from_file",
   "read_actual_encoder_values", "device_list", "unrecognized"} = Range(Chain)
<1>1. DOMAIN Chain = 1 .. 26
  BY DEF Chain
<1>2. Range(Chain) = {Chain[i] : i \in 1 .. 26}
  BY <1>1 DEF Range
<1> QED BY <1>2 DEF Chain

LEMMA MatchesIs ==
  ASSUME NEW line, NEW source
  PROVE  /\ Matches(line, source) \in Range(Chain)
         /\ \/ Matches(line, source) = line.name
            \/ /\ Matches(line, source) = "unrecognized"
               /\ line.name \in Range(Chain) => line.name = "exit"
<1>1. DOMAIN Rank = Range(Chain)
  BY DEF Rank
<1>2. "unrecognized" \in Range(Chain)
  BY ChainHas
<1> QED BY <1>1, <1>2 DEF Matches

\* A branch is of one of the two lines of the turn.
LEMMA BranchIs ==
  ASSUME buffer \in Lines \cup {Nothing},
         command_received_by_user.line \in Lines \cup {Nothing},
         Received
  PROVE  /\ Branch.line \in Lines
         /\ Branch.name \in Range(Chain)
         /\ \/ Branch.name = Branch.line.name
            \/ /\ Branch.name = "unrecognized"
               /\ Branch.line.name \in Range(Chain) => Branch.line.name = "exit"
<1> DEFINE user == command_received_by_user.line
           s == IF buffer = Nothing THEN Len(Chain) + 1 ELSE Rank[Matches(buffer, "stdin")]
           t == IF user = Nothing THEN Len(Chain) + 1 ELSE Rank[Matches(user, "tcp")]
           first == s < t \/ (s = t /\ Chain[s] # "connect")
<1>1. Len(Chain) = 26
  BY DEF Chain
<1>2. buffer # Nothing => s \in 1 .. 26 /\ Chain[s] = Matches(buffer, "stdin")
  BY <1>1, MatchesIs, RankIs
<1>3. user # Nothing => t \in 1 .. 26 /\ Chain[t] = Matches(user, "tcp")
  BY <1>1, MatchesIs, RankIs
<1>4. buffer # Nothing \/ user # Nothing
  BY DEF Received
<1>5. first => buffer # Nothing
  BY <1>1, <1>2, <1>3, <1>4
<1>6. ~first => user # Nothing
  BY <1>1, <1>2, <1>3, <1>4
<1>7. Branch = IF first THEN [name |-> Chain[s], line |-> buffer]
                        ELSE [name |-> Chain[t], line |-> user]
  BY DEF Branch
<1>8. CASE first
  <2>1. Branch.name = Matches(buffer, "stdin") /\ Branch.line = buffer
    BY <1>2, <1>5, <1>7, <1>8
  <2> QED BY <1>5, <1>8, <2>1, MatchesIs
<1>9. CASE ~first
  <2>1. Branch.name = Matches(user, "tcp") /\ Branch.line = user
    BY <1>3, <1>6, <1>7, <1>9
  <2> QED BY <1>6, <1>9, <2>1, MatchesIs
<1> QED BY <1>8, <1>9

\* The loop over drivers: turn k calls function (k-1) % n of driver (k-1) \div n.
LEMMA ForEachIs ==
  ASSUME NEW functions \in Seq(Routines), Len(functions) \in 1 .. 3,
         NEW drvs \in Seq(Numbers)
  PROVE  LET n == Len(functions) IN
         /\ ForEach(functions, drvs) \in Seq(FunctionCalls)
         /\ DOMAIN ForEach(functions, drvs) = 1 .. n * Len(drvs)
         /\ \A k \in 1 .. n * Len(drvs) :
              /\ ForEach(functions, drvs)[k] =
                   Call(functions[((k - 1) % n) + 1], drvs[((k - 1) \div n) + 1])
              /\ ((k - 1) % n) + 1 \in 1 .. n
              /\ ((k - 1) \div n) + 1 \in 1 .. Len(drvs)
<1> DEFINE n == Len(functions)
           d == Len(drvs)
           calls == ForEach(functions, drvs)
<1>1. d \in Nat /\ n \in {1, 2, 3} /\ n * d \in Nat
  OBVIOUS
<1>2. calls = [k \in 1 .. n * d |->
                 Call(functions[((k - 1) % n) + 1], drvs[((k - 1) \div n) + 1])]
  BY DEF ForEach
<1>3. ASSUME NEW k \in 1 .. n * d
      PROVE  ((k - 1) % n) + 1 \in 1 .. n /\ ((k - 1) \div n) + 1 \in 1 .. d
  <2>1. CASE n = 1
    BY <1>1, <1>3, <2>1
  <2>2. CASE n = 2
    BY <1>1, <1>3, <2>2
  <2>3. CASE n = 3
    BY <1>1, <1>3, <2>3
  <2> QED BY <1>1, <2>1, <2>2, <2>3
<1>4. ASSUME NEW k \in 1 .. n * d PROVE calls[k] \in FunctionCalls
  <2>1. functions[((k - 1) % n) + 1] \in Routines
    BY <1>3
  <2>2. drvs[((k - 1) \div n) + 1] \in Numbers
    BY <1>3
  <2> QED BY <1>2, <2>1, <2>2 DEF Call, FunctionCalls
<1>5. calls \in [1 .. n * d -> FunctionCalls]
  BY <1>2, <1>4
<1>6. \A m \in Nat : [1 .. m -> FunctionCalls] \subseteq Seq(FunctionCalls)
  OBVIOUS
<1>7. calls \in Seq(FunctionCalls)
  BY <1>1, <1>5, <1>6, Zenon
<1>8. /\ DOMAIN calls = 1 .. n * d
      /\ \A k \in 1 .. n * d :
           calls[k] = Call(functions[((k - 1) % n) + 1], drvs[((k - 1) \div n) + 1])
  BY <1>2, Zenon
<1> HIDE DEF calls, n, d
<1> SUFFICES /\ calls \in Seq(FunctionCalls)
             /\ DOMAIN calls = 1 .. n * d
             /\ \A k \in 1 .. n * d :
                  /\ calls[k] = Call(functions[((k - 1) % n) + 1], drvs[((k - 1) \div n) + 1])
                  /\ ((k - 1) % n) + 1 \in 1 .. n
                  /\ ((k - 1) \div n) + 1 \in 1 .. d
  BY DEF calls, n, d
<1> QED BY <1>3, <1>7, <1>8, Zenon

\* Every driver is answered for when one of the functions answers.
LEMMA ForEachNames ==
  ASSUME NEW functions \in Seq(Routines), Len(functions) \in 1 .. 3,
         NEW drvs \in Seq(Numbers),
         NEW j \in 1 .. Len(functions), functions[j] \in Naming
  PROVE  NamedBy(ForEach(functions, drvs)) = Range(drvs)
<1> DEFINE n == Len(functions)
           d == Len(drvs)
           calls == ForEach(functions, drvs)
<1>1. d \in Nat /\ n \in {1, 2, 3} /\ DOMAIN drvs = 1 .. d
  OBVIOUS
<1>2. /\ DOMAIN calls = 1 .. n * d
      /\ \A k \in 1 .. n * d :
           /\ calls[k] = Call(functions[((k - 1) % n) + 1], drvs[((k - 1) \div n) + 1])
           /\ ((k - 1) \div n) + 1 \in 1 .. d
  BY ForEachIs
<1>3. ASSUME NEW i \in 1 .. d
      PROVE  \E k \in 1 .. n * d : ((k - 1) % n) + 1 = j /\ ((k - 1) \div n) + 1 = i
  <2>1. CASE n = 1
    BY <1>1, <1>3, <2>1
  <2>2. CASE n = 2
    <3> DEFINE k == 2 * (i - 1) + j
    <3>1. k \in 1 .. 2 * d /\ ((k - 1) % 2) + 1 = j /\ ((k - 1) \div 2) + 1 = i
      BY <1>1, <1>3, <2>2
    <3> QED BY <2>2, <3>1
  <2>3. CASE n = 3
    <3> DEFINE k == 3 * (i - 1) + j
    <3>1. k \in 1 .. 3 * d /\ ((k - 1) % 3) + 1 = j /\ ((k - 1) \div 3) + 1 = i
      BY <1>1, <1>3, <2>3
    <3> QED BY <2>3, <3>1
  <2> QED BY <1>1, <2>1, <2>2, <2>3
<1>4. ASSUME NEW x \in NamedBy(calls) PROVE x \in Range(drvs)
  <2>1. PICK k \in 1 .. n * d : x = calls[k].drv
    BY <1>2, <1>4 DEF NamedBy
  <2>2. PICK i \in 1 .. d : i = ((k - 1) \div n) + 1
    BY <1>2
  <2>3. x = drvs[i]
    BY <1>2, <2>1, <2>2 DEF Call
  <2> QED BY <1>1, <2>3 DEF Range
<1>5. ASSUME NEW x \in Range(drvs) PROVE x \in NamedBy(calls)
  <2>1. PICK i \in 1 .. d : x = drvs[i]
    BY <1>1, <1>5 DEF Range
  <2>2. PICK k \in 1 .. n * d : ((k - 1) % n) + 1 = j /\ ((k - 1) \div n) + 1 = i
    BY <1>3
  <2>3. calls[k] = Call(functions[j], drvs[i])
    BY <1>2, <2>2
  <2>4. calls[k].do \in Naming /\ calls[k].drv = x
    BY <2>1, <2>3 DEF Call
  <2> QED BY <1>2, <2>4 DEF NamedBy
<1> QED BY <1>4, <1>5

\* The arguments from some place on.
LEMMA ArgumentsFrom ==
  ASSUME NEW args \in Seq(Nat), NEW skip \in Nat
  PROVE  /\ SubSeq(args, skip + 1, Len(args)) \in Seq(Numbers)
         /\ Range(SubSeq(args, skip + 1, Len(args)))
              = {args[i] : i \in skip + 1 .. Len(args)}
<1> DEFINE sub == SubSeq(args, skip + 1, Len(args))
           len == IF skip + 1 <= Len(args) THEN Len(args) - skip ELSE 0
<1>1. \A i \in skip + 1 .. Len(args) : args[i] \in Nat
  OBVIOUS
<1>2. /\ sub \in Seq(Nat) /\ Len(sub) = len
      /\ \A i \in 1 .. Len(args) - skip : sub[i] = args[skip + i]
  BY <1>1, SubSeqProperties
<1>3. sub \in Seq(Numbers)
  BY <1>2 DEF Numbers
<1>4. DOMAIN sub = 1 .. len
  BY <1>2
<1>5. ASSUME NEW i \in skip + 1 .. Len(args)
      PROVE  i - skip \in 1 .. len /\ sub[i - skip] = args[i]
  BY <1>2
<1>6. ASSUME NEW j \in 1 .. len
      PROVE  skip + j \in skip + 1 .. Len(args) /\ sub[j] = args[skip + j]
  BY <1>2
<1>7. Range(sub) = {sub[j] : j \in 1 .. len}
  BY <1>4 DEF Range
<1>8. {sub[j] : j \in 1 .. len} \subseteq {args[i] : i \in skip + 1 .. Len(args)}
  BY <1>6
<1>9. {args[i] : i \in skip + 1 .. Len(args)} \subseteq {sub[j] : j \in 1 .. len}
  <2> HIDE DEF sub, len
  <2> QED BY <1>5
<1> QED BY <1>3, <1>7, <1>8, <1>9

\* Routines that ask nothing.
Plain == Routines \ {"CheckAssoc", "Listen"}

\* What is left of a turn asks nothing, or concerns no driver.
NothingElse(calls) ==
  \/ \A k \in DOMAIN calls : calls[k].do \in Plain
  \/ \A k \in DOMAIN calls : calls[k].drv = 0

Answering(functions) ==
  functions \in Seq(Plain) /\ Len(functions) \in 1 .. 3

LEMMA PlainCalls ==
  ASSUME NEW functions, Answering(functions), NEW drvs \in Seq(Numbers)
  PROVE  /\ ForEach(functions, drvs) \in Seq(FunctionCalls)
         /\ NothingElse(ForEach(functions, drvs))
         /\ (\E j \in 1 .. Len(functions) : functions[j] \in Naming) =>
              NamedBy(ForEach(functions, drvs)) = Range(drvs)
<1> DEFINE n == Len(functions)
           calls == ForEach(functions, drvs)
<1>1. functions \in Seq(Routines) /\ n \in 1 .. 3
  BY DEF Answering, Plain
<1>2. /\ calls \in Seq(FunctionCalls) /\ DOMAIN calls = 1 .. n * Len(drvs)
      /\ \A k \in 1 .. n * Len(drvs) :
           /\ calls[k] = Call(functions[((k - 1) % n) + 1], drvs[((k - 1) \div n) + 1])
           /\ ((k - 1) % n) + 1 \in 1 .. n
  BY <1>1, ForEachIs
<1>3. \A i \in 1 .. n : functions[i] \in Plain
  BY DEF Answering
<1>4. \A k \in DOMAIN calls : calls[k].do \in Plain
  BY <1>2, <1>3 DEF Call
<1>5. (\E j \in 1 .. n : functions[j] \in Naming) => NamedBy(calls) = Range(drvs)
  BY <1>1, ForEachNames
<1> QED BY <1>2, <1>4, <1>5 DEF NothingElse

LEMMA AnsweringIs ==
  /\ \A f \in Plain : Answering(<<f>>)
  /\ \A f, g \in Plain : Answering(<<f, g>>)
  /\ \A f \in Naming : \E j \in 1 .. Len(<<f>>) : <<f>>[j] \in Naming
  /\ \A f, g : g \in Naming => \E j \in 1 .. Len(<<f, g>>) : <<f, g>>[j] \in Naming
<1>1. ASSUME NEW f, NEW g, g \in Naming
      PROVE  \E j \in 1 .. Len(<<f, g>>) : <<f, g>>[j] \in Naming
  <2>1. 2 \in 1 .. Len(<<f, g>>) /\ <<f, g>>[2] \in Naming
    BY <1>1
  <2> QED BY <2>1
<1>2. ASSUME NEW f \in Naming
      PROVE  \E j \in 1 .. Len(<<f>>) : <<f>>[j] \in Naming
  <2>1. 1 \in 1 .. Len(<<f>>) /\ <<f>>[1] \in Naming
    OBVIOUS
  <2> QED BY <2>1
<1>3. \A f \in Plain : Answering(<<f>>)
  BY DEF Answering
<1>4. \A f, g \in Plain : Answering(<<f, g>>)
  BY DEF Answering
<1> QED BY <1>1, <1>2, <1>3, <1>4

LEMMA PlainAre ==
  /\ Naming \subseteq Plain
  /\ {"Homing", "Encode", "MoveTo", "MoveToMult", "CheckPositionEncoderToAll"} \subseteq Plain
  /\ {"GetPar", "SetPar", "SetParMult", "GetMovePar", "CheckPositionEncoderSingle",
      "CheckPositionEncoderSingleWarning", "SendFailedGetPar", "SendFailedGetMovPar",
      "SendFailedGetStatusPos", "NotConnected"} \subseteq Naming
BY DEF Plain, Routines, Naming, Special

\* Every command for drivers answers for each of them, Encode with a
\* connection excepted.
LEMMA ChosenIs ==
  ASSUME NEW name \in DOMAIN PerDriver, STATE_CONNECT \in BOOLEAN
  PROVE  LET functions == Chosen(PerDriver[name]) IN
         /\ Answering(functions)
         /\ name # "encode" => \E j \in 1 .. Len(functions) : functions[j] \in Naming
<1>0. name \in {"get_par", "check_position", "set_par", "homing", "get_mov_par",
                "encode", "move_to", "homing_mult", "moveto_mult", "setmult_par"}
  BY DEF PerDriver
<1>1. CASE name = "get_par"
  <2>1. Chosen(PerDriver[name]) \in {<<"GetPar">>, <<"SendFailedGetPar">>}
    BY <1>1 DEF PerDriver, Chosen, get_par, Single
  <2> QED BY <1>1, <2>1, AnsweringIs, PlainAre
<1>2. CASE name = "check_position"
  <2>1. Chosen(PerDriver[name]) \in
          {<<"CheckPositionEncoderSingleWarning">>, <<"NotConnected", "SendFailedGetStatusPos">>}
    BY <1>2 DEF PerDriver, Chosen, check_position, Single
  <2> QED BY <1>2, <2>1, AnsweringIs, PlainAre
<1>3. CASE name = "set_par"
  <2>1. Chosen(PerDriver[name]) \in {<<"SetPar">>, <<"SendFailedGetPar">>}
    BY <1>3 DEF PerDriver, Chosen, set_par, Single
  <2> QED BY <1>3, <2>1, AnsweringIs, PlainAre
<1>4. CASE name = "homing"
  <2>1. Chosen(PerDriver[name]) \in {<<"Homing", "GetMovePar">>, <<"NotConnected">>}
    BY <1>4 DEF PerDriver, Chosen, homing, Single
  <2> QED BY <1>4, <2>1, AnsweringIs, PlainAre
<1>5. CASE name = "get_mov_par"
  <2>1. Chosen(PerDriver[name]) \in {<<"GetMovePar">>, <<"NotConnected">>}
    BY <1>5 DEF PerDriver, Chosen, get_mov_par, Single
  <2> QED BY <1>5, <2>1, AnsweringIs, PlainAre
<1>6. CASE name = "encode"
  <2>1. Chosen(PerDriver[name]) \in {<<"Encode">>, <<"NotConnected">>}
    BY <1>6 DEF PerDriver, Chosen, encode, Single
  <2> QED BY <1>6, <2>1, AnsweringIs, PlainAre
<1>7. CASE name = "move_to"
  <2>1. Chosen(PerDriver[name]) \in {<<"MoveTo", "GetMovePar">>, <<"NotConnected">>}
    BY <1>7 DEF PerDriver, Chosen, move_to, Single
  <2> QED BY <1>7, <2>1, AnsweringIs, PlainAre
<1>8. CASE name = "homing_mult"
  <2>1. Chosen(PerDriver[name]) \in {<<"Homing", "GetMovePar">>, <<"NotConnected">>}
    BY <1>8 DEF PerDriver, Chosen, homing_mult, Mult
  <2> QED BY <1>8, <2>1, AnsweringIs, PlainAre
<1>9. CASE name = "moveto_mult"
  <2>1. Chosen(PerDriver[name]) \in {<<"MoveToMult", "GetMovePar">>, <<"NotConnected">>}
    BY <1>9 DEF PerDriver, Chosen, moveto_mult, Mult
  <2> QED BY <1>9, <2>1, AnsweringIs, PlainAre
<1>10. CASE name = "setmult_par"
  <2>1. Chosen(PerDriver[name]) \in {<<"SetParMult">>, <<"SendFailedGetPar">>}
    BY <1>10 DEF PerDriver, Chosen, setmult_par, Mult
  <2> QED BY <1>10, <2>1, AnsweringIs, PlainAre
<1> QED BY <1>0, <1>1, <1>2, <1>3, <1>4, <1>5, <1>6, <1>7, <1>8, <1>9, <1>10

\* A branch that names no driver.
Unnamed == [do : Routines, drv : {0}]

LEMMA UnnamedCalls ==
  ASSUME NEW calls \in Seq(Unnamed)
  PROVE  /\ calls \in Seq(FunctionCalls)
         /\ NothingElse(calls)
         /\ NamedBy(calls) \ {0} = {}
<1>1. Unnamed \subseteq FunctionCalls
  BY DEF Unnamed, FunctionCalls, Numbers
<1>2. \A k \in DOMAIN calls : calls[k].drv = 0
  <2>1. \A k \in DOMAIN calls : calls[k] \in Unnamed
    OBVIOUS
  <2> QED BY <2>1 DEF Unnamed
<1>3. calls \in Seq(FunctionCalls)
  BY <1>1, SeqMonotonic
<1> QED BY <1>2, <1>3 DEF NothingElse, NamedBy

\* What a loop over the drivers of a line reads: the drivers it names.
LEMMA DriversAre ==
  ASSUME NEW line \in Lines, line.name \in DOMAIN PerDriver
  PROVE  /\ Drivers(PerDriver[line.name], line) \in Seq(Numbers)
         /\ Range(Drivers(PerDriver[line.name], line)) = Named(line)
<1>0. /\ line.args \in Seq(Nat)
      /\ line.name \in Singles \cup {"homing_mult", "moveto_mult", "setmult_par"}
  BY LinesAssumption DEF PerDriver, Singles
<1>1. CASE line.name \in Singles
  <2>1. ~PerDriver[line.name].many
    BY <1>1 DEF Singles, PerDriver, Single, get_par, check_position, set_par, homing,
                get_mov_par, encode, move_to
  <2>2. Drivers(PerDriver[line.name], line) = << line.args[1] >>
    BY <2>1 DEF Drivers
  <2>3. Named(line) = {line.args[1]}
    BY <1>1 DEF Named, Singles
  <2>4. line.args[1] \in Numbers
    BY DEF Numbers
  <2> QED BY <2>2, <2>3, <2>4 DEF Range
<1>2. CASE line.name = "homing_mult"
  <2>1. PerDriver[line.name] = Mult(<<"Homing", "GetMovePar">>, <<"NotConnected">>, 0)
    BY <1>2 DEF PerDriver, homing_mult
  <2>2. Drivers(PerDriver[line.name], line) = SubSeq(line.args, 0 + 1, Len(line.args))
    BY <2>1 DEF Drivers, FindNumArg, Mult
  <2>3. Named(line) = Range(line.args)
    BY <1>2 DEF Named, Singles
  <2>4. Range(line.args) = {line.args[i] : i \in 0 + 1 .. Len(line.args)}
    BY <1>0 DEF Range
  <2> QED BY <1>0, <2>2, <2>3, <2>4, ArgumentsFrom
<1>3. CASE line.name = "moveto_mult"
  <2>1. PerDriver[line.name] = Mult(<<"MoveToMult", "GetMovePar">>, <<"NotConnected">>, 1)
    BY <1>3 DEF PerDriver, moveto_mult
  <2>2. Drivers(PerDriver[line.name], line) = SubSeq(line.args, 1 + 1, Len(line.args))
    BY <2>1 DEF Drivers, FindNumArg, Mult
  <2>3. Named(line) = {line.args[i] : i \in 1 + 1 .. Len(line.args)}
    BY <1>3 DEF Named, Singles
  <2> QED BY <1>0, <2>2, <2>3, ArgumentsFrom
<1>4. CASE line.name = "setmult_par"
  <2>1. PerDriver[line.name] = Mult(<<"SetParMult">>, <<"SendFailedGetPar">>, 6)
    BY <1>4 DEF PerDriver, setmult_par
  <2>2. Drivers(PerDriver[line.name], line) = SubSeq(line.args, 6 + 1, Len(line.args))
    BY <2>1 DEF Drivers, FindNumArg, Mult
  <2>3. Named(line) = {line.args[i] : i \in 6 + 1 .. Len(line.args)}
    BY <1>4 DEF Named, Singles
  <2> QED BY <1>0, <2>2, <2>3, ArgumentsFrom
<1> QED BY <1>0, <1>1, <1>2, <1>3, <1>4

\* What a branch calls answers for the drivers its line names, and no other.
LEMMA CallsAre ==
  ASSUME NEW line \in Lines, NEW name \in Range(Chain), STATE_CONNECT \in BOOLEAN,
         \/ name = line.name
         \/ name = "unrecognized" /\ (line.name \in Range(Chain) => line.name = "exit")
  PROVE  /\ Calls(name, line) \in Seq(FunctionCalls)
         /\ NothingElse(Calls(name, line))
         /\ name # "encode" => NamedBy(Calls(name, line)) \ {0} = Named(line) \ {0}
<1>0. DOMAIN PerDriver = Singles \cup {"homing_mult", "moveto_mult", "setmult_par"}
  BY DEF PerDriver, Singles
<1>1. CASE name \in DOMAIN PerDriver
  <2>1. name = line.name
    BY <1>0, <1>1 DEF Singles
  <2>2. Calls(name, line) =
          ForEach(Chosen(PerDriver[name]), Drivers(PerDriver[name], line))
    BY <1>0, <1>1 DEF Calls, Singles, assoc_commands, read_log_commands
  <2> QED BY <1>1, <2>1, <2>2, ChosenIs, DriversAre, PlainCalls
<1>2. CASE name = "get_all_parameter"
  <2>1. name = line.name
    BY <1>2
  <2>2. Calls(name, line) = ForEach(Chosen(get_all_parameter), AllDrivers)
    BY <1>0, <1>2 DEF Calls, Singles, assoc_commands, read_log_commands
  <2>3. Named(line) = 1 .. MAXIMUM_DRIVER
    BY <1>2, <2>1 DEF Named, Singles
  <2>4. AllDrivers \in Seq(Numbers) /\ Range(AllDrivers) = 1 .. MAXIMUM_DRIVER
    <3>1. AllDrivers \in Seq(Nat) /\ DOMAIN AllDrivers = 1 .. MAXIMUM_DRIVER
      BY DriverAssumption DEF AllDrivers
    <3>2. \A d \in 1 .. MAXIMUM_DRIVER : AllDrivers[d] = d
      BY DEF AllDrivers
    <3>3. AllDrivers \in Seq(Numbers)
      BY <3>1 DEF Numbers
    <3> QED BY <3>1, <3>2, <3>3 DEF Range
  <2>5. Chosen(get_all_parameter) \in
          {<<"GetMovePar", "GetPar", "CheckPositionEncoderSingle">>,
           <<"SendFailedGetPar", "SendFailedGetMovPar", "SendFailedGetStatusPos">>}
    BY DEF Chosen, get_all_parameter
  <2>6. \A f, g, h \in Plain : Answering(<<f, g, h>>)
    BY DEF Answering
  <2>7. /\ Answering(Chosen(get_all_parameter))
        /\ 1 \in 1 .. Len(Chosen(get_all_parameter))
        /\ Chosen(get_all_parameter)[1] \in Naming
    BY <2>5, <2>6, PlainAre
  <2> QED BY <2>2, <2>3, <2>4, <2>7, PlainCalls
<1>3. CASE name \notin DOMAIN PerDriver \cup {"get_all_parameter"}
  <2>1. Calls(name, line) \in Seq(Unnamed)
    <3>1. \A f \in Routines : << Call(f, 0) >> \in Seq(Unnamed)
      BY DEF Unnamed, Call
    <3>2. << Call("CheckAssoc", 0) >> \o Listens \in Seq(Unnamed)
      <4>1. Listens \in Seq(Unnamed)
        BY WaitAssumption DEF Listens, Unnamed, Call, Routines, Special
      <4>2. << Call("CheckAssoc", 0) >> \in Seq(Unnamed)
        BY <3>1 DEF Routines, Special
      <4> QED BY <4>1, <4>2
    <3>3. {"NotConnected", "Connect", "LoadEncoderFromFile", "LogFileRead", "HelpCommand",
           "check_internal_status", "ReadActualEncoderValue", "device_list",
           "unrecognized"} \subseteq Routines
      BY DEF Routines, Naming, Special
    <3>4. Calls(name, line) \in
            { << Call("CheckAssoc", 0) >> \o Listens } \cup
            { << Call(f, 0) >> : f \in
                {"NotConnected", "Connect", "LoadEncoderFromFile", "LogFileRead",
                 "HelpCommand", "check_internal_status", "ReadActualEncoderValue",
                 "device_list", "unrecognized"} }
      BY <1>3 DEF Calls, HelpCommand, read_log, check_internal_status,
                  ReadActualEncoderValue, device_list, unrecognized,
                  assoc_commands, read_log_commands
    <3> QED BY <3>1, <3>2, <3>3, <3>4
  <2>2. line.name \notin DOMAIN PerDriver \cup {"get_all_parameter"}
    <3>1. DOMAIN PerDriver \cup {"get_all_parameter"} \subseteq Range(Chain) \ {"exit"}
      BY <1>0, ChainHas DEF Singles
    <3> QED BY <1>3, <3>1
  <2>3. Named(line) = {0}
    BY <1>0, <2>2 DEF Named
  <2> QED BY <2>1, <2>3, UnnamedCalls
<1> QED BY <1>1, <1>2, <1>3

------------------------------------------------------------------------------
(* The invariant.                                                          *)

\* The types of the lines and of the calls, beside TypeOK.
LinesOK ==
  /\ {buffer, input_buffer} \subseteq Lines \cup {Nothing}
  /\ queue \in Seq(Commands)
  /\ command_received_by_user \in Commands \cup {NoCommand}
  /\ todo \in Seq(FunctionCalls)
  /\ STATE_CONNECT \in BOOLEAN

\* Where END OF MESSAGE goes is decided by the inputs of this turn, unless the
\* acceptor has moved the target since; without sockets no line is a client's.
TargetIs ==
  /\ pc \in {"stdin", "tcp", "check"} => command_received_by_user = NoCommand
  /\ pc \in {"stdin", "check"} => buffer = Nothing
  /\ pc \in {"tcp", "dispatch", "execute"} /\ ~welcomed =>
       target = IF command_received_by_user # NoCommand THEN command_received_by_user.from
                ELSE IF buffer # Nothing THEN "stdin" ELSE target
  /\ pc = "execute" => Received
  /\ input_mode = "ONLYUSER" => pc # "tcp" /\ command_received_by_user = NoCommand

\* What a client is owed, whatever the status of the program.
OwedIs ==
  /\ owed \in [Clients -> Nat]
  /\ \A c \in Clients \ crossed :
       owed[c] = Cardinality(Mine(queue, c))
                 + (IF command_received_by_user.from = c /\ pc # "sleep" THEN 1 ELSE 0)

\* The drivers answered for and the ones still to come are those of the line.
ToldIs ==
  /\ pc # "execute" => told = {}
  /\ pc = "execute" =>
       /\ NothingElse(todo)
       /\ Branch.name # "encode" =>
            (told \cup NamedBy(todo)) \ {0} = Named(Branch.line) \ {0}

DInv == TypeOK /\ LinesOK /\ TargetIs /\ OwedIs /\ ToldIs

LEMMA DInvInit == Init => DInv
<1> SUFFICES ASSUME Init PROVE DInv
  OBVIOUS
<1>1. TypeOK
  <2>1. Len(queue) = 0
    BY DEF Init
  <2>2. Waiting = 0
    BY <2>1 DEF Init, Waiting
  <2>3. connected \subseteq Clients /\ crossed \subseteq Clients /\ welcomed \in BOOLEAN
    BY DEF Init
  <2>4. 0 \in 0 .. COUNTCHECK_LIMIT - 1 /\ 0 \in 0 .. MaxWaiting
    BY CountAssumption, WaitAssumption
  <2>5. 0 \in 0 .. 1
    OBVIOUS
  <2> QED
    BY <2>2, <2>3, <2>4, <2>5, DriverAssumption, CountAssumption, WaitAssumption
       DEF Init, TypeOK, Start
<1>2. LinesOK
  <2>1. /\ buffer = Nothing /\ input_buffer = Nothing /\ queue = <<>> /\ todo = <<>>
        /\ command_received_by_user = NoCommand /\ STATE_CONNECT = FALSE
    BY DEF Init
  <2>2. <<>> \in Seq(Commands) /\ <<>> \in Seq(FunctionCalls)
    BY EmptySeq
  <2> QED BY <2>1, <2>2 DEF LinesOK
<1>3. TargetIs
  BY DEF Init, TargetIs, Start
<1>4. OwedIs
  <2>1. \A c \in Clients : Mine(queue, c) = {}
    BY DEF Init, Mine
  <2>2. \A c \in Clients : Cardinality(Mine(queue, c)) = 0
    BY <2>1, FS_EmptySet
  <2>3. \A c \in Clients : command_received_by_user.from # c
    BY SourceAssumption DEF Init, NoCommand
  <2> QED BY <2>2, <2>3 DEF Init, OwedIs
<1>5. ToldIs
  BY DEF Init, ToldIs, Start
<1> QED BY <1>1, <1>2, <1>3, <1>4, <1>5 DEF DInv

\* The line of no client is no line of a client.
LEMMA CommandIs ==
  ASSUME LinesOK
  PROVE  /\ command_received_by_user.line \in Lines \cup {Nothing}
         /\ command_received_by_user = NoCommand <=> command_received_by_user.line = Nothing
         /\ command_received_by_user = NoCommand <=> command_received_by_user.from \notin Clients
BY SourceAssumption DEF LinesOK, NoCommand, Commands

\* One action of the loop at a time: the types first.
LEMMA TypesNext == DInv /\ [Next]_vars => TypeOK' /\ LinesOK'
<1> SUFFICES ASSUME DInv, [Next]_vars PROVE TypeOK' /\ LinesOK'
  OBVIOUS
<1> USE DriverAssumption, CountAssumption, WaitAssumption, SourceAssumption
<1>0. TypeOK /\ LinesOK /\ TargetIs
  BY DEF DInv
<1>1. /\ Len(queue) \in Nat
      /\ queue # <<>> =>
           /\ Head(queue) \in Commands /\ Tail(queue) \in Seq(Commands)
           /\ Len(Tail(queue)) = Len(queue) - 1 /\ Len(queue) >= 1
      /\ \A q \in Commands : /\ Append(queue, q) \in Seq(Commands)
                             /\ Len(Append(queue, q)) = Len(queue) + 1
  BY <1>0, HeadTailProperties, EmptySeq DEF LinesOK
<1>2. todo # <<>> => Tail(todo) \in Seq(FunctionCalls)
  BY <1>0, HeadTailProperties DEF LinesOK
<1>3. NoCommand \notin Commands
  BY DEF NoCommand, Commands
<1>4. <<>> \in Seq(FunctionCalls)
  BY EmptySeq
<1> USE <1>0 DEF TypeOK, LinesOK, stdin, taken, room, Waiting, Start
<1>5. ASSUME NEW line \in Lines, Producer(line) PROVE TypeOK' /\ LinesOK'
  BY <1>5 DEF Producer
<1>6. ASSUME NEW line \in Lines, NEW c \in Clients, Send(c, line)
      PROVE  TypeOK' /\ LinesOK'
  <2>1. [from |-> c, line |-> line] \in Commands
    BY DEF Commands
  <2> QED BY <1>1, <1>6, <2>1 DEF Send
<1>7. CASE GetInput
  <2>1. /\ buffer' = (IF num_mex = 0 THEN Nothing ELSE input_buffer)
        /\ num_mex' = 0 /\ input_buffer' = Nothing
        /\ target' \in {target, "stdin"} /\ pc' \in {"tcp", "dispatch"}
        /\ UNCHANGED <<input_mode, queue, command_received_by_user, todo, STATE_CONNECT,
                       count_check, status, connected, crossed>>
        /\ welcomed' \in {welcomed, FALSE}
    BY <1>7 DEF GetInput, AfterInput
  <2>2. (IF buffer' = Nothing THEN 0 ELSE 1) <= num_mex
    BY <2>1
  <2>3. Waiting' = Len(queue) + (IF buffer' = Nothing THEN 0 ELSE 1)
                   + (IF command_received_by_user = NoCommand THEN 0 ELSE 1)
    BY <1>1, <2>1
  <2>4. Waiting = Len(queue) + num_mex + (IF buffer = Nothing THEN 0 ELSE 1)
                  + (IF command_received_by_user = NoCommand THEN 0 ELSE 1)
    OBVIOUS
  <2>5. Waiting' \in 0 .. MaxWaiting
    <3> DEFINE b == IF buffer = Nothing THEN 0 ELSE 1
               b1 == IF buffer' = Nothing THEN 0 ELSE 1
               c == IF command_received_by_user = NoCommand THEN 0 ELSE 1
    <3>1. {b, b1, c, num_mex, Len(queue)} \subseteq Nat /\ Waiting <= MaxWaiting
      BY <1>1
    <3>2. Waiting = Len(queue) + num_mex + b + c /\ Waiting' = Len(queue) + b1 + c
      BY <2>3, <2>4
    <3> HIDE <1>0 DEF Waiting, b, b1, c
    <3> QED BY <2>2, <3>1, <3>2 DEF b1
  <2>6. LinesOK'
    BY <2>1
  <2>7. TypeOK'
    <3>1. connected' \subseteq Clients /\ crossed' \subseteq Clients /\ welcomed' \in BOOLEAN
      BY <2>1
    <3> HIDE DEF Waiting
    <3> QED BY <2>1, <2>5, <3>1 DEF Modes
  <2> QED BY <2>6, <2>7
<1>8. CASE GetCommand
  <2>1. CASE queue = <<>>
    <3>1. /\ command_received_by_user' = NoCommand /\ queue' = queue
          /\ target' = target /\ pc' = "dispatch"
          /\ UNCHANGED <<input_mode, stdin, buffer, todo, STATE_CONNECT, count_check, status>>
          /\ UNCHANGED <<connected, crossed>> /\ welcomed' \in BOOLEAN
      BY <1>8, <2>1 DEF GetCommand, SockidOn
    <3> QED BY <1>1, <3>1
  <2>2. CASE queue # <<>>
    <3>1. /\ command_received_by_user' = Head(queue) /\ queue' = Tail(queue)
          /\ target' = Head(queue).from /\ pc' = "dispatch"
          /\ UNCHANGED <<input_mode, stdin, buffer, todo, STATE_CONNECT, count_check, status>>
          /\ UNCHANGED <<connected, crossed>> /\ welcomed' \in BOOLEAN
      BY <1>1, <1>3, <1>8, <2>2 DEF GetCommand, SockidOn
    <3>2. Head(queue).from \in Clients
      BY <1>1, <2>2 DEF Commands
    <3>3. Waiting' \in 0 .. MaxWaiting
      BY <1>1, <2>2, <3>1
    <3> QED BY <1>1, <2>2, <3>1, <3>2, <3>3
  <2> QED BY <2>1, <2>2
<1>9. CASE Dispatch
  <2>1. Received => Calls(Branch.name, Branch.line) \in Seq(FunctionCalls)
    BY CommandIs, BranchIs, CallsAre
  <2> QED BY <1>9, <2>1 DEF Dispatch
<1>10. CASE Connect
  BY <1>2, <1>10 DEF Connect, Doing, Executing
<1>11. CASE LoadEncoderFromFile
  BY <1>2, <1>11 DEF LoadEncoderFromFile, Doing, Executing
<1>12. CASE CheckAssoc
  BY <1>2, <1>4, <1>12 DEF CheckAssoc, Doing, Executing
<1>13. CASE Listen
  BY <1>1, <1>2, <1>4, <1>13 DEF Listen, Doing, Executing
<1>14. CASE Function
  BY <1>2, <1>14 DEF Function, Executing
<1>15. CASE EndOfMessage
  BY <1>15 DEF EndOfMessage, Crossing
<1>16. CASE Sleep
  <2>1. ForEach(<<"CheckPositionEncoderToAll">>, AllDrivers) \in Seq(FunctionCalls)
    <3>1. AllDrivers \in Seq(Numbers)
      BY DEF AllDrivers, Numbers
    <3>2. Answering(<<"CheckPositionEncoderToAll">>)
      BY AnsweringIs, PlainAre
    <3> QED BY <3>1, <3>2, PlainCalls
  <2> QED BY <1>16, <2>1 DEF Sleep, Counted
<1>17. CASE EndOfCheck
  BY <1>17 DEF EndOfCheck
<1>18. CASE UNCHANGED vars
  BY <1>18 DEF vars
<1>19. ASSUME NEW c \in Clients, Accept(c) PROVE TypeOK' /\ LinesOK'
  BY <1>19 DEF Accept, Welcomes
<1> QED BY <1>5, <1>6, <1>7, <1>8, <1>9, <1>10, <1>11, <1>12, <1>13, <1>14, <1>15,
           <1>16, <1>17, <1>18, <1>19 DEF Next, Loop, Ended

LEMMA TargetNext == DInv /\ [Next]_vars => TargetIs'
<1> SUFFICES ASSUME DInv, [Next]_vars PROVE TargetIs'
  OBVIOUS
<1>0. TypeOK /\ LinesOK /\ TargetIs
  BY DEF DInv
<1>1. queue # <<>> => Head(queue) \in Commands
  BY <1>0, HeadTailProperties DEF LinesOK
<1>2. \A q \in Commands : q # NoCommand
  BY SourceAssumption DEF NoCommand, Commands
<1> USE <1>0 DEF TargetIs, stdin, taken, room, Start, Received
<1>3. CASE GetInput
  BY <1>3 DEF GetInput, AfterInput
<1>4. CASE GetCommand
  BY <1>1, <1>2, <1>4 DEF GetCommand, SockidOn
<1>5. CASE Dispatch
  BY <1>5 DEF Dispatch
<1>6. CASE Connect
  BY <1>6 DEF Connect
<1>7. CASE LoadEncoderFromFile
  BY <1>7 DEF LoadEncoderFromFile
<1>8. CASE CheckAssoc
  BY <1>8 DEF CheckAssoc
<1>9. CASE Listen
  BY <1>9 DEF Listen
<1>10. CASE Function
  BY <1>10 DEF Function
<1>11. CASE EndOfMessage
  BY <1>11 DEF EndOfMessage
<1>12. CASE Sleep
  BY <1>12 DEF Sleep
<1>13. CASE EndOfCheck
  BY <1>13 DEF EndOfCheck
<1>14. CASE \/ Ended \/ UNCHANGED vars
            \/ \E line \in Lines : Producer(line) \/ \E c \in Clients : Send(c, line)
  BY <1>14 DEF Ended, vars, room, Producer, Send
<1>15. ASSUME NEW c \in Clients, Accept(c) PROVE TargetIs'
  BY <1>15 DEF Accept, Welcomes
<1> QED BY <1>3, <1>4, <1>5, <1>6, <1>7, <1>8, <1>9, <1>10, <1>11, <1>12, <1>13,
           <1>14, <1>15 DEF Next, Loop

\* A line is owed for from its arrival to its END OF MESSAGE.
LEMMA OwedNext == DInv /\ [Next]_vars => OwedIs'
<1> SUFFICES ASSUME DInv, [Next]_vars PROVE OwedIs'
  OBVIOUS
<1>0. LinesOK /\ TargetIs /\ OwedIs
  BY DEF DInv
<1>1. \A c \in Clients : Cardinality(Mine(queue, c)) \in Nat /\ owed[c] \in Nat
  BY <1>0, MineIsFinite DEF LinesOK, OwedIs
<1>2. ASSUME owed' = owed, command_received_by_user'.from = command_received_by_user.from,
             queue' = queue, pc' = "sleep" <=> pc = "sleep", crossed' = crossed
      PROVE  OwedIs'
  BY <1>0, <1>2 DEF OwedIs, Mine
<1>3. CASE \/ GetInput \/ Connect \/ LoadEncoderFromFile \/ CheckAssoc \/ Function
           \/ Ended \/ UNCHANGED vars \/ \E line \in Lines : Producer(line)
           \/ \E c \in Clients : Accept(c)
  <2>1. /\ UNCHANGED <<owed, queue, command_received_by_user, crossed>>
        /\ pc' = "sleep" <=> pc = "sleep"
    BY <1>3 DEF GetInput, AfterInput, Connect, LoadEncoderFromFile, CheckAssoc, Function,
                Ended, vars, taken, room, Producer, Accept
  <2> QED BY <1>2, <2>1
<1>4. CASE Dispatch \/ Sleep \/ EndOfCheck
  <2>1. owed' = owed /\ queue' = queue /\ crossed' = crossed
    BY <1>4 DEF Dispatch, Sleep, EndOfCheck, room
  <2>2. ASSUME NEW c \in Clients
        PROVE  (command_received_by_user.from = c /\ pc # "sleep")
                 <=> (command_received_by_user'.from = c /\ pc' # "sleep")
    <3>1. NoCommand.from # c
      BY SourceAssumption DEF NoCommand
    <3>2. CASE Dispatch
      BY <1>0, <3>1, <3>2, CommandIs DEF Dispatch, Received, taken
    <3>3. CASE Sleep
      BY <3>1, <3>3 DEF Sleep
    <3>4. CASE EndOfCheck
      BY <1>0, <3>1, <3>4 DEF EndOfCheck, taken, TargetIs
    <3> QED BY <1>4, <3>2, <3>3, <3>4
  <2> QED BY <1>0, <2>1, <2>2 DEF OwedIs, Mine
<1>5. ASSUME NEW line \in Lines, NEW c \in Clients, Send(c, line)
      PROVE  OwedIs'
  <2> DEFINE m == [from |-> c, line |-> line]
  <2>1. m \in Commands /\ m.from = c
    BY DEF Commands
  <2>2. /\ queue' = Append(queue, m)
        /\ owed' = [owed EXCEPT ![c] = IF c \in crossed THEN @ ELSE @ + 1]
        /\ UNCHANGED <<command_received_by_user, pc, crossed>>
    BY <1>5 DEF Send, taken, room
  <2>3. ASSUME NEW d \in Clients
        PROVE  Cardinality(Mine(queue', d)) =
                 Cardinality(Mine(queue, d)) + (IF c = d THEN 1 ELSE 0)
    BY <1>0, <2>1, <2>2, MineAppend DEF LinesOK
  <2>4. ASSUME NEW d \in Clients \ crossed PROVE owed'[d] = owed[d] + (IF c = d THEN 1 ELSE 0)
    BY <1>0, <1>1, <2>2 DEF OwedIs
  <2>5. owed' \in [Clients -> Nat]
    BY <1>0, <1>1, <2>2 DEF OwedIs
  <2>6. \A d \in Clients : Mine(queue, d)' = Mine(queue', d)
    BY DEF Mine
  <2> QED BY <1>0, <1>1, <2>2, <2>3, <2>4, <2>5, <2>6 DEF OwedIs
<1>6. CASE GetCommand
  <2>1. CASE queue = <<>>
    <3>1. queue' = queue /\ owed' = owed /\ command_received_by_user' = NoCommand
          /\ crossed' = crossed
          /\ command_received_by_user = NoCommand /\ pc # "sleep" /\ pc' # "sleep"
      BY <1>0, <1>6, <2>1 DEF GetCommand, TargetIs
    <3> QED BY <1>2, <3>1
  <2>2. CASE queue # <<>>
    <3>1. /\ queue' = Tail(queue) /\ owed' = owed /\ crossed' = crossed
          /\ command_received_by_user' = Head(queue)
          /\ command_received_by_user = NoCommand /\ pc' = "dispatch"
      BY <1>0, <1>6, <2>2 DEF GetCommand, TargetIs
    <3>2. ASSUME NEW d \in Clients \ crossed
          PROVE  owed[d] = Cardinality(Mine(queue, d))
      BY <1>0, <1>1, <3>1, SourceAssumption DEF OwedIs, NoCommand
    <3>3. Tail(queue) \in Seq(Commands)
      BY <1>0, <2>2, HeadTailProperties DEF LinesOK
    <3>4. ASSUME NEW d \in Clients \ crossed
          PROVE  owed[d] = Cardinality(Mine(Tail(queue), d))
                           + (IF Head(queue).from = d THEN 1 ELSE 0)
      BY <1>0, <2>2, <3>2, MineTail DEF LinesOK
    <3>5. \A d \in Clients : Mine(queue, d)' = Mine(Tail(queue), d)
      BY <3>1 DEF Mine
    <3> QED BY <1>0, <3>1, <3>4, <3>5 DEF OwedIs
  <2> QED BY <2>1, <2>2
<1>7. CASE Listen
  <2>0. UNCHANGED <<command_received_by_user, pc, crossed>>
    BY <1>7 DEF Listen, taken, room
  <2>1. CASE queue = <<>>
    <3>1. /\ queue' = queue
          /\ owed' = [c \in Clients |->
               IF c = NoCommand.from /\ c \notin crossed THEN owed[c] - 1 ELSE owed[c]]
      BY <1>7, <2>1 DEF Listen
    <3>2. owed' = owed
      BY <1>0, <3>1, SourceAssumption DEF OwedIs, NoCommand
    <3> QED BY <1>2, <2>0, <3>1, <3>2
  <2>2. CASE queue # <<>>
    <3>1. /\ queue' = Tail(queue)
          /\ owed' = [c \in Clients |->
               IF c = Head(queue).from /\ c \notin crossed THEN owed[c] - 1 ELSE owed[c]]
      BY <1>7, <2>2 DEF Listen
    <3>2. Tail(queue) \in Seq(Commands)
      BY <1>0, <2>2, HeadTailProperties DEF LinesOK
    <3>3. ASSUME NEW d \in Clients
          PROVE  /\ Cardinality(Mine(Tail(queue), d)) \in Nat
                 /\ Cardinality(Mine(queue, d)) = Cardinality(Mine(Tail(queue), d))
                                                  + (IF Head(queue).from = d THEN 1 ELSE 0)
      BY <1>0, <2>2, <3>2, MineTail, MineIsFinite DEF LinesOK
    <3>4. ASSUME NEW d \in Clients \ crossed
          PROVE  owed'[d] = Cardinality(Mine(Tail(queue), d))
                   + (IF command_received_by_user.from = d /\ pc # "sleep" THEN 1 ELSE 0)
      <4>1. owed'[d] = owed[d] - (IF Head(queue).from = d THEN 1 ELSE 0)
        BY <1>1, <3>1
      <4>2. owed[d] = Cardinality(Mine(queue, d))
               + (IF command_received_by_user.from = d /\ pc # "sleep" THEN 1 ELSE 0)
        BY <1>0 DEF OwedIs
      <4> QED BY <1>1, <3>3, <4>1, <4>2
    <3>5. owed' \in [Clients -> Nat]
      <4>1. ASSUME NEW d \in Clients PROVE owed'[d] \in Nat
        <5>1. CASE d \in crossed
          BY <1>1, <3>1, <5>1
        <5>2. CASE d \notin crossed
          BY <3>3, <3>4, <5>2
        <5> QED BY <5>1, <5>2
      <4> QED BY <3>1, <4>1
    <3>6. \A d \in Clients : Mine(queue, d)' = Mine(Tail(queue), d)
      BY <3>1 DEF Mine
    <3> QED BY <2>0, <3>4, <3>5, <3>6 DEF OwedIs
  <2> QED BY <2>1, <2>2
<1>8. CASE EndOfMessage
  <2>1. /\ pc = "execute" /\ pc' = "sleep" /\ queue' = queue
        /\ crossed' = (IF welcomed THEN crossed \cup Crossing ELSE crossed)
        /\ owed' = [c \in Clients |->
             IF c \in crossed' THEN 0 ELSE IF IsTold(c) THEN owed[c] - 1 ELSE owed[c]]
        /\ command_received_by_user' = command_received_by_user
    BY <1>8 DEF EndOfMessage, taken
  <2>2. ASSUME NEW c \in Clients \ crossed'
        PROVE  IsTold(c) <=> command_received_by_user.from = c
    <3>1. CASE welcomed
      BY <2>1, <2>2, <3>1 DEF Crossing, IsTold
    <3>2. CASE ~welcomed /\ command_received_by_user = NoCommand
      <4>1. buffer # Nothing
        BY <1>0, <2>1, <3>2 DEF TargetIs, Received, NoCommand
      <4>2. target = "stdin"
        BY <1>0, <2>1, <3>2, <4>1 DEF TargetIs
      <4> QED BY <3>2, <4>2, SourceAssumption DEF NoCommand, IsTold
    <3>3. CASE ~welcomed /\ command_received_by_user # NoCommand
      BY <1>0, <2>1, <3>3 DEF TargetIs, IsTold
    <3> QED BY <3>1, <3>2, <3>3
  <2>3. ASSUME NEW c \in Clients \ crossed' PROVE owed'[c] = Cardinality(Mine(queue, c))
    <3>1. c \notin crossed
      BY <2>1, <2>3
    <3>2. owed[c] = Cardinality(Mine(queue, c))
                    + (IF command_received_by_user.from = c THEN 1 ELSE 0)
      BY <1>0, <2>1, <3>1 DEF OwedIs
    <3> QED BY <1>1, <2>1, <2>2, <3>2
  <2>4. owed' \in [Clients -> Nat]
    <3>1. ASSUME NEW d \in Clients PROVE owed'[d] \in Nat
      BY <1>1, <2>1, <2>3
    <3> QED BY <2>1, <3>1
  <2>5. \A d \in Clients : Mine(queue, d)' = Mine(queue, d)
    BY <2>1 DEF Mine
  <2> QED BY <1>1, <2>1, <2>3, <2>4, <2>5 DEF OwedIs
<1> QED BY <1>3, <1>4, <1>5, <1>6, <1>7, <1>8 DEF Next, Loop

\* A branch whose lines stay is the branch it was.
LEMMA BranchStays ==
  UNCHANGED <<buffer, command_received_by_user>> =>
    Branch' = Branch /\ (Received' <=> Received)
BY DEF Branch, Received

\* What is done is told, what is left was there before.
LEMMA NamedByTail ==
  ASSUME NEW calls \in Seq(FunctionCalls), calls # <<>>
  PROVE  /\ NamedBy(calls) = NamedBy(Tail(calls)) \cup
              (IF Head(calls).do \in Naming THEN {Head(calls).drv} ELSE {})
         /\ NothingElse(calls) => NothingElse(Tail(calls))
<1>1. /\ Tail(calls) \in Seq(FunctionCalls) /\ Len(calls) \in Nat \ {0}
      /\ Len(Tail(calls)) = Len(calls) - 1
      /\ \A i \in 1 .. Len(Tail(calls)) : Tail(calls)[i] = calls[i + 1]
      /\ Head(calls) = calls[1]
  BY HeadTailProperties, EmptySeq
<1>2. DOMAIN calls = 1 .. Len(calls) /\ DOMAIN Tail(calls) = 1 .. Len(calls) - 1
  BY <1>1
<1>3. ASSUME NEW k \in DOMAIN calls
      PROVE  k = 1 \/ (k - 1 \in DOMAIN Tail(calls) /\ Tail(calls)[k - 1] = calls[k])
  BY <1>1, <1>2
<1>4. ASSUME NEW k \in DOMAIN Tail(calls)
      PROVE  k + 1 \in DOMAIN calls /\ Tail(calls)[k] = calls[k + 1]
  BY <1>1, <1>2
<1>5. NothingElse(calls) => NothingElse(Tail(calls))
  BY <1>4 DEF NothingElse
<1>6. 1 \in DOMAIN calls
  BY <1>1, <1>2
<1>7. ASSUME NEW x \in NamedBy(calls)
      PROVE  x \in NamedBy(Tail(calls)) \/ (Head(calls).do \in Naming /\ x = Head(calls).drv)
  BY <1>1, <1>3 DEF NamedBy
<1>8. ASSUME NEW x \in NamedBy(Tail(calls)) PROVE x \in NamedBy(calls)
  BY <1>4 DEF NamedBy
<1>9. Head(calls).do \in Naming => Head(calls).drv \in NamedBy(calls)
  BY <1>1, <1>6 DEF NamedBy
<1> QED BY <1>5, <1>7, <1>8, <1>9

LEMMA NoCalls == NamedBy(<<>>) = {} /\ NothingElse(<<>>)
BY DEF NamedBy, NothingElse

LEMMA ToldNext == DInv /\ [Next]_vars => ToldIs'
<1> SUFFICES ASSUME DInv, [Next]_vars PROVE ToldIs'
  OBVIOUS
<1>0. TypeOK /\ LinesOK /\ TargetIs /\ ToldIs
  BY DEF DInv
<1>1. todo # <<>> => /\ NamedBy(todo) = NamedBy(Tail(todo)) \cup
                          (IF Head(todo).do \in Naming THEN {Head(todo).drv} ELSE {})
                     /\ NothingElse(todo) => NothingElse(Tail(todo))
  BY <1>0, NamedByTail DEF LinesOK
<1>2. ASSUME told' = told, todo' = todo, pc' = pc,
             UNCHANGED <<buffer, command_received_by_user>>
      PROVE  ToldIs'
  BY <1>0, <1>2, BranchStays DEF ToldIs, NamedBy, NothingElse
<1>3. ASSUME pc' # "execute", told' = {}
      PROVE  ToldIs'
  BY <1>3 DEF ToldIs
<1>4. CASE \/ Ended \/ UNCHANGED vars
           \/ \E line \in Lines : Producer(line) \/ \E c \in Clients : Send(c, line)
           \/ \E c \in Clients : Accept(c)
  BY <1>2, <1>4 DEF Ended, vars, taken, Producer, Send, Accept
<1>5. CASE GetInput \/ GetCommand \/ Sleep \/ EndOfCheck \/ EndOfMessage
  BY <1>0, <1>3, <1>5 DEF GetInput, AfterInput, GetCommand, Sleep, EndOfCheck,
                          EndOfMessage, ToldIs, Start
<1>6. CASE Dispatch
  <2>1. UNCHANGED <<buffer, command_received_by_user>> /\ told' = told /\ told = {}
    BY <1>0, <1>6 DEF Dispatch, taken, ToldIs
  <2>2. CASE pc' # "execute"
    BY <1>3, <2>1, <2>2
  <2>3. CASE pc' = "execute"
    <3>1. Received /\ todo' = Calls(Branch.name, Branch.line)
      BY <1>6, <2>3 DEF Dispatch
    <3>2. /\ NothingElse(Calls(Branch.name, Branch.line))
          /\ Branch.name # "encode" =>
               NamedBy(Calls(Branch.name, Branch.line)) \ {0} = Named(Branch.line) \ {0}
      BY <1>0, <3>1, CommandIs, BranchIs, CallsAre DEF LinesOK
    <3>3. PICK calls : calls = todo'
      OBVIOUS
    <3>4. NamedBy(todo)' = NamedBy(calls) /\ (NothingElse(todo)' <=> NothingElse(calls))
      BY <3>3 DEF NamedBy, NothingElse
    <3>5. Branch' = Branch /\ Named(Branch.line)' = Named(Branch.line)
      BY <2>1, BranchStays
    <3> QED BY <2>1, <3>1, <3>2, <3>3, <3>4, <3>5 DEF ToldIs
  <2> QED BY <2>2, <2>3
<1>7. CASE Connect \/ LoadEncoderFromFile \/ CheckAssoc \/ Listen \/ Function
  <2>1. UNCHANGED <<buffer, command_received_by_user, pc>> /\ todo # <<>>
    BY <1>7 DEF Connect, LoadEncoderFromFile, CheckAssoc, Listen, Function, taken,
                Doing, Executing
  <2>2. PICK calls : calls = todo'
    OBVIOUS
  <2>3. NamedBy(todo)' = NamedBy(calls) /\ (NothingElse(todo)' <=> NothingElse(calls))
    BY <2>2 DEF NamedBy, NothingElse
  <2>4. Branch' = Branch /\ Named(Branch.line)' = Named(Branch.line)
    BY <2>1, BranchStays
  <2>5. CASE pc # "execute"
    BY <1>0, <1>3, <1>7, <2>1, <2>5
       DEF ToldIs, Connect, LoadEncoderFromFile, CheckAssoc, Listen, Function
  <2>6. ASSUME pc = "execute", NothingElse(calls),
               (told' \cup NamedBy(calls)) \ {0} = (told \cup NamedBy(todo)) \ {0}
        PROVE  ToldIs'
    BY <1>0, <2>1, <2>3, <2>4, <2>6 DEF ToldIs
  <2>7. CASE pc = "execute" /\ Function
    <3>1. /\ told' = (IF Head(todo).do \in Naming THEN told \cup {Head(todo).drv} ELSE told)
          /\ calls = Tail(todo)
      BY <2>2, <2>7 DEF Function
    <3> QED BY <1>0, <1>1, <2>1, <2>6, <2>7, <3>1 DEF ToldIs
  <2>8. CASE pc = "execute" /\ (Connect \/ LoadEncoderFromFile)
    <3>1. told' = told /\ calls = Tail(todo) /\ Head(todo).do \notin Naming
      BY <2>2, <2>8 DEF Connect, LoadEncoderFromFile, Doing, Naming
    <3> QED BY <1>0, <1>1, <2>1, <2>6, <2>8, <3>1 DEF ToldIs
  <2>9. CASE pc = "execute" /\ (CheckAssoc \/ Listen)
    <3>1. /\ told' = told /\ calls \in {<<>>, Tail(todo)}
          /\ Head(todo).do \in {"CheckAssoc", "Listen"}
      BY <2>2, <2>9 DEF CheckAssoc, Listen, Doing
    <3>2. NamedBy(todo) \subseteq {0} /\ NamedBy(Tail(todo)) \subseteq {0}
      <4>1. Head(todo) = todo[1] /\ 1 \in DOMAIN todo
        BY <1>0, <2>1, EmptySeq DEF LinesOK
      <4>2. todo[1].do \notin Plain
        BY <3>1, <4>1 DEF Plain
      <4>3. \A k \in DOMAIN todo : todo[k].drv = 0
        BY <1>0, <2>9, <4>1, <4>2 DEF ToldIs, NothingElse
      <4> QED BY <1>1, <2>1, <4>3 DEF NamedBy
    <3>3. NothingElse(calls)
      BY <1>0, <1>1, <2>1, <2>9, <3>1, NoCalls DEF ToldIs
    <3>4. NamedBy(calls) \subseteq {0}
      BY <3>1, <3>2, NoCalls
    <3> QED BY <2>6, <2>9, <3>1, <3>2, <3>3, <3>4
  <2> QED BY <1>7, <2>5, <2>7, <2>8, <2>9
<1> QED BY <1>4, <1>5, <1>6, <1>7 DEF Next, Loop

------------------------------------------------------------------------------
(* The theorems.                                                           *)

LEMMA DispatcherInvariant == Spec => []DInv
<1>1. DInv /\ [Next]_vars => DInv'
  BY TypesNext, TargetNext, OwedNext, ToldNext DEF DInv
<1> QED BY <1>1, DInvInit, PTL DEF Spec

\* The variables of the loop hold values of their types, and no more lines are
\* under way than are let in (the loop of Main.c).
THEOREM TypeCorrect == Spec => []TypeOK
<1>1. DInv => TypeOK
  BY DEF DInv
<1> QED BY <1>1, DispatcherInvariant, PTL

\* A client is owed an END OF MESSAGE for each line it has waiting and the one
\* in execution, and for no other: whatever is typed meanwhile, whoever
\* answers a question of an association check and whomever the acceptor
\* welcomes before and after; only a client whose END the acceptor sent to a
\* newcomer in the middle of a command, and the newcomer, are excepted
\* (GetCommand, OutputModuleSockidOn and the end of the chain of branches).
THEOREM EveryLineHasItsEnd == Spec => []OneEndForEachLine
<1>1. DInv => OneEndForEachLine
  BY DEF DInv, OwedIs, OneEndForEachLine, Mine
<1> QED BY <1>1, DispatcherInvariant, PTL

\* A command has answered for every driver its line names when it ends, for
\* any number of drivers and of arguments (the loops of get_all_parameter,
\* homing_mult, moveto_mult and setmult_par).
THEOREM LoopsAnswerForAll == Spec => EveryDriverIsAnsweredFor
<1>1. DInv /\ EndOfMessage /\ Branch.name # "encode" =>
        told \ {0} = Named(Branch.line) \ {0}
  BY NoCalls DEF DInv, ToldIs, EndOfMessage
<1>2. DInv /\ [Next]_vars =>
        [EndOfMessage /\ Branch.name # "encode" =>
           told \ {0} = Named(Branch.line) \ {0}]_vars
  BY <1>1
<1> QED BY <1>2, DispatcherInvariant, PTL DEF Spec, EveryDriverIsAnsweredFor

==============================================================================
